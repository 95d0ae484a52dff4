------------------------- MODULE ProcMachineProofs -------------------------
(***************************************************************************)
(* Theorems about ProcMachine, for every number of tasks, every set of     *)
(* threads and every number of wakes.                                      *)
(***************************************************************************)
EXTENDS ProcMachine, TLAPS

USE DEF Tasks, Bits, Threads, NoTask, TICKING, NoCall, LockedPcs

\* The task inside its poll is the one whose turn it is.
RunsInTurn == running # NoTask => running = layer

\* The types, and what keeps the layer within the chain.
TypeInv == TypeOK /\ RunsInTurn

\* Every step keeps the types.
LEMMA TypeInvariant == Spec => []TypeInv
<1> USE NTasksAssumption, ThreadsAssumption, MaxWakesAssumption
    DEF WakerDepths, TypeInv, RunsInTurn
<1>1. Init => TypeInv
  <2> SUFFICES ASSUME Init PROVE TypeInv
    OBVIOUS
  <2>1. pc \in [Threads -> LockedPcs \cup
          {"idle", "notify", "parked", "want", "register", "finished"}]
    BY DEF Init
  <2>2. call \in [Threads -> Frames \cup {NoCall}]
    BY DEF Init
  <2>3. slot \in BOOLEAN /\ notified \in BOOLEAN /\ raced \in BOOLEAN
    BY Zenon DEF Init
  <2> QED
    BY <2>1, <2>2, <2>3 DEF Init, TypeOK
<1>2. TypeInv /\ [Next]_vars => TypeInv'
  <2> SUFFICES ASSUME TypeInv, [Next]_vars PROVE TypeInv'
    OBVIOUS
  <2> USE DEF TypeOK, ext, lockVars, sched, pass, wakeCalls
  <2>1. ASSUME AtomicWake PROVE /\ slot' \in BOOLEAN /\ notified' \in BOOLEAN
                               /\ raced' \in BOOLEAN
    BY <2>1, Zenon DEF AtomicWake
  <2>2. ASSUME NEW t \in Users, LockIo(t) \/ IsDone(t) PROVE TypeInv'
    BY <2>2 DEF LockIo, IsDone, Acquire, Goto
  <2>3. ASSUME NEW t \in Threads, NEW n \in Tasks, CallWake(t, n) PROVE TypeInv'
    BY <2>3 DEF CallWake, Frames, Frame
  <2>4. ASSUME NEW t \in Threads, WakeStep(t) PROVE TypeInv'
    <3> USE DEF Frames, Frame
    <3>1. CASE WakeAlreadySet(t)
      <4>1. call[t] \in Frames
        BY <3>1 DEF WakeAlreadySet
      <4> QED
        BY <3>1, <4>1 DEF WakeAlreadySet, Recorded
    <3>2. CASE WakeLoad(t)
      <4>1. call[t] \in Frames
        BY <3>2 DEF WakeLoad
      <4> QED
        BY <3>2, <4>1 DEF WakeLoad
    <3>3. CASE WakeCas(t)
      <4>1. call[t] \in Frames
        BY <3>3 DEF WakeCas
      <4> QED
        BY <3>3, <4>1 DEF WakeCas, Recorded
    <3>4. CASE WakeCasFails(t)
      <4>1. call[t] \in Frames
        BY <3>4 DEF WakeCasFails
      <4> QED
        BY <3>4, <4>1 DEF WakeCasFails
    <3>5. CASE WakeNotify(t)
      BY <2>1, <3>5 DEF WakeNotify
    <3> QED
      BY <2>4, <3>1, <3>2, <3>3, <3>4, <3>5 DEF WakeStep
  <2>5. ASSUME NEW t \in Threads, TickStep(t) PROVE TypeInv'
    <3>1. CASE TickSwap(t)
      BY <3>1 DEF TickSwap, Goto
    <3>2. CASE SkipFinished(t)
      BY <3>2 DEF SkipFinished, Turn
    <3>3. CASE SkipIdle(t)
      BY <3>3 DEF SkipIdle, Turn
    <3>4. CASE BeginPoll(t)
      BY <3>4 DEF BeginPoll, Turn
    <3>5. ASSUME NEW ready \in BOOLEAN, EndPoll(t, ready) PROVE TypeInv'
      <4>1. running = layer
        BY <3>5 DEF EndPoll, InTask
      <4> QED
        BY <3>5, <4>1 DEF EndPoll, InTask
    <3>6. CASE EndPass(t)
      BY <3>6 DEF EndPass, Goto
    <3>7. CASE TickExit(t)
      BY <3>7 DEF TickExit, Goto
    <3>8. CASE TickRetry(t)
      BY <3>8 DEF TickRetry, Goto
    <3> QED
      BY <2>5, <3>1, <3>2, <3>3, <3>4, <3>5, <3>6, <3>7, <3>8 DEF TickStep
  <2>6. ASSUME NEW t \in Threads, LeaveStep(t) PROVE TypeInv'
    <3>1. CASE DropGuard(t)
      BY <3>1 DEF DropGuard, Goto
    <3>2. CASE IsDoneWake(t)
      BY <2>1, <3>2 DEF IsDoneWake, Goto
    <3>3. CASE Release(t)
      <4>1. AfterRelease \in {"notify", "register", "idle"}
        BY DEF AfterRelease
      <4> QED
        BY <3>3, <4>1 DEF Release, Goto
    <3>4. CASE UnlockNotify(t)
      BY <2>1, <3>4 DEF UnlockNotify, Goto
    <3> QED
      BY <2>6, <3>1, <3>2, <3>3, <3>4 DEF LeaveStep
  <2>7. CASE ExtRun \/ ExtLock \/ ExtRegister
    <3>1. CASE ExtRun
      BY <3>1 DEF ExtRun, Goto
    <3>2. CASE ExtLock
      BY <3>2 DEF ExtLock, Acquire, Goto
    <3>3. CASE ExtRegister
      BY <3>3 DEF ExtRegister, AtomicRegister, Goto
    <3> QED
      BY <2>7, <3>1, <3>2, <3>3
  <2>8. CASE UNCHANGED vars
    BY <2>8 DEF vars
  <2> QED
    BY <2>2, <2>3, <2>4, <2>5, <2>6, <2>7, <2>8 DEF Next
<1> QED
  BY <1>1, <1>2, PTL DEF Spec

(***************************************************************************)
(* The variables have their types: the bits of wake_mask stay within the   *)
(* depths of the tasks and the flag, every thread is at a known place, and *)
(* a pass stays within the chain.                                          *)
(***************************************************************************)
THEOREM TypeCorrect == Spec => []TypeOK
<1>1. TypeInv => TypeOK
  BY DEF TypeInv
<1> QED
  BY <1>1, TypeInvariant, PTL

-----------------------------------------------------------------------------
(* Who stands where: the part of the inductive invariant that ties the     *)
(* program counters to the mutex.                                          *)

HolderInside == \A t \in Threads : pc[t] \in LockedPcs <=> holder = t

CallPlaces == \A t \in Threads :
  call[t] # NoCall => pc[t] \in {"idle", "crit"} \/ InTask(t)

Roles ==
  /\ \A t \in Users : pc[t] \notin {"parked", "want", "register", "finished"}
  /\ pc[Poller] \notin {"idle", "crit"}

OpOfHolder ==
  /\ holder = NoThread <=> op = "none"
  /\ holder = Poller <=> op = "ext"
  /\ \A t \in Threads : holder = t /\ op = "build" => pc[t] = "poll"
  /\ \A t \in Threads : pc[t] = "doneWake" => op = "isDone"

\* Outside a pass nothing is claimed and the alive mask is up to date.
BetweenPasses ==
  (\A t \in Threads : pc[t] # "poll") =>
    todo = {} /\ layer = 1 /\ running = NoTask /\ aliveMask = futs

\* Within a pass the layers before the one whose turn it is have returned the bits
\* of exactly those of their tasks that still have a future, polled or not, and
\* the claimed tasks that were not polled yet lie ahead.
FoldInv ==
  /\ \A n \in Tasks : n \in kept <=> n \in futs /\ n < layer
  /\ \A n \in todo : n >= layer
  /\ running # NoTask => layer \in futs /\ layer \notin todo

LockInv ==
  HolderInside /\ CallPlaces /\ Roles /\ OpOfHolder /\ BetweenPasses /\ FoldInv

(***************************************************************************)
(* The mutex discipline: exactly the holder is inside, a thread is in a    *)
(* waker call only where it may make one, a tick leaves nothing half done, *)
(* and the chain of polls adds up the bits that it should.                 *)
(***************************************************************************)
THEOREM LockDiscipline == Spec => []LockInv
<1> USE NTasksAssumption, ThreadsAssumption
    DEF WakerDepths, LockInv, HolderInside, CallPlaces, Roles, OpOfHolder, BetweenPasses,
        FoldInv, InTask
<1>1. Init => LockInv
  <2> SUFFICES ASSUME Init PROVE LockInv
    OBVIOUS
  <2>1. FoldInv
    BY DEF Init
  <2>2. HolderInside /\ CallPlaces /\ Roles /\ OpOfHolder /\ BetweenPasses
    BY DEF Init
  <2> QED
    BY <2>1, <2>2
<1>2. TypeInv /\ LockInv /\ [Next]_vars => LockInv'
  <2> SUFFICES ASSUME TypeInv, LockInv, [Next]_vars PROVE LockInv'
    OBVIOUS
  <2> USE DEF TypeInv, TypeOK, ext, lockVars, sched, pass, wakeCalls
  <2>1. ASSUME NEW t \in Users, LockIo(t) \/ IsDone(t) PROVE LockInv'
    <3>1. /\ holder = NoThread /\ holder' = t /\ pc[t] = "idle"
          /\ \/ pc' = [pc EXCEPT ![t] = "crit"] /\ op' = "guard"
             \/ pc' = [pc EXCEPT ![t] = "swap"] /\ op' = "isDone"
          /\ UNCHANGED <<sched, call>> /\ call[t] = NoCall
      BY <2>1 DEF LockIo, IsDone, Acquire, Goto
    <3>2. todo = {} /\ layer = 1 /\ running = NoTask /\ aliveMask = futs
      BY <3>1
    <3>3. HolderInside' /\ Roles'
      BY <3>1
    <3>4. CallPlaces' /\ BetweenPasses'
      BY <3>1, <3>2
    <3>5. OpOfHolder'
      BY <3>1
    <3>6. FoldInv'
      BY <3>1
    <3> QED
      BY <3>3, <3>4, <3>5, <3>6
  <2>2. ASSUME NEW t \in Threads, NEW n \in Tasks, CallWake(t, n) PROVE LockInv'
    BY <2>2 DEF CallWake
  <2>3. ASSUME NEW t \in Threads, WakeStep(t) PROVE LockInv'
    <3>1. call[t] # NoCall
      BY <2>3 DEF WakeStep, WakeAlreadySet, WakeLoad, WakeCas, WakeCasFails, WakeNotify
    <3>2. \A u \in Threads : u # t => call'[u] = call[u]
      BY <2>3 DEF WakeStep, WakeAlreadySet, WakeLoad, WakeCas, WakeCasFails, WakeNotify
    <3>3. UNCHANGED <<pc, lockVars, sched>>
      BY <2>3 DEF WakeStep, WakeAlreadySet, WakeLoad, WakeCas, WakeCasFails, WakeNotify
    <3> QED
      BY <3>1, <3>2, <3>3
  <2>4. ASSUME NEW t \in Threads, TickStep(t) PROVE LockInv'
    <3>1. CASE TickSwap(t)
      <4>1. FoldInv'
        BY <3>1 DEF TickSwap
      <4> QED
        BY <3>1, <4>1 DEF TickSwap, Goto
    <3>2. CASE SkipFinished(t) \/ SkipIdle(t)
      <4>1. FoldInv'
        <5>1. /\ running' = NoTask /\ layer \in Tasks /\ layer' = layer + 1
              /\ futs' = futs /\ todo' = todo \ {layer}
          BY <3>2 DEF SkipFinished, SkipIdle, Turn
        <5>2. \A n \in Tasks : n < layer' <=> n < layer \/ n = layer
          BY <5>1
        <5>3. \A n \in Tasks : n \in kept' <=> n \in futs' /\ n < layer'
          <6>1. CASE SkipFinished(t)
            BY <5>1, <5>2, <6>1 DEF SkipFinished
          <6>2. CASE SkipIdle(t)
            BY <5>1, <5>2, <6>2 DEF SkipIdle
          <6> QED
            BY <3>2, <6>1, <6>2
        <5>4. \A n \in todo' : n >= layer'
          BY <5>1
        <5> QED
          BY <5>1, <5>3, <5>4
      <4>2. UNCHANGED <<pc, call, lockVars, running>> /\ pc[t] = "poll" /\ running = NoTask
        BY <3>2 DEF SkipFinished, SkipIdle, Turn
      <4> QED
        BY <4>1, <4>2
    <3>3. CASE BeginPoll(t)
      <4>1. FoldInv'
        BY <3>3 DEF BeginPoll, Turn
      <4>2. UNCHANGED <<pc, call, lockVars>> /\ pc[t] = "poll" /\ running' # NoTask
        BY <3>3 DEF BeginPoll, Turn
      <4> QED
        BY <4>1, <4>2
    <3>4. ASSUME NEW ready \in BOOLEAN, EndPoll(t, ready) PROVE LockInv'
      <4>1. running = layer /\ layer \in futs /\ layer \notin todo
        BY <3>4 DEF EndPoll, RunsInTurn
      <4>2. FoldInv'
        BY <3>4, <4>1 DEF EndPoll
      <4>3. UNCHANGED <<pc, call, lockVars>> /\ pc[t] = "poll" /\ call[t] = NoCall
        BY <3>4 DEF EndPoll
      <4> QED
        BY <4>2, <4>3
    <3>5. CASE EndPass(t)
      <4>1. layer = NTasks + 1 /\ \A n \in Tasks : n < layer
        BY <3>5 DEF EndPass
      <4>2. /\ aliveMask' = futs /\ todo = {} /\ layer' = 1 /\ kept' = {}
            /\ UNCHANGED <<futs, todo, running, call, holder>>
        <5>1. kept = futs
          BY <4>1
        <5>2. todo = {}
          BY <4>1
        <5> QED
          BY <3>5, <5>1, <5>2 DEF EndPass
      <4>3. running = NoTask
        BY <3>5 DEF EndPass, RunsInTurn
      <4>4. BetweenPasses' /\ FoldInv'
        BY <4>2, <4>3
      <4>5. /\ pc[t] = "poll" /\ pc' = [pc EXCEPT ![t] = "swap"]
            /\ op' = IF op = "build" THEN "new" ELSE op
        BY <3>5 DEF EndPass, Goto
      <4> QED
        BY <4>2, <4>3, <4>4, <4>5
    <3>6. CASE TickExit(t)
      BY <3>6 DEF TickExit, Goto
    <3>7. CASE TickRetry(t)
      BY <3>7 DEF TickRetry, Goto
    <3> QED
      BY <2>4, <3>1, <3>2, <3>3, <3>4, <3>5, <3>6, <3>7 DEF TickStep
  <2>5. ASSUME NEW t \in Threads, LeaveStep(t) PROVE LockInv'
    <3>1. CASE DropGuard(t)
      BY <3>1 DEF DropGuard, Goto
    <3>2. CASE IsDoneWake(t)
      BY <3>2 DEF IsDoneWake, Goto
    <3>3. CASE Release(t)
      BY <3>3 DEF Release, AfterRelease, Goto
    <3>4. CASE UnlockNotify(t)
      BY <3>4 DEF UnlockNotify, Goto
    <3> QED
      BY <2>5, <3>1, <3>2, <3>3, <3>4 DEF LeaveStep
  <2>6. CASE ExtRun
    BY <2>6 DEF ExtRun, Goto
  <2>7. CASE ExtLock
    BY <2>7 DEF ExtLock, Acquire, Goto
  <2>8. CASE ExtRegister
    BY <2>8 DEF ExtRegister, Goto
  <2>9. CASE UNCHANGED vars
    BY <2>9 DEF vars
  <2> QED
    BY <2>1, <2>2, <2>3, <2>4, <2>5, <2>6, <2>7, <2>8, <2>9 DEF Next
<1> QED
  BY <1>1, <1>2, TypeInvariant, PTL DEF Spec

-----------------------------------------------------------------------------
(* What becomes of a wake inside the machine.                              *)

InnerOwed == inner \subseteq owed

\* SectionDrained holds as soon as the tick is over.
SectionClean ==
  \A t \in Threads : pc[t] \in {"doneWake", "release"} => inner \cap futs = {}

WakeInv == NoLostWake /\ InnerOwed /\ SectionClean /\ TickFlagOwned

\* Every step keeps the whereabouts of the wakes.
LEMMA WakeInvStep ==
  ASSUME TypeOK, LockInv, WakeInv, [Next]_vars
  PROVE  WakeInv'
<1> USE NTasksAssumption, ThreadsAssumption
    DEF WakerDepths, TypeOK, WakeInv, NoLostWake, InnerOwed, SectionClean, TickFlagOwned,
        ext, lockVars, sched, pass, wakeCalls
<1>1. ASSUME NEW t \in Users, LockIo(t) \/ IsDone(t) PROVE WakeInv'
  <2>1. holder = NoThread /\ TICKING \notin wakeMask
    BY <1>1 DEF LockIo, IsDone, Acquire
  <2> QED
    BY <1>1, <2>1 DEF LockIo, IsDone, Acquire, Goto
<1>2. ASSUME NEW t \in Threads, NEW n \in Tasks, CallWake(t, n) PROVE WakeInv'
  BY <1>2 DEF CallWake
<1>3. ASSUME NEW t \in Threads, WakeStep(t) PROVE WakeInv'
  <2>1. call[t] \in Frames /\ call[t].task \in Tasks /\ UNCHANGED <<pc, lockVars, sched>>
    BY <1>3 DEF WakeStep, WakeAlreadySet, WakeLoad, WakeCas, WakeCasFails,
                WakeNotify, Frames
  <2>2. holder = t => pc[t] \notin {"doneWake", "release"}
    BY <2>1 DEF LockInv, CallPlaces, InTask, Frames
  <2>3. holder # t => inner' = inner \/ UNCHANGED inner
    BY <1>3 DEF WakeStep, WakeAlreadySet, WakeLoad, WakeCas, WakeCasFails,
                WakeNotify, Recorded
  <2>4. SectionClean'
    BY <2>1, <2>2, <1>3 DEF LockInv, HolderInside, WakeStep, WakeAlreadySet, WakeLoad,
                WakeCas, WakeCasFails, WakeNotify, Recorded
  <2>5. CASE WakeAlreadySet(t) \/ WakeCas(t)
    <3>1. /\ wakeMask' = wakeMask \cup {call[t].task}
          /\ owed' = owed \cup {call[t].task}
          /\ inner' \subseteq inner \cup {call[t].task}
      BY <2>5 DEF WakeAlreadySet, WakeCas, Recorded
    <3>2. TICKING \in wakeMask' => TICKING \in wakeMask
      BY <2>1, <3>1
    <3> QED
      BY <2>1, <2>4, <3>1, <3>2
  <2>6. CASE WakeLoad(t) \/ WakeCasFails(t) \/ WakeNotify(t)
    BY <2>4, <2>6 DEF WakeLoad, WakeCasFails, WakeNotify
  <2> QED
    BY <1>3, <2>5, <2>6 DEF WakeStep
<1>4. ASSUME NEW t \in Threads, TickStep(t) PROVE WakeInv'
  <2>1. CASE TickSwap(t)
    <3>1. holder = t /\ todo = {} /\ aliveMask = futs /\ op \notin {"build", "none"}
      BY <2>1 DEF TickSwap, LockInv, HolderInside, OpOfHolder, BetweenPasses
    <3> QED
      BY <2>1, <3>1 DEF TickSwap, Goto
  <2>2. CASE SkipFinished(t) \/ SkipIdle(t) \/ BeginPoll(t)
    BY <2>2 DEF SkipFinished, SkipIdle, BeginPoll, Turn
  <2>3. ASSUME NEW ready \in BOOLEAN, EndPoll(t, ready) PROVE WakeInv'
    BY <2>3 DEF EndPoll
  <2>4. CASE EndPass(t)
    <3>1. holder = t /\ op # "none"
      BY <2>4 DEF EndPass, LockInv, HolderInside, OpOfHolder
    <3> QED
      BY <2>4, <3>1 DEF EndPass, Goto
  <2>5. CASE TickExit(t)
    <3>1. holder = t /\ todo = {}
      BY <2>5 DEF TickExit, LockInv, HolderInside, BetweenPasses
    <3>2. owed \cap futs = {}
      BY <2>5, <3>1 DEF TickExit
    <3> QED
      BY <2>5, <3>1, <3>2 DEF TickExit, Goto
  <2>6. CASE TickRetry(t)
    BY <2>6 DEF TickRetry, Goto
  <2> QED
    BY <1>4, <2>1, <2>2, <2>3, <2>4, <2>5, <2>6 DEF TickStep
<1>5. ASSUME NEW t \in Threads, LeaveStep(t) PROVE WakeInv'
  <2>1. CASE DropGuard(t)
    BY <2>1 DEF DropGuard, Goto
  <2>2. CASE IsDoneWake(t)
    BY <2>2 DEF IsDoneWake, Goto
  <2>3. CASE Release(t)
    <3>1. AfterRelease \notin {"doneWake", "release"}
      BY DEF AfterRelease
    <3> QED
      BY <2>3, <3>1 DEF Release, Goto, LockInv, HolderInside
  <2>4. CASE UnlockNotify(t)
    BY <2>4 DEF UnlockNotify, Goto
  <2> QED
    BY <1>5, <2>1, <2>2, <2>3, <2>4 DEF LeaveStep
<1>6. CASE ExtRun
  BY <1>6 DEF ExtRun, Goto
<1>7. CASE ExtLock
  BY <1>7 DEF ExtLock, Acquire, Goto
<1>8. CASE ExtRegister
  BY <1>8 DEF ExtRegister, Goto
<1>9. CASE UNCHANGED vars
  BY <1>9 DEF vars
<1> QED
  BY <1>1, <1>2, <1>3, <1>4, <1>5, <1>6, <1>7, <1>8, <1>9 DEF Next

\* What a wake leaves behind, in every reachable state.
LEMMA WakeInvariant == Spec => []WakeInv
<1>1. Init => WakeInv
  BY DEF Init, WakeInv, NoLostWake, InnerOwed, SectionClean, TickFlagOwned
<1>2. TypeOK /\ LockInv /\ WakeInv /\ [Next]_vars => WakeInv'
  BY WakeInvStep
<1> QED
  BY <1>1, <1>2, TypeCorrect, LockDiscipline, PTL DEF Spec

(***************************************************************************)
(* No wake is lost inside the machine: whatever the interleaving of wakes, *)
(* ticks and failed exchanges, a woken task that still lives keeps its bit *)
(* or its place in the running pass until it is polled.                    *)
(***************************************************************************)
THEOREM WakesAreKept == Spec => []NoLostWake
<1>1. WakeInv => NoLostWake
  BY DEF WakeInv
<1> QED
  BY <1>1, WakeInvariant, PTL

(***************************************************************************)
(* A thread that leaves the machine has run every task it woke inside.     *)
(***************************************************************************)
THEOREM SectionsDrain == Spec => []SectionDrained
<1>1. WakeInv => SectionDrained
  BY DEF WakeInv, SectionClean, SectionDrained
<1> QED
  BY <1>1, WakeInvariant, PTL

(***************************************************************************)
(* The ticking flag is up only during the tick of the thread that holds    *)
(* the mutex.                                                              *)
(***************************************************************************)
THEOREM TickFlagIsOwned == Spec => []TickFlagOwned
<1>1. WakeInv => TickFlagOwned
  BY DEF WakeInv
<1> QED
  BY <1>1, WakeInvariant, PTL

(***************************************************************************)
(* Between two passes alive_mask is the set of the unfinished tasks: what  *)
(* the chain of polls adds up layer by layer, over tasks that it polls,    *)
(* skips or finds finished, is right for any number of them.               *)
(***************************************************************************)
THEOREM AliveMaskIsExact == Spec => []AliveMaskExact
<1>1. LockInv => AliveMaskExact
  BY DEF LockInv, BetweenPasses, AliveMaskExact
<1> QED
  BY <1>1, LockDiscipline, PTL

-----------------------------------------------------------------------------
(* What becomes of a notification of the external task.                    *)

SlotKept == pc[Poller] = "parked" => slot \/ notified

\* Nobody inside the machine will tick any more.
TickOver ==
  \A t \in Threads : holder = t => pc[t] \in {"doneWake", "release"}

WakeAnnounced ==
  /\ pc[Poller] \in {"parked", "register", "release"}
  /\ TickOver
  /\ wakeMask \cap futs # {}
  => (\E t \in Threads : call[t].at = "notify") \/ notified \/ raced

DoneAnnounced ==
  /\ pc[Poller] \in {"parked", "register"}
  /\ holder = NoThread /\ futs = {}
  => (\E t \in Threads : pc[t] = "notify") \/ notified \/ raced

IsDoneAnnounced == \A t \in Threads :
  /\ pc[t] = "release" /\ op = "isDone" /\ aliveMask = {}
  /\ pc[Poller] \in {"parked", "register"}
  => notified \/ raced

\* The external task has not come in before the builder is done.
BuildFirst ==
  op \in {"build", "new"} =>
    pc[Poller] = "want" \/ (pc[Poller] = "parked" /\ notified)

NotifyInv ==
  SlotKept /\ WakeAnnounced /\ DoneAnnounced /\ IsDoneAnnounced /\ BuildFirst

\* A wake of the external waker reaches the external task or is recorded as raced.
LEMMA AtomicWakeReaches ==
  ASSUME TypeOK, SlotKept, AtomicWake, pc[Poller] \in {"parked", "register", "release"}
  PROVE  notified' \/ raced'
BY Zenon DEF SlotKept, AtomicWake, InWindow

\* A notification is not taken back by another one.
LEMMA AtomicWakeMonotone ==
  ASSUME AtomicWake
  PROVE  (notified => notified') /\ (raced => raced')
BY Zenon DEF AtomicWake

\* Every step keeps the external task told of what waits for it, the race apart.
LEMMA NotifyInvStep ==
  ASSUME TypeOK, LockInv, WakeInv, NotifyInv, [Next]_vars
  PROVE  NotifyInv'
<1> USE NTasksAssumption, ThreadsAssumption
    DEF WakerDepths, TypeOK, NotifyInv, SlotKept, WakeAnnounced, DoneAnnounced,
        IsDoneAnnounced, BuildFirst, TickOver, ext, lockVars, sched, pass, wakeCalls
<1>1. ASSUME NEW t \in Users, LockIo(t) \/ IsDone(t) PROVE NotifyInv'
  <2>1. /\ holder' = t /\ pc' = [pc EXCEPT ![t] = pc'[t]] /\ pc'[t] \in {"crit", "swap"}
        /\ op' \in {"guard", "isDone"}
        /\ UNCHANGED <<wakeMask, slot, notified, raced, futs, aliveMask, call>>
    BY <1>1 DEF LockIo, IsDone, Acquire, Goto
  <2>2. t # Poller /\ t # NoThread /\ holder = NoThread
    BY <1>1 DEF LockIo, IsDone, Acquire
  <2>3. \A u \in Threads : pc[u] # "release"
    BY <2>2 DEF LockInv, HolderInside
  <2> QED
    BY <2>1, <2>2, <2>3
<1>2. ASSUME NEW t \in Threads, NEW n \in Tasks, CallWake(t, n) PROVE NotifyInv'
  BY <1>2 DEF CallWake, Frame
<1>3. ASSUME NEW t \in Threads, WakeStep(t) PROVE NotifyInv'
  <2>1. CASE WakeAlreadySet(t) \/ WakeLoad(t) \/ WakeCasFails(t)
    BY <2>1 DEF WakeAlreadySet, WakeLoad, WakeCasFails, Frame, Recorded
  <2>2. CASE WakeCas(t)
    <3>1. TickOver => TICKING \notin wakeMask
      BY DEF WakeInv, TickFlagOwned
    <3>2. TICKING \notin wakeMask => call'[t].at = "notify"
      BY <2>2 DEF WakeCas, Frame
    <3>3. UNCHANGED <<pc, holder, op, futs, aliveMask, slot, notified, raced>>
      BY <2>2 DEF WakeCas
    <3> QED
      BY <3>1, <3>2, <3>3
  <2>3. CASE WakeNotify(t)
    <3>1. AtomicWake /\ UNCHANGED <<pc, holder, op, futs, aliveMask, wakeMask>>
      BY <2>3 DEF WakeNotify
    <3>2. pc[Poller] \in {"parked", "register", "release"} => notified' \/ raced'
      BY <3>1, AtomicWakeReaches
    <3>3. (notified => notified') /\ (raced => raced')
      BY <3>1, AtomicWakeMonotone
    <3>4. SlotKept'
      BY <3>1, Zenon DEF AtomicWake
    <3> QED
      BY <3>1, <3>2, <3>3, <3>4
  <2> QED
    BY <1>3, <2>1, <2>2, <2>3 DEF WakeStep
<1>4. ASSUME NEW t \in Threads, TickStep(t) PROVE NotifyInv'
  <2>1. holder = t /\ pc[t] \in {"swap", "poll", "cas"} /\ holder # NoThread
    BY <1>4 DEF TickStep, TickSwap, SkipFinished, SkipIdle, BeginPoll, Turn, EndPoll, InTask,
                EndPass, TickExit, TickRetry, LockInv, HolderInside
  <2>2. \A u \in Threads : pc[u] # "release"
    BY <2>1 DEF LockInv, HolderInside
  <2>3. CASE TickSwap(t) \/ TickRetry(t) \/ EndPass(t)
    <3>1. /\ holder' = t /\ pc' = [pc EXCEPT ![t] = pc'[t]]
          /\ pc'[t] \in {"swap", "poll", "cas"}
          /\ op' = op \/ (op = "build" /\ op' = "new")
          /\ UNCHANGED <<slot, notified, raced, futs, call>>
      BY <2>1, <2>3 DEF TickSwap, TickRetry, EndPass, Goto
    <3> QED
      BY <2>1, <2>2, <3>1
  <2>4. CASE SkipFinished(t) \/ SkipIdle(t) \/ BeginPoll(t)
    BY <2>1, <2>2, <2>4 DEF SkipFinished, SkipIdle, BeginPoll
  <2>5. ASSUME NEW ready \in BOOLEAN, EndPoll(t, ready) PROVE NotifyInv'
    BY <2>1, <2>2, <2>5 DEF EndPoll
  <2>6. CASE TickExit(t)
    <3>1. /\ holder' = t /\ wakeMask' = {}
          /\ pc' = [pc EXCEPT ![t] = pc'[t]]
          /\ pc'[t] = "release" => op # "isDone" \/ aliveMask # {}
          /\ pc'[t] \in {"doneWake", "release"}
          /\ UNCHANGED <<slot, notified, raced, futs, aliveMask, op, call>>
      BY <2>1, <2>6 DEF TickExit, Goto
    <3> QED
      BY <2>1, <2>2, <3>1
  <2> QED
    BY <1>4, <2>3, <2>4, <2>5, <2>6 DEF TickStep
<1>5. ASSUME NEW t \in Threads, LeaveStep(t) PROVE NotifyInv'
  <2>1. CASE DropGuard(t)
    BY <2>1 DEF DropGuard, Goto, LockInv, HolderInside
  <2>2. CASE IsDoneWake(t)
    <3>1. /\ AtomicWake /\ pc' = [pc EXCEPT ![t] = "release"] /\ holder = t
          /\ UNCHANGED <<holder, op, futs, aliveMask, wakeMask, call>>
      BY <2>2 DEF IsDoneWake, Goto, LockInv, HolderInside
    <3>2. t # Poller /\ op = "isDone" /\ holder # NoThread /\ pc[t] = "doneWake"
      BY <2>2, <3>1 DEF IsDoneWake, LockInv, OpOfHolder
    <3>3. pc[Poller] \in {"parked", "register", "release"} => notified' \/ raced'
      BY <3>1, AtomicWakeReaches
    <3>4. (notified => notified') /\ (raced => raced')
      BY <3>1, AtomicWakeMonotone
    <3>5. SlotKept'
      BY <3>1, <3>2, <3>3, Zenon DEF AtomicWake
    <3> QED
      BY <3>1, <3>2, <3>3, <3>4, <3>5
  <2>3. CASE Release(t)
    <3>1. /\ holder' = NoThread /\ op' = "none" /\ pc' = [pc EXCEPT ![t] = AfterRelease]
          /\ pc[t] = "release" /\ holder = t
          /\ UNCHANGED <<futs, aliveMask, wakeMask, call, slot, notified, raced>>
      BY <2>3 DEF Release, Goto, LockInv, HolderInside
    <3>2. /\ op # "none" /\ op # "build" /\ aliveMask = futs
          /\ t = Poller <=> op = "ext"
      BY <3>1 DEF LockInv, HolderInside, OpOfHolder, BetweenPasses
    <3>3. CASE op = "ext"
      BY <3>1, <3>2, <3>3 DEF AfterRelease
    <3>4. CASE op \in {"guard", "isDone", "new"}
      BY <3>1, <3>2, <3>4 DEF AfterRelease
    <3> QED
      BY <3>2, <3>3, <3>4
  <2>4. CASE UnlockNotify(t)
    <3>1. /\ AtomicWake /\ pc[t] = "notify"
          /\ pc' = [pc EXCEPT ![t] = IF t = Poller THEN "finished" ELSE "idle"]
          /\ UNCHANGED <<holder, op, futs, aliveMask, wakeMask, call>>
      BY <2>4 DEF UnlockNotify, Goto
    <3>2. pc[Poller] \in {"parked", "register", "release"} => notified' \/ raced'
      BY <3>1, AtomicWakeReaches
    <3>3. (notified => notified') /\ (raced => raced')
      BY <3>1, AtomicWakeMonotone
    <3>4. pc'[Poller] \in {"parked", "register", "release", "want"} => pc'[Poller] = pc[Poller]
      BY <3>1
    <3>5. SlotKept'
      BY <3>1, <3>4, Zenon DEF AtomicWake
    <3> QED
      BY <3>1, <3>2, <3>3, <3>4, <3>5
  <2> QED
    BY <1>5, <2>1, <2>2, <2>3, <2>4 DEF LeaveStep
<1>6. CASE ExtRun
  BY <1>6 DEF ExtRun, Goto
<1>7. CASE ExtLock
  BY <1>7 DEF ExtLock, Acquire, Goto, LockInv, HolderInside
<1>8. CASE ExtRegister
  BY <1>8 DEF ExtRegister, AtomicRegister, Goto
<1>9. CASE UNCHANGED vars
  BY <1>9 DEF vars
<1> QED
  BY <1>1, <1>2, <1>3, <1>4, <1>5, <1>6, <1>7, <1>8, <1>9 DEF Next

(***************************************************************************)
(* The one way external_poll's promise fails: if the external task sits    *)
(* parked over a pending wake or a finished machine, then a notification   *)
(* fell between the tick of its last external_poll and the registration of *)
(* its waker.                                                              *)
(***************************************************************************)
THEOREM OnlyTheRaceStrands == Spec => []StrandedOnlyByRace
<1>1. Init => NotifyInv
  <2> SUFFICES ASSUME Init PROVE NotifyInv
    OBVIOUS
  <2> USE ThreadsAssumption
  <2>1. pc[Poller] = "parked" /\ notified
    BY Zenon DEF Init
  <2>2. op = "build" /\ wakeMask = {} /\ holder # NoThread
    BY DEF Init
  <2> QED
    BY <2>1, <2>2 DEF NotifyInv, SlotKept, WakeAnnounced, DoneAnnounced,
                      IsDoneAnnounced, BuildFirst
<1>2. TypeOK /\ LockInv /\ WakeInv /\ NotifyInv /\ [Next]_vars => NotifyInv'
  BY NotifyInvStep
<1>3. TypeOK /\ NotifyInv => StrandedOnlyByRace
  BY ThreadsAssumption DEF TypeOK, NotifyInv, WakeAnnounced, DoneAnnounced, TickOver,
        StrandedOnlyByRace, Parked, Stranded
<1> QED
  BY <1>1, <1>2, <1>3, TypeCorrect, LockDiscipline, WakeInvariant, PTL DEF Spec

-----------------------------------------------------------------------------
(* The machine implements TaskScheduler.                                   *)

Pend == todo \cup (wakeMask \ {TICKING})

\* A step that moves a wake between the mask and the claim is none of the scheduler's.
LEMMA StutterMaps ==
  ASSUME UNCHANGED <<futs, running>>, Pend' = Pend
  PROVE  UNCHANGED Scheduler!vars
BY DEF Scheduler!vars, Pend

\* Every step of the machine is a step of the scheduler, or none.
LEMMA SchedulerStep ==
  ASSUME TypeOK, LockInv, [Next]_vars
  PROVE  [Scheduler!Next]_(Scheduler!vars)
<1> USE NTasksAssumption DEF WakerDepths, TypeOK, Pend, ext, lockVars, sched, pass, wakeCalls,
        Scheduler!Tasks, Scheduler!NoTask
<1>1. ASSUME NEW t \in Users, LockIo(t) \/ IsDone(t) PROVE UNCHANGED Scheduler!vars
  BY <1>1, StutterMaps DEF LockIo, IsDone
<1>2. ASSUME NEW t \in Threads, NEW n \in Tasks, CallWake(t, n)
      PROVE UNCHANGED Scheduler!vars
  BY <1>2, StutterMaps DEF CallWake
<1>3. ASSUME NEW t \in Threads, WakeStep(t) PROVE [Scheduler!Next]_(Scheduler!vars)
  <2>1. CASE WakeAlreadySet(t) \/ WakeLoad(t) \/ WakeCasFails(t) \/ WakeNotify(t)
    BY <2>1, StutterMaps DEF WakeAlreadySet, WakeLoad, WakeCasFails, WakeNotify
  <2>2. CASE WakeCas(t)
    <3>1. call[t].task \in Tasks
      BY <2>2 DEF WakeCas, Frames
    <3>2. Scheduler!Wake(call[t].task)
      BY <2>2, <3>1 DEF WakeCas, Scheduler!Wake
    <3> QED
      BY <3>1, <3>2 DEF Scheduler!Next
  <2> QED
    BY <1>3, <2>1, <2>2 DEF WakeStep
<1>4. ASSUME NEW t \in Threads, TickStep(t) PROVE [Scheduler!Next]_(Scheduler!vars)
  <2>1. CASE TickSwap(t)
    <3>1. todo = {} /\ aliveMask = futs
      BY <2>1 DEF TickSwap, LockInv, HolderInside, BetweenPasses
    <3>2. Scheduler!Forget
      BY <2>1, <3>1 DEF TickSwap, Scheduler!Forget
    <3> QED
      BY <3>2 DEF Scheduler!Next
  <2>2. CASE SkipFinished(t)
    <3>1. Scheduler!Forget
      BY <2>2 DEF SkipFinished, Turn, Scheduler!Forget
    <3> QED
      BY <3>1 DEF Scheduler!Next
  <2>3. CASE BeginPoll(t)
    <3>1. Pend' \in {Pend, Pend \ {layer}} /\ layer \in Tasks
      BY <2>3 DEF BeginPoll, Turn
    <3>2. Scheduler!Start(layer)
      BY <2>3, <3>1 DEF BeginPoll, Turn, Scheduler!Start
    <3> QED
      BY <3>1, <3>2 DEF Scheduler!Next
  <2>4. ASSUME NEW ready \in BOOLEAN, EndPoll(t, ready) PROVE Scheduler!Stop
    BY <2>4 DEF EndPoll, InTask, Scheduler!Stop
  <2>5. CASE SkipIdle(t) \/ EndPass(t) \/ TickRetry(t) \/ TickExit(t)
    BY <2>5, StutterMaps DEF SkipIdle, EndPass, TickRetry, TickExit
  <2> QED
    BY <1>4, <2>1, <2>2, <2>3, <2>4, <2>5 DEF TickStep, Scheduler!Next
<1>5. ASSUME NEW t \in Threads, LeaveStep(t) PROVE UNCHANGED Scheduler!vars
  BY <1>5, StutterMaps DEF LeaveStep, DropGuard, IsDoneWake, Release, UnlockNotify
<1>6. CASE ExtRun \/ ExtLock \/ ExtRegister
  BY <1>6, StutterMaps DEF ExtRun, ExtLock, ExtRegister
<1>7. CASE UNCHANGED vars
  BY <1>7, StutterMaps DEF vars
<1> QED
  BY <1>1, <1>2, <1>3, <1>4, <1>5, <1>6, <1>7 DEF Next

(***************************************************************************)
(* The scheduler of proc_machines.rs implements the abstract one: a task   *)
(* runs only when it was woken, one at a time, never after it finished,    *)
(* and a wake goes away only by running its task.                          *)
(***************************************************************************)
THEOREM MachineImplementsScheduler == Spec => ImplementsScheduler
<1>1. Init => Scheduler!Init
  BY NTasksAssumption DEF WakerDepths, Init, Scheduler!Init, Scheduler!Tasks, Scheduler!NoTask
<1>2. TypeOK /\ LockInv /\ [Next]_vars => [Scheduler!Next]_(Scheduler!vars)
  BY SchedulerStep
<1> QED
  BY <1>1, <1>2, TypeCorrect, LockDiscipline, PTL DEF Spec, ImplementsScheduler, Scheduler!Spec
=============================================================================
