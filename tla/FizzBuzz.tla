------------------------------ MODULE FizzBuzz ------------------------------
(***************************************************************************)
(* A machine put together: the task of src/examples/fizz_buzz_*, the       *)
(* objects that join it to the outside, the critical sections that tick it *)
(* and the loops that drive it.  The parts are checked by themselves in    *)
(* ProcMachine, IoExchange and IoPort; this module is about what they do   *)
(* together, in each of the example programs and some variants of them:    *)
(*                                                                         *)
(*   minimal   main sets an InputValue and reads a cell back               *)
(*   sans_io   one loop outside feeds an IoExchange and drains another     *)
(*   io        main connects a source and a sink to two IoPorts            *)
(*   split     the objects of sans_io, fed by one task and drained by      *)
(*             another, which prints the words, as lock_ref allows         *)
(*   wrapped   io with a Stream in a StreamIoStream and a Sink in a        *)
(*             SinkIoSink, which are not always ready and may fail; the    *)
(*             task closes the Sink when the Stream has ended              *)
(*   by_mut    minimal, with the input set through AsMut                   *)
(*                                                                         *)
(* A critical section belongs to one thread, which first works on the      *)
(* objects ("user") and then, dropping its guard, ticks the task ("tick",  *)
(* "poll").                                                                *)
(***************************************************************************)
EXTENDS Naturals, Sequences, SequencesExt

CONSTANT LastNumber   \* the last number of the input: 16 in the examples

ASSUME LastAssumption == LastNumber \in Nat \ {0}

Programs == {"minimal", "by_mut", "sans_io", "io", "split", "wrapped"}
Valued == {"minimal", "by_mut"}
Ported == {"io", "wrapped"}
Exchanged == {"sans_io", "split"}
Sides == {"input", "output"}
Actors == {"main", "feeder", "printer"}
Nobody == "nobody"

\* The WakerRefs of the objects, and the wakers that Stream and Sink keep.
Reader(x) == <<x, "reader">>
Writer(x) == <<x, "writer">>
Port(x) == <<x, "port">>
Input == <<"input", "value">>
StreamWaker == <<"input", "stream">>
SinkWaker == <<"output", "sink">>

VARIABLES
  program,     \* the program that runs
  exch,        \* IoExchange: state and item of each side
  value,       \* InputValue::value
  cell,        \* FizzBuzzIO::output of the minimal program
  connected,   \* the ports that are connected
  stream,      \* what the next poll of the Stream answers
  sink,        \* what the next poll of the Sink answers
  registered,  \* the WakerRefs that hold a waker
  external,    \* external_waker holds main's waker
  raced,       \* a notification fell into the window of external_poll
  woken,       \* the task's bit in the wake mask
  words,       \* send1 and send2, in the order in which they are sent
  taskDone,    \* the task has returned
  inside,      \* the thread inside the machine's mutex
  section,     \* how far its critical section is
  pc,          \* what each thread does next
  told,        \* the threads whose executor has been told to run them
  next,        \* the next number
  printed      \* the lines on the terminal

outer == <<stream, sink>>
objects == <<exch, value, cell, connected, outer>>
task == <<words, taskDone>>
wakers == <<registered, external, raced, woken, told>>
vars == <<program, objects, task, wakers, inside, section, pc, next, printed>>

NoItem == 0
NoText == ""
\* A printed line: a number, a word, or both.
Line(n, text) == <<n, text>>

Fizz(n) == IF n % 3 = 0 THEN <<"Fizz">> ELSE <<>>
Buzz(n) == IF n % 5 = 0 THEN <<"Buzz">> ELSE <<>>

\* Where a thread begins, and where it goes on after it was parked.
Entry(a) ==
  CASE program \in Valued /\ a = "main" -> "set"
    [] program = "sans_io" /\ a = "main" -> "read"
    [] program \in Ported /\ a = "main" -> "connect"
    [] program = "split" /\ a = "feeder" -> "send"
    [] program = "split" /\ a = "printer" -> "read"
    [] OTHER -> "done"
Restart(a) == IF program \in Ported THEN "poll" ELSE Entry(a)

\* The builder has made the task and polls it for the first time.
Init ==
  /\ program \in Programs
  /\ exch = [x \in Sides |-> [state |-> "EMPTY", item |-> NoItem]]
  /\ value = 0 /\ cell = NoText /\ connected = {}
  /\ stream = "pending" /\ sink = "room"
  /\ registered = {} /\ external = FALSE /\ raced = FALSE
  /\ woken = FALSE /\ told = {}
  /\ words = <<>> /\ taskDone = FALSE
  /\ inside = "main" /\ section = "poll"
  /\ pc = [a \in Actors |-> Entry(a)]
  /\ next = 1 /\ printed = <<>>

Owner(w) ==
  CASE w = Writer("input") -> IF program = "split" THEN "feeder" ELSE "main"
    [] w = Reader("output") -> IF program = "split" THEN "printer" ELSE "main"
    [] OTHER -> "task"

\* Some tasks are woken: those outside by their executor, the machine's own by
\* its bit, and, unless a tick is running, by the external waker as well.
Wakes(who) ==
  LET notify == "task" \in who /\ ~woken /\ section \notin {"tick", "poll"}
  IN  /\ woken' = (woken \/ "task" \in who)
      /\ told' = told \cup (who \ {"task"})
                \cup (IF notify /\ external THEN {"main"} ELSE {})
      /\ external' = (external /\ ~notify)
      /\ raced' = (raced \/ (notify /\ pc["main"] = "register"))

Owners(ws) == {Owner(w) : w \in registered \cap ws}

\* WakerRef::wake on the slots rung, WakerRef::register on the slots set.
Ring(rung) == registered' = registered \ rung /\ Wakes(Owners(rung))
RingAndSet(rung, set) ==
  registered' = (registered \ rung) \cup set /\ Wakes(Owners(rung))

PrintLine(line) == printed' = Append(printed, line)
Goto(a, label) == pc' = [pc EXCEPT ![a] = label]

-----------------------------------------------------------------------------
(* IoExchange, as far as these programs use it.                            *)

Full(x) == exch[x].state = "FULL"
Put(x, what) == exch' = [exch EXCEPT ![x] = [state |-> "FULL", item |-> what]]

\* con_poll_read finds nothing: it registers, and acknowledges the empty slot.
ReadPending(x) ==
  /\ ~Full(x)
  /\ exch' = [exch EXCEPT ![x].state = "EMPTY_FLUSHED"]
  /\ RingAndSet(IF exch[x].state = "EMPTY" THEN {Writer(x)} ELSE {}, {Reader(x)})

\* Seeded fault: the writer that waits for room is not woken.
TakeItemSilent(x, me) ==
  /\ Full(x)
  /\ exch' = [exch EXCEPT ![x] = [state |-> "EMPTY", item |-> NoItem]]
  /\ registered' = registered
  /\ Wakes({me})

\* con_poll_read takes the item, wakes the writer and pre-wakes its caller.
TakeItem(x, me) ==
  /\ Full(x)
  /\ exch' = [exch EXCEPT ![x] = [state |-> "EMPTY", item |-> NoItem]]
  /\ registered' = registered \ {Writer(x)}
  /\ Wakes(Owners({Writer(x)}) \cup {me})

\* prod_poll_send into an empty slot, and into a full one.
SendItem(x, what) ==
  /\ ~Full(x)
  /\ Put(x, what)
  /\ Ring({Reader(x)})
SendPending(x) ==
  /\ Full(x)
  /\ RingAndSet({}, {Writer(x)})
  /\ UNCHANGED exch

-----------------------------------------------------------------------------
(* The task.  Each step is one call of the closure of its wait_loop.       *)

Polling == section = "poll"
\* Loop::Wait: the poll is over and the tick goes on.
TaskWaits == section' = "tick"
Again == section' = "poll"

TaskPart == <<program, inside, pc>>
\* The task has something to do for its sink.
Sending == words # <<>> \/ stream = "closed"

TaskSends ==
  /\ Polling /\ program \in Exchanged /\ words # <<>>
  /\ \/ /\ SendItem("output", Head(words))
        /\ words' = Tail(words)
        /\ Again
     \/ /\ SendPending("output")
        /\ TaskWaits
        /\ UNCHANGED words
  /\ UNCHANGED <<TaskPart, value, cell, connected, outer, taskDone, next, printed>>

TaskReads ==
  /\ Polling /\ program \in Exchanged /\ words = <<>>
  /\ \/ /\ TakeItem("input", "task")
        /\ words' = Fizz(exch["input"].item) \o Buzz(exch["input"].item)
        /\ Again
     \/ /\ ReadPending("input")
        /\ TaskWaits
        /\ UNCHANGED words
  /\ UNCHANGED <<TaskPart, value, cell, connected, outer, taskDone, next, printed>>

\* A port that is not connected yet keeps the waker.
TaskWaitsForPort(x) ==
  /\ Polling /\ program \in Ported /\ x \notin connected
  /\ (x = "output") <=> Sending
  /\ RingAndSet({}, {Port(x)})
  /\ TaskWaits
  /\ UNCHANGED <<TaskPart, objects, task, next, printed>>

\* A connected port and the lock adapter of its Arc<Mutex<_>> forward the poll.
SinkPolled == Polling /\ "output" \in connected /\ Sending
StreamPolled == Polling /\ "input" \in connected /\ ~Sending

\* FizzBuzzSink: always ready.
TaskSendsToSink ==
  /\ SinkPolled /\ program = "io"
  /\ PrintLine(Line(0, Head(words)))
  /\ words' = Tail(words)
  /\ UNCHANGED <<TaskPart, section, objects, wakers, taskDone, next>>

\* FizzBuzzSrc: always ready, with a number or with the end.
TaskReadsSource ==
  /\ StreamPolled /\ program = "io"
  /\ \/ /\ next <= LastNumber
        /\ PrintLine(Line(next, NoText))
        /\ next' = next + 1
        /\ words' = Fizz(next) \o Buzz(next)
        /\ UNCHANGED <<section, taskDone>>
     \/ /\ next > LastNumber
        /\ taskDone' = TRUE
        /\ TaskWaits
        /\ UNCHANGED <<next, words, printed>>
  /\ UNCHANGED <<TaskPart, objects, wakers>>

\* StreamIoStream: an item and an error pre-wake, the end does not.  An error and
\* the end drop the Stream.  On an error the task returns.
TaskReadsStream ==
  /\ StreamPolled /\ program = "wrapped"
  /\ \/ /\ stream = "item"
        /\ stream' = "pending"
        /\ words' = Fizz(next) \o Buzz(next)
        /\ next' = next + 1
        /\ Wakes({"task"})
        /\ UNCHANGED <<registered, section, taskDone>>
     \/ /\ stream = "error"
        /\ taskDone' = TRUE
        /\ TaskWaits
        /\ Wakes({"task"})
        /\ UNCHANGED <<registered, stream, words, next>>
     \/ /\ stream = "end"
        /\ stream' = "closed"
        /\ Again
        /\ UNCHANGED <<wakers, words, next, taskDone>>
     \/ /\ stream = "pending"
        /\ RingAndSet({}, {StreamWaker})
        /\ TaskWaits
        /\ UNCHANGED <<stream, words, next, taskDone>>
  /\ UNCHANGED <<TaskPart, exch, value, cell, connected, sink, printed>>

\* drop_read of a StreamIoStream drops the Stream, and the waker with it.
DropStream ==
  /\ stream' = "closed"
  /\ registered' = registered \ {StreamWaker}
  /\ UNCHANGED <<external, raced, woken, told>>

\* SinkIoSink: poll_ready, then start_send; either may fail, the latter with the
\* item taken.  The task then gives up its source and returns.
TaskSendsWrapped ==
  /\ SinkPolled /\ program = "wrapped" /\ words # <<>>
  /\ \/ /\ sink = "room"
        /\ sink' = "pending"
        /\ PrintLine(Line(0, Head(words)))
        /\ words' = Tail(words)
        /\ UNCHANGED <<stream, wakers, section, taskDone>>
     \/ /\ sink \in {"not ready", "refuses"}
        /\ taskDone' = TRUE
        /\ words' = IF sink = "refuses" THEN Tail(words) ELSE words
        /\ DropStream
        /\ TaskWaits
        /\ UNCHANGED <<sink, printed>>
     \/ /\ sink = "pending"
        /\ RingAndSet({}, {SinkWaker})
        /\ TaskWaits
        /\ UNCHANGED <<stream, sink, words, taskDone, printed>>
  /\ UNCHANGED <<TaskPart, exch, value, cell, connected, next>>

\* prod_poll_close of a SinkIoSink asks the Sink, which has nothing left to do
\* when it is ready.  The task then returns.
TaskCloses ==
  /\ SinkPolled /\ words = <<>>
  /\ \/ /\ sink # "pending"
        /\ taskDone' = TRUE
        /\ TaskWaits
        /\ UNCHANGED wakers
     \/ /\ sink = "pending"
        /\ RingAndSet({}, {SinkWaker})
        /\ TaskWaits
        /\ UNCHANGED taskDone
  /\ UNCHANGED <<TaskPart, objects, words, next, printed>>

\* The minimal task registers for the next value, works and stays pending.
TaskReadsValue ==
  /\ Polling /\ program \in Valued
  /\ RingAndSet({}, {Input})
  /\ cell' = CASE value % 15 = 0 -> "FizzBuzz"
               [] value % 15 \in {3, 6, 9, 12} -> "Fizz"
               [] value % 15 \in {5, 10} -> "Buzz"
               [] OTHER -> NoText
  /\ TaskWaits
  /\ UNCHANGED <<TaskPart, exch, value, connected, outer, task, next, printed>>

TaskStep ==
  \/ TaskSends \/ TaskReads
  \/ \E x \in Sides : TaskWaitsForPort(x)
  \/ TaskSendsToSink \/ TaskReadsSource
  \/ TaskSendsWrapped \/ TaskReadsStream \/ TaskCloses
  \/ TaskReadsValue

-----------------------------------------------------------------------------
(* The machine: lock, tick, unlock.                                        *)

MachinePart == <<program, objects, task, next, printed>>

Lock(a) ==
  /\ inside = Nobody
  /\ pc[a] \in {"set", "get", "read", "send", "connect", "connectOutput", "poll"}
  /\ inside' = a
  /\ section' = IF pc[a] = "poll" THEN "tick" ELSE "user"
  /\ raced' = (raced /\ pc[a] # "poll")
  /\ UNCHANGED <<MachinePart, registered, external, woken, told, pc>>

DropGuard == section' = "tick" /\ UNCHANGED inside

\* The executor runs a parked task again.
Resume(a) ==
  /\ pc[a] = "parked" /\ a \in told
  /\ told' = told \ {a}
  /\ Goto(a, Restart(a))
  /\ UNCHANGED <<MachinePart, registered, external, raced, woken, inside, section>>

TickPoll ==
  /\ section = "tick" /\ woken /\ ~taskDone
  /\ woken' = FALSE
  /\ section' = "poll"
  /\ UNCHANGED <<MachinePart, registered, external, raced, told, inside, pc>>

\* Nothing is left to do: the flag goes down and the mutex is free.  The end of
\* the machine is told to the external waker; external_poll answers Ready at the
\* end and has yet to register its caller otherwise.
TickEnd ==
  /\ section = "tick" /\ (woken => taskDone)
  /\ woken' = FALSE
  /\ inside' = Nobody /\ section' = "out"
  /\ external' = (external /\ ~taskDone)
  /\ told' = IF taskDone /\ external THEN told \cup {"main"} ELSE told
  /\ IF pc[inside] = "poll"
     THEN Goto(inside, IF taskDone THEN "done" ELSE "register")
     ELSE UNCHANGED pc
  /\ UNCHANGED <<MachinePart, registered, raced>>

\* external_poll registers its waker, and its task is parked.
ExtRegister ==
  /\ pc["main"] = "register"
  /\ external' = TRUE
  /\ Goto("main", "parked")
  /\ UNCHANGED <<MachinePart, registered, raced, woken, told, inside, section>>

-----------------------------------------------------------------------------
(* The threads outside.                                                    *)

InSection(a, label) == inside = a /\ section = "user" /\ pc[a] = label

\* minimal: two critical sections per number, one to set it, one to look.
SetInput ==
  /\ InSection("main", "set") /\ program = "minimal"
  /\ value' = next
  /\ Ring({Input})
  /\ DropGuard /\ Goto("main", "get")
  /\ UNCHANGED <<program, exch, cell, connected, outer, task, next, printed>>
\* by_mut: as_mut wakes the consumer first, and the value changes afterwards,
\* still before the guard is dropped.
AsMut ==
  /\ InSection("main", "set") /\ program = "by_mut"
  /\ Ring({Input})
  /\ Goto("main", "write")
  /\ UNCHANGED <<program, objects, task, inside, section, next, printed>>
WriteInput ==
  /\ InSection("main", "write")
  /\ value' = next
  /\ DropGuard /\ Goto("main", "get")
  /\ UNCHANGED <<program, exch, cell, connected, outer, task, wakers, next, printed>>
GetOutput ==
  /\ InSection("main", "get")
  /\ PrintLine(Line(next, cell))
  /\ next' = next + 1
  /\ DropGuard /\ Goto("main", IF next = LastNumber THEN "done" ELSE "set")
  /\ UNCHANGED <<program, objects, task, wakers>>

\* Seeded fault: the tasks that wait for the connection are not woken.
ConnectSilent(x, here, then) ==
  /\ InSection("main", here)
  /\ connected' = connected \cup {x}
  /\ UNCHANGED wakers
  /\ DropGuard /\ Goto("main", then)
  /\ UNCHANGED <<program, exch, value, cell, outer, task, next, printed>>

\* io: each connect is a critical section of its own.
Connect(x, here, then) ==
  /\ InSection("main", here)
  /\ connected' = connected \cup {x}
  /\ Ring({Port(x)})
  /\ DropGuard /\ Goto("main", then)
  /\ UNCHANGED <<program, exch, value, cell, outer, task, next, printed>>

OutsidePart == <<program, value, cell, connected, outer, task>>

\* sans_io and split: the words that come out are printed.
DriverPrints(a) ==
  /\ InSection(a, "read")
  /\ TakeItem("output", a)
  /\ PrintLine(Line(0, exch["output"].item))
  /\ DropGuard
  /\ UNCHANGED <<OutsidePart, pc, next>>
\* No word is there: main goes on to feed the machine in the same section, the
\* printer waits.
DriverFindsNone(a) ==
  /\ InSection(a, "read")
  /\ ReadPending("output")
  /\ IF a = "main"
     THEN Goto(a, "send") /\ UNCHANGED <<inside, section>>
     ELSE Goto(a, "parked") /\ DropGuard
  /\ UNCHANGED <<OutsidePart, next, printed>>
DriverFeeds(a) ==
  /\ InSection(a, "send") /\ next <= LastNumber
  /\ SendItem("input", next)
  /\ IF a = "main" THEN PrintLine(Line(next, NoText)) ELSE UNCHANGED printed
  /\ next' = next + 1
  /\ DropGuard /\ Goto(a, Entry(a))
  /\ UNCHANGED OutsidePart
DriverWaits(a) ==
  /\ InSection(a, "send") /\ next <= LastNumber
  /\ SendPending("input")
  /\ DropGuard /\ Goto(a, "parked")
  /\ UNCHANGED <<OutsidePart, next, printed>>
DriverStops(a) ==
  /\ InSection(a, "send") /\ next > LastNumber
  /\ DropGuard /\ Goto(a, "done")
  /\ UNCHANGED <<OutsidePart, exch, wakers, next, printed>>

\* The Stream and the Sink go on in their own time, and wake whom they know.
StreamMoves ==
  /\ program = "wrapped" /\ stream = "pending"
  /\ stream' \in {IF next <= LastNumber THEN "item" ELSE "end", "error"}
  /\ Ring({StreamWaker})
  /\ UNCHANGED <<TaskPart, section, exch, value, cell, connected, sink, task,
                 next, printed>>
SinkMoves ==
  /\ program = "wrapped" /\ sink = "pending"
  /\ sink' \in {"room", "not ready", "refuses"}
  /\ Ring({SinkWaker})
  /\ UNCHANGED <<TaskPart, section, exch, value, cell, connected, stream, task,
                 next, printed>>

Outside ==
  \/ SetInput \/ AsMut \/ WriteInput \/ GetOutput
  \/ Connect("input", "connect", "connectOutput")
  \/ Connect("output", "connectOutput", "poll")
  \/ \E a \in Actors :
       \/ DriverPrints(a) \/ DriverFindsNone(a)
       \/ DriverFeeds(a) \/ DriverWaits(a) \/ DriverStops(a)

Next ==
  \/ TaskStep
  \/ TickPoll \/ TickEnd \/ ExtRegister
  \/ Outside
  \/ StreamMoves \/ SinkMoves
  \/ \E a \in Actors : Lock(a) \/ Resume(a)

Spec == Init /\ [][Next]_vars

-----------------------------------------------------------------------------
(* What the programs print.                                                *)

WordLines(n) ==
  LET ws == Fizz(n) \o Buzz(n) IN [i \in DOMAIN ws |-> Line(0, ws[i])]
JoinedWords(n) ==
  CASE n % 3 = 0 /\ n % 5 = 0 -> "FizzBuzz"
    [] n % 3 = 0 /\ n % 5 # 0 -> "Fizz"
    [] n % 3 # 0 /\ n % 5 = 0 -> "Buzz"
    [] OTHER -> NoText

Expected ==
  CASE program \in Valued -> [n \in 1..LastNumber |-> Line(n, JoinedWords(n))]
    [] program \in {"split", "wrapped"} ->
         FlattenSeq([n \in 1..LastNumber |-> WordLines(n)])
    [] OTHER -> FlattenSeq([n \in 1..LastNumber |-> <<Line(n, NoText)>> \o WordLines(n)])

Failed == stream = "error" \/ sink \in {"not ready", "refuses"}

\* The threads outside are through; the printer of split waits for more.
Ended == pc["main"] = "done" /\ pc["feeder"] = "done" /\ inside = Nobody

\* Whoever leaves a critical section leaves the machine with everything done
\* that it can do: each number is followed by its own words, the value read back
\* in the next section is that of the last input, and the one-loop driver, which
\* stops at the first empty read after its last number, has missed no word.
InOrder ==
  /\ IsPrefix(printed, Expected)
  /\ Ended /\ program # "split" /\ ~Failed => printed = Expected

-----------------------------------------------------------------------------
(* Liveness.                                                               *)

\* Threads and the task go on with what they have begun, the mutex is granted to
\* each thread again and again, a task that was told is run, and the Stream and
\* the Sink get ready some time.
FairSpec ==
  /\ Spec
  /\ WF_vars(TaskStep) /\ WF_vars(TickPoll \/ TickEnd) /\ WF_vars(Outside)
  /\ WF_vars(ExtRegister) /\ WF_vars(StreamMoves) /\ WF_vars(SinkMoves)
  /\ \A a \in Actors : SF_vars(Lock(a)) /\ WF_vars(Resume(a))

\* Every program comes to its end with everything printed, unless its Stream or
\* Sink failed: no wake-up is missing between the task, the objects and the
\* loops, but for a notification in the window of external_poll.
EverythingPrinted ==
  []~raced => <>(Ended /\ (printed = Expected \/ Failed))
=============================================================================
