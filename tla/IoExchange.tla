----------------------------- MODULE IoExchange -----------------------------
(***************************************************************************)
(* The single-slot channel of src/io_exchange.rs between one writer task   *)
(* and one reader task.  IoExchange is not Sync: every call runs alone,    *)
(* under the lock of the machine that holds the exchange, so a call is one *)
(* step and its compare-exchanges do not fail.  Between two calls anything *)
(* else may happen; a task may poll again without having been woken, and   *)
(* drop a pending operation for another one.                               *)
(***************************************************************************)
EXTENDS Naturals, Sequences

CONSTANTS
  MaxItems,   \* bound on the items the writer sends
  MaxResets   \* bound on the calls of reset

ASSUME BoundsAssumption == MaxItems \in Nat /\ MaxResets \in Nat

None == 0   \* the item slot holds no item; items are numbered from 1

Empties == {"EMPTY", "EMPTY_FLUSH", "EMPTY_FLUSHED"}
Fulls == {"FULL", "FULL_FLUSH", "FULL_CLOSED"}
States == Empties \cup Fulls \cup {"DONE", "DROPPED"}

VARIABLES
  state,   \* IoExchange::state
  item,    \* IoExchange::item
  reader,  \* a waker is registered for the reader
  writer,  \* a waker is registered for the writer
  rWait,   \* the reader's task counts on being woken: its last poll returned
           \* Pending, or an item, after which it is woken in advance
  rWoken,  \* the reader's task was woken since its last poll began
  wWait,   \* the writer's operation whose last poll returned Pending, or "none"
  wWoken,  \* the writer's task was woken since its last poll began
  sent,    \* items accepted so far
  taken,   \* items returned to the reader, in order
  \* History variables: no guard reads them, but for the bound on the resets.
  lost,       \* items discarded by drop_read and reset
  acked,      \* the reader found the slot empty since the last send or reset
  confirmed,  \* items sent when a flush or a close last returned Ok
  closed,     \* the writer asked to close since the last reset
  ended,      \* the reader was told of the end since the last reset
  resets

slots == <<reader, writer>>
readerTask == <<rWait, rWoken>>
writerTask == <<wWait, wWoken>>
history == <<lost, acked, confirmed, closed, ended, resets>>
vars == <<state, item, slots, readerTask, writerTask, sent, taken, history>>

TypeOK ==
  /\ state \in States
  /\ item \in 0..MaxItems
  /\ reader \in BOOLEAN /\ writer \in BOOLEAN
  /\ rWait \in BOOLEAN /\ rWoken \in BOOLEAN /\ wWoken \in BOOLEAN
  /\ wWait \in {"none", "ready", "send", "flush", "close"}
  /\ sent \in 0..MaxItems
  /\ taken \in Seq(1..MaxItems)
  /\ lost \in Nat /\ confirmed \in 0..MaxItems
  /\ acked \in BOOLEAN /\ closed \in BOOLEAN /\ ended \in BOOLEAN
  /\ resets \in 0..MaxResets

Init ==
  /\ state = "EMPTY" /\ item = None
  /\ reader = FALSE /\ writer = FALSE
  /\ rWait = FALSE /\ rWoken = FALSE
  /\ wWait = "none" /\ wWoken = FALSE
  /\ sent = 0 /\ taken = <<>>
  /\ lost = 0 /\ confirmed = 0 /\ resets = 0
  /\ acked = FALSE /\ closed = FALSE /\ ended = FALSE

\* WakerRef::wake by the other side.
WakeReader == reader' = FALSE /\ rWoken' = (rWoken \/ reader)
WakeWriter == writer' = FALSE /\ wWoken' = (wWoken \/ writer)

\* The slot loses its item without handing it over.
Discard ==
  /\ item' = None
  /\ lost' = IF item = None THEN lost ELSE lost + 1

-----------------------------------------------------------------------------
(* The reader: con_poll_read and drop_read.                                *)

\* Seeded fault: the acknowledgement does not wake the writer.
ReadPendingSilent ==
  /\ state \in Empties
  /\ state' = "EMPTY_FLUSHED"
  /\ reader' = TRUE
  /\ rWait' = TRUE /\ rWoken' = FALSE
  /\ acked' = TRUE
  /\ UNCHANGED <<writer, wWoken, item, wWait, sent, taken, lost, confirmed, closed, ended, resets>>

\* An empty slot: the reader registers and acknowledges that it saw it.
ReadPending ==
  /\ state \in Empties
  /\ state' = "EMPTY_FLUSHED"
  /\ reader' = TRUE
  /\ rWait' = TRUE /\ rWoken' = FALSE
  /\ IF state = "EMPTY_FLUSHED" THEN UNCHANGED <<writer, wWoken>> ELSE WakeWriter
  /\ acked' = TRUE
  /\ UNCHANGED <<item, wWait, sent, taken, lost, confirmed, closed, ended, resets>>

AfterTake ==
  CASE state = "FULL" -> "EMPTY"
    [] state = "FULL_FLUSH" -> "EMPTY_FLUSH"
    [] state = "FULL_CLOSED" -> "DONE"

\* Seeded fault: the caller is not woken in advance.
ReadItemUnwoken ==
  /\ state \in Fulls
  /\ state' = AfterTake
  /\ item' = None
  /\ taken' = Append(taken, item)
  /\ WakeWriter
  /\ rWait' = TRUE /\ rWoken' = FALSE
  /\ UNCHANGED <<reader, wWait, sent, history>>

\* The item is consumed and the caller is woken in advance to read on.
ReadItem ==
  /\ state \in Fulls
  /\ state' = AfterTake
  /\ item' = None
  /\ taken' = Append(taken, item)
  /\ WakeWriter
  /\ rWait' = TRUE /\ rWoken' = TRUE
  /\ UNCHANGED <<reader, wWait, sent, history>>

\* End of the stream, or the error that the reader itself has left.
ReadOver ==
  /\ state \in {"DONE", "DROPPED"}
  /\ rWait' = FALSE /\ rWoken' = FALSE
  /\ ended' = (ended \/ state = "DONE")
  /\ UNCHANGED <<state, item, slots, writerTask, sent, taken, lost, acked, confirmed, closed, resets>>

Read == ReadPending \/ ReadItem \/ ReadOver

\* Seeded fault: the writer is not told.
DropReadSilent ==
  /\ state \notin {"DROPPED", "DONE"}
  /\ state' = "DROPPED"
  /\ Discard
  /\ rWait' = FALSE /\ rWoken' = FALSE
  /\ UNCHANGED <<slots, writerTask, sent, taken, acked, confirmed, closed, ended, resets>>

\* The reader's task gives up.
DropRead ==
  /\ state \notin {"DROPPED", "DONE"}
  /\ state' = "DROPPED"
  /\ Discard
  /\ WakeWriter
  /\ rWait' = FALSE /\ rWoken' = FALSE
  /\ UNCHANGED <<reader, wWait, sent, taken, acked, confirmed, closed, ended, resets>>

-----------------------------------------------------------------------------
(* The writer: prod_poll_ready, _send, _flush and _close.                  *)

\* The poll of op registers the writer and returns Pending.
Pend(what) == writer' = TRUE /\ wWait' = what /\ wWoken' = FALSE

\* The poll of an operation returns Ready.
Return == wWait' = "none" /\ wWoken' = FALSE /\ UNCHANGED writer

PollReady ==
  /\ IF state \in Fulls THEN Pend("ready") ELSE Return
  /\ UNCHANGED <<state, item, reader, readerTask, sent, taken, history>>

Send ==
  /\ state \in Empties
  /\ sent < MaxItems
  /\ state' = "FULL"
  /\ item' = sent + 1 /\ sent' = sent + 1
  /\ WakeReader
  /\ Return
  /\ acked' = FALSE
  /\ UNCHANGED <<rWait, taken, lost, confirmed, closed, ended, resets>>

\* The slot is taken, or the stream is over: the item stays with the caller.
SendRefused ==
  /\ state \notin Empties
  /\ sent < MaxItems
  /\ IF state \in Fulls THEN Pend("send") ELSE Return
  /\ UNCHANGED <<state, item, reader, readerTask, sent, taken, history>>

FlushWait ==
  /\ state \in {"EMPTY_FLUSH", "FULL_FLUSH", "FULL_CLOSED"}
  /\ Pend("flush")
  /\ UNCHANGED <<state, item, reader, readerTask, sent, taken, history>>

\* Seeded fault: a flush of the empty slot needs no acknowledgement.
FlushRequestAnswered ==
  /\ state \in {"EMPTY", "FULL"}
  /\ state' = IF state = "EMPTY" THEN "EMPTY_FLUSHED" ELSE "FULL_FLUSH"
  /\ Pend("flush")
  /\ WakeReader
  /\ UNCHANGED <<item, rWait, sent, taken, history>>

FlushRequest ==
  /\ state \in {"EMPTY", "FULL"}
  /\ state' = IF state = "EMPTY" THEN "EMPTY_FLUSH" ELSE "FULL_FLUSH"
  /\ Pend("flush")
  /\ WakeReader
  /\ UNCHANGED <<item, rWait, sent, taken, history>>

FlushOk ==
  /\ state \in {"EMPTY_FLUSHED", "DONE", "DROPPED"}
  /\ Return
  /\ confirmed' = sent
  /\ UNCHANGED <<state, item, reader, readerTask, sent, taken, lost, acked, closed, ended, resets>>

\* Seeded fault: the reader is not told of the end.
CloseEmptySilent ==
  /\ state \in Empties
  /\ state' = "DONE"
  /\ Return
  /\ closed' = TRUE /\ confirmed' = sent
  /\ UNCHANGED <<item, reader, readerTask, sent, taken, lost, acked, ended, resets>>

CloseEmpty ==
  /\ state \in Empties
  /\ state' = "DONE"
  /\ WakeReader
  /\ Return
  /\ closed' = TRUE /\ confirmed' = sent
  /\ UNCHANGED <<item, rWait, sent, taken, lost, acked, ended, resets>>

\* The item in flight becomes the last one.
CloseRequest ==
  /\ state \in {"FULL", "FULL_FLUSH"}
  /\ state' = "FULL_CLOSED"
  /\ Pend("close")
  /\ WakeReader
  /\ closed' = TRUE
  /\ UNCHANGED <<item, rWait, sent, taken, lost, acked, confirmed, ended, resets>>

CloseWait ==
  /\ state = "FULL_CLOSED"
  /\ Pend("close")
  /\ UNCHANGED <<state, item, reader, readerTask, sent, taken, history>>

CloseOk ==
  /\ state \in {"DONE", "DROPPED"}
  /\ Return
  /\ closed' = TRUE /\ confirmed' = sent
  /\ UNCHANGED <<state, item, reader, readerTask, sent, taken, lost, acked, ended, resets>>

Flush == FlushWait \/ FlushRequest \/ FlushOk
Close == CloseEmpty \/ CloseRequest \/ CloseWait \/ CloseOk

-----------------------------------------------------------------------------

Reset ==
  /\ resets < MaxResets /\ resets' = resets + 1
  /\ state' = "EMPTY"
  /\ Discard
  /\ WakeReader /\ WakeWriter
  /\ acked' = FALSE /\ closed' = FALSE /\ ended' = FALSE
  /\ UNCHANGED <<rWait, wWait, sent, taken, confirmed>>

Next ==
  \/ Read \/ DropRead
  \/ PollReady \/ Send \/ SendRefused \/ Flush \/ Close
  \/ Reset

Spec == Init /\ [][Next]_vars

-----------------------------------------------------------------------------
(* Safety.                                                                 *)

\* The state byte and the slot agree: the "state said FULL but the slot was
\* empty" branch of con_poll_read is dead.
SlotMatchesState == item # None <=> state \in Fulls

\* Every accepted item was handed over, was discarded, or sits in the slot.
Conserved == sent = Len(taken) + lost + (IF item = None THEN 0 ELSE 1)

\* A reader that was answered Pending has been woken once a poll would tell
\* it more: an item, the end, or (after a reset) an acknowledgement to give.  One
\* that was given an item has been woken in advance.
ReaderWoken == rWait /\ state # "EMPTY_FLUSHED" => rWoken

\* The states in which the poll of an operation has nothing to do but wait.
Blocking(what) ==
  CASE what \in {"ready", "send"} -> Fulls
    [] what = "flush" -> {"EMPTY_FLUSH", "FULL_FLUSH", "FULL_CLOSED"}
    [] what = "close" -> {"FULL_CLOSED"}

\* A writer that was answered Pending has been woken once its operation can be
\* answered, or, its request being forgotten by a reset, has to be repeated.
WriterWoken == wWait # "none" /\ state \notin Blocking(wWait) => wWoken

\* The exchange implements the channel that IoSink and IoStream promise: an item
\* leaves the slot for the reader, or with it, or in a reset; a flush is answered
\* once the reader has seen the slot empty.
Promise == INSTANCE Channel WITH
  inFlight <- IF item = None THEN <<>> ELSE <<item>>, left <- state = "DROPPED"
ImplementsChannel == Promise!Spec

-----------------------------------------------------------------------------
(* Liveness.                                                               *)

\* The reader's task reads on, but after a Pending and after an item only when
\* it was woken; the writer's task polls a pending operation when it is woken.
PollAgain ==
  \/ wWait = "ready" /\ PollReady
  \/ wWait = "send" /\ (Send \/ SendRefused)
  \/ wWait = "flush" /\ Flush
  \/ wWait = "close" /\ Close
FairSpec ==
  /\ Spec
  /\ WF_vars((~rWait \/ rWoken) /\ Read)
  /\ WF_vars(wWoken /\ PollAgain)

\* A writer never waits for ever: not for room, not for an acknowledgement,
\* not for its last item to be taken, whatever resets and drops come between.
WriterReleased == \A what \in {"ready", "send", "flush", "close"} :
  wWait = what ~> wWait # what

\* An accepted item does not sit in the slot for ever.
ItemLeaves == item # None ~> item = None
=============================================================================
