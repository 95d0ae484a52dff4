--------------------------- MODULE IoBytesExchange ---------------------------
(***************************************************************************)
(* The byte channel of src/io_bytes_exchange.rs between one writer task    *)
(* and one reader task: a slot for one chunk, which a write fills whole    *)
(* and reads empty piece by piece.  Like IoExchange it is not Sync: every  *)
(* call runs alone, so a call is one step and its compare-exchanges do not *)
(* fail.  A task may poll again without having been woken, and drop a      *)
(* pending operation for another one.                                      *)
(***************************************************************************)
EXTENDS Naturals, Sequences

CONSTANTS
  MaxBytes,   \* bound on the bytes the writer sends
  MaxResets   \* bound on the calls of reset

ASSUME BoundsAssumption == MaxBytes \in Nat /\ MaxResets \in Nat

Empties == {"EMPTY", "EMPTY_FLUSH", "EMPTY_FLUSHED"}
Fulls == {"FULL", "FULL_FLUSH", "FULL_CLOSED"}
States == Empties \cup Fulls \cup {"DONE", "DROPPED"}

VARIABLES
  state,   \* IoBytesExchange::state
  data,    \* IoBytesExchange::data; the bytes are numbered as they are sent
  reader,  \* a waker is registered for the reader
  writer,  \* a waker is registered for the writer
  rWait,   \* the reader's task counts on being woken: its last poll returned
           \* Pending, or bytes, after which it is woken in advance
  rWoken,  \* the reader's task was woken since its last poll began
  wWait,   \* the writer's operation whose last poll returned Pending, or "none"
  wWoken,  \* the writer's task was woken since its last poll began
  sent,    \* bytes accepted so far
  taken,   \* bytes returned to the reader, in order
  \* History variables: no guard reads them, but for the bound on the resets.
  acked,      \* the reader found the slot empty since the last write or reset
  confirmed,  \* bytes sent when a flush or a close last returned Ok
  closed,     \* the writer asked to close since the last reset
  ended,      \* the reader was told of the end since the last reset
  resets

slots == <<reader, writer>>
readerTask == <<rWait, rWoken>>
writerTask == <<wWait, wWoken>>
history == <<acked, confirmed, closed, ended, resets>>
vars == <<state, data, slots, readerTask, writerTask, sent, taken, history>>

TypeOK ==
  /\ state \in States
  /\ data \in Seq(1..MaxBytes)
  /\ reader \in BOOLEAN /\ writer \in BOOLEAN
  /\ rWait \in BOOLEAN /\ rWoken \in BOOLEAN /\ wWoken \in BOOLEAN
  /\ wWait \in {"none", "write", "flush", "close"}
  /\ sent \in 0..MaxBytes
  /\ taken \in Seq(1..MaxBytes)
  /\ confirmed \in 0..MaxBytes
  /\ acked \in BOOLEAN /\ closed \in BOOLEAN /\ ended \in BOOLEAN
  /\ resets \in 0..MaxResets

Init ==
  /\ state = "EMPTY" /\ data = <<>>
  /\ reader = FALSE /\ writer = FALSE
  /\ rWait = FALSE /\ rWoken = FALSE
  /\ wWait = "none" /\ wWoken = FALSE
  /\ sent = 0 /\ taken = <<>>
  /\ confirmed = 0 /\ resets = 0
  /\ acked = FALSE /\ closed = FALSE /\ ended = FALSE

\* WakerRef::wake by the other side.
WakeReader == reader' = FALSE /\ rWoken' = (rWoken \/ reader)
WakeWriter == writer' = FALSE /\ wWoken' = (wWoken \/ writer)

-----------------------------------------------------------------------------
(* The reader: con_poll_read and drop_read.                                *)

\* Seeded fault: the acknowledgement does not register the reader.
ReadPendingUnregistered ==
  /\ state \in Empties
  /\ state' = "EMPTY_FLUSHED"
  /\ rWait' = TRUE /\ rWoken' = FALSE
  /\ IF state = "EMPTY_FLUSHED"
     THEN reader' = TRUE /\ UNCHANGED <<writer, wWoken>>
     ELSE WakeWriter /\ UNCHANGED reader
  /\ acked' = TRUE
  /\ UNCHANGED <<data, wWait, sent, taken, confirmed, closed, ended, resets>>

\* An empty slot: the reader registers and acknowledges that it saw it.
ReadPending ==
  /\ state \in Empties
  /\ state' = "EMPTY_FLUSHED"
  /\ reader' = TRUE
  /\ rWait' = TRUE /\ rWoken' = FALSE
  /\ IF state = "EMPTY_FLUSHED" THEN UNCHANGED <<writer, wWoken>> ELSE WakeWriter
  /\ acked' = TRUE
  /\ UNCHANGED <<data, wWait, sent, taken, confirmed, closed, ended, resets>>

\* A read of no bytes only tells that the stream is alive: the caller is not
\* woken in advance.
ReadProbe ==
  /\ state \in Fulls
  /\ rWait' = FALSE /\ rWoken' = FALSE
  /\ UNCHANGED <<state, data, slots, writerTask, sent, taken, history>>

AfterTake ==
  CASE state = "FULL" -> "EMPTY"
    [] state = "FULL_FLUSH" -> "EMPTY_FLUSH"
    [] state = "FULL_CLOSED" -> "DONE"

\* Seeded fault: a partial read releases the slot.
ReadBytesReleases(max) ==
  /\ state \in Fulls
  /\ LET n == IF Len(data) > max THEN max ELSE Len(data) IN
       /\ taken' = taken \o SubSeq(data, 1, n)
       /\ data' = SubSeq(data, n + 1, Len(data))
  /\ state' = AfterTake
  /\ WakeWriter
  /\ rWait' = TRUE /\ rWoken' = TRUE
  /\ UNCHANGED <<reader, wWait, sent, history>>

\* Seeded fault: the caller is not woken in advance.
ReadBytesUnwoken(max) ==
  /\ state \in Fulls
  /\ LET n == IF Len(data) > max THEN max ELSE Len(data) IN
       /\ taken' = taken \o SubSeq(data, 1, n)
       /\ data' = SubSeq(data, n + 1, Len(data))
  /\ state' = IF Len(data) > max THEN state ELSE AfterTake
  /\ WakeWriter
  /\ rWait' = TRUE /\ rWoken' = FALSE
  /\ UNCHANGED <<reader, wWait, sent, history>>

\* Up to max bytes are consumed; the last of them frees the slot.  The caller
\* is woken in advance to read on, and the writer whatever is left.
ReadBytes(max) ==
  /\ state \in Fulls
  /\ LET n == IF Len(data) > max THEN max ELSE Len(data) IN
       /\ taken' = taken \o SubSeq(data, 1, n)
       /\ data' = SubSeq(data, n + 1, Len(data))
  /\ state' = IF Len(data) > max THEN state ELSE AfterTake
  /\ WakeWriter
  /\ rWait' = TRUE /\ rWoken' = TRUE
  /\ UNCHANGED <<reader, wWait, sent, history>>

\* The end of the stream, also for a reader that has left.
ReadOver ==
  /\ state \in {"DONE", "DROPPED"}
  /\ rWait' = FALSE /\ rWoken' = FALSE
  /\ ended' = TRUE
  /\ UNCHANGED <<state, data, slots, writerTask, sent, taken, acked, confirmed, closed, resets>>

\* con_poll_read(max) with max > 0; with max = 0 it is ReadPending, ReadProbe
\* or ReadOver.
Read == ReadPending \/ (\E max \in 1..MaxBytes : ReadBytes(max)) \/ ReadOver

\* The reader's task gives up.
DropRead ==
  /\ state \notin {"DROPPED", "DONE"}
  /\ state' = "DROPPED" /\ data' = <<>>
  /\ WakeWriter
  /\ rWait' = FALSE /\ rWoken' = FALSE
  /\ UNCHANGED <<reader, wWait, sent, taken, history>>

-----------------------------------------------------------------------------
(* The writer: prod_poll_write, _flush and _close.                         *)

\* The poll of an operation registers the writer and returns Pending.
Pend(what) == writer' = TRUE /\ wWait' = what /\ wWoken' = FALSE

\* The poll of an operation returns Ready.
Return == wWait' = "none" /\ wWoken' = FALSE /\ UNCHANGED writer

\* A write of no bytes is answered Ok(0) in every state.
WriteNothing ==
  /\ Return
  /\ UNCHANGED <<state, data, reader, readerTask, sent, taken, history>>

\* The whole chunk of n bytes moves into the empty slot.
Write(n) ==
  /\ state \in Empties
  /\ sent + n <= MaxBytes
  /\ state' = "FULL"
  /\ data' = [i \in 1..n |-> sent + i] /\ sent' = sent + n
  /\ WakeReader
  /\ Return
  /\ acked' = FALSE
  /\ UNCHANGED <<rWait, taken, confirmed, closed, ended, resets>>

\* The slot is taken, or the stream is over: the bytes stay with the caller.
WriteRefused ==
  /\ state \notin Empties
  /\ sent < MaxBytes
  /\ IF state \in Fulls THEN Pend("write") ELSE Return
  /\ UNCHANGED <<state, data, reader, readerTask, sent, taken, history>>

FlushWait ==
  /\ state \in {"EMPTY_FLUSH", "FULL_FLUSH", "FULL_CLOSED"}
  /\ Pend("flush")
  /\ UNCHANGED <<state, data, reader, readerTask, sent, taken, history>>

\* Seeded fault: the flush does not register its waker.
FlushRequestForgets ==
  /\ state \in {"EMPTY", "FULL"}
  /\ state' = IF state = "EMPTY" THEN "EMPTY_FLUSH" ELSE "FULL_FLUSH"
  /\ wWait' = "flush" /\ wWoken' = FALSE
  /\ WakeReader
  /\ UNCHANGED <<writer, data, rWait, sent, taken, history>>

FlushRequest ==
  /\ state \in {"EMPTY", "FULL"}
  /\ state' = IF state = "EMPTY" THEN "EMPTY_FLUSH" ELSE "FULL_FLUSH"
  /\ Pend("flush")
  /\ WakeReader
  /\ UNCHANGED <<data, rWait, sent, taken, history>>

FlushOk ==
  /\ state \in {"EMPTY_FLUSHED", "DONE", "DROPPED"}
  /\ Return
  /\ confirmed' = sent
  /\ UNCHANGED <<state, data, reader, readerTask, sent, taken, acked, closed, ended, resets>>

CloseEmpty ==
  /\ state \in Empties
  /\ state' = "DONE"
  /\ WakeReader
  /\ Return
  /\ closed' = TRUE /\ confirmed' = sent
  /\ UNCHANGED <<data, rWait, sent, taken, acked, ended, resets>>

\* The chunk in flight becomes the last one.
CloseRequest ==
  /\ state \in {"FULL", "FULL_FLUSH"}
  /\ state' = "FULL_CLOSED"
  /\ Pend("close")
  /\ WakeReader
  /\ closed' = TRUE
  /\ UNCHANGED <<data, rWait, sent, taken, acked, confirmed, ended, resets>>

CloseWait ==
  /\ state = "FULL_CLOSED"
  /\ Pend("close")
  /\ UNCHANGED <<state, data, reader, readerTask, sent, taken, history>>

CloseOk ==
  /\ state \in {"DONE", "DROPPED"}
  /\ Return
  /\ closed' = TRUE /\ confirmed' = sent
  /\ UNCHANGED <<state, data, reader, readerTask, sent, taken, acked, ended, resets>>

WriteSome == (\E n \in 1..MaxBytes : Write(n)) \/ WriteRefused
Flush == FlushWait \/ FlushRequest \/ FlushOk
Close == CloseEmpty \/ CloseRequest \/ CloseWait \/ CloseOk

-----------------------------------------------------------------------------

\* Seeded fault: the writer is not told of a reset.
ResetSilent ==
  /\ resets < MaxResets /\ resets' = resets + 1
  /\ state' = "EMPTY" /\ data' = <<>>
  /\ WakeReader
  /\ acked' = FALSE /\ closed' = FALSE /\ ended' = FALSE
  /\ UNCHANGED <<writer, wWoken, rWait, wWait, sent, taken, confirmed>>

Reset ==
  /\ resets < MaxResets /\ resets' = resets + 1
  /\ state' = "EMPTY" /\ data' = <<>>
  /\ WakeReader /\ WakeWriter
  /\ acked' = FALSE /\ closed' = FALSE /\ ended' = FALSE
  /\ UNCHANGED <<rWait, wWait, sent, taken, confirmed>>

Next ==
  \/ Read \/ ReadProbe \/ DropRead
  \/ WriteNothing \/ WriteSome \/ Flush \/ Close
  \/ Reset

Spec == Init /\ [][Next]_vars

-----------------------------------------------------------------------------
(* Safety.                                                                 *)

\* The state byte and the slot agree, also after a partial read: the "state
\* claimed FULL but slot is empty" branch of con_poll_read is dead.
SlotMatchesState == data # <<>> <=> state \in Fulls

\* A reader that was answered Pending has been woken once a poll would tell
\* it more: bytes, the end, or (after a reset) an acknowledgement to give.  One
\* that was given bytes has been woken in advance.
ReaderWoken == rWait /\ state # "EMPTY_FLUSHED" => rWoken

\* The states in which the poll of an operation has nothing to do but wait.
Blocking(what) ==
  CASE what = "write" -> Fulls
    [] what = "flush" -> {"EMPTY_FLUSH", "FULL_FLUSH", "FULL_CLOSED"}
    [] what = "close" -> {"FULL_CLOSED"}

\* A writer that was answered Pending has been woken once its operation can be
\* answered, or, its request being forgotten by a reset, has to be repeated.
WriterWoken == wWait # "none" /\ state \notin Blocking(wWait) => wWoken

\* The exchange implements the stream of bytes that IoWriter and IoReader
\* promise, whatever the sizes of the writes and of the reads: bytes leave the slot
\* for the reader, or with it, or in a reset; a flush is answered once the reader
\* has seen the slot empty.
Promise == INSTANCE ByteStream WITH
  inFlight <- data, left <- state = "DROPPED"
ImplementsByteStream == Promise!Spec

-----------------------------------------------------------------------------
(* Liveness.                                                               *)

\* The reader's task reads on, at least a byte at a time, but after a Pending and
\* after bytes only when it was woken; the writer's task polls a pending operation
\* when it is woken.
PollAgain ==
  \/ wWait = "write" /\ WriteSome
  \/ wWait = "flush" /\ Flush
  \/ wWait = "close" /\ Close
FairSpec ==
  /\ Spec
  /\ WF_vars((~rWait \/ rWoken) /\ Read)
  /\ WF_vars(wWoken /\ PollAgain)

\* A writer never waits for ever: not for room, not for an acknowledgement,
\* not for its last byte to be taken, whatever resets and drops come between.
WriterReleased == \A what \in {"write", "flush", "close"} :
  wWait = what ~> wWait # what

\* The accepted bytes do not sit in the slot for ever, not even the rest that
\* a partial read left there.
BytesLeave == data # <<>> ~> data = <<>>
=============================================================================
