------------------------------ MODULE TokioPipe ------------------------------
(***************************************************************************)
(* A task that copies an AsyncRead to an AsyncWrite through the adapters   *)
(* of src/tokio_reader_writer.rs and the buffer pool of                    *)
(* src/buf_provider.rs.  A buffer is an allocation of Size bytes; the pool *)
(* keeps a handle on the last Count of them, the reader one on the buffer  *)
(* it fills, and every chunk it returned one on the buffer it lies in, so  *)
(* that memory is shared as it is in the code.  The source, the sink and   *)
(* the task are external.  Each call is one step.                          *)
(***************************************************************************)
EXTENDS Naturals, SequencesExt, IoError

CONSTANTS
  Count,     \* CyclicBufProvider's COUNT
  Size,      \* the capacity of the buffers that f_alloc makes
  Limits,    \* the values of max_len
  MaxUsize,  \* usize::MAX
  OverflowChecks,  \* the build checks for overflow
  FailKinds,   \* kinds of the errors of the system that the source may fail with
  FailErrors,  \* errors of another adapter of the crate that it may pass on
  MaxBytes,  \* bound on the bytes of the source
  MaxHeld    \* the chunks the task holds before it reads again

ASSUME PipeAssumption ==
  /\ Count \in Nat \ {0} /\ Size \in Nat \ {0}
  /\ MaxUsize \in Nat /\ Limits \subseteq 0..MaxUsize
  /\ FailErrors \subseteq IoErrors /\ {"open", "eof"} \cap FailKinds = {}
  /\ MaxBytes \in Nat /\ MaxHeld \in Nat \ {0}

\* An allocation for every handle, the one that poll_get_buf replaces included.
Allocs == 1..(Count + MaxHeld + 2)
NoAlloc == 0

\* How the source stands, beside the errors it may have ended with.
Open == [kind |-> "open", boxed |-> NoBox]
Eof == [kind |-> "eof", boxed |-> NoBox]

Failures ==
  {[kind |-> k, boxed |-> NoBox] : k \in FailKinds} \cup {ToError(err) : err \in FailErrors}

\* What the reader makes of the end of the source.
Passed(end) == IF end = Eof THEN "eof" ELSE FromError(end)

VARIABLES
  open,      \* ReaderIoReaderInner::reader is there
  cur,       \* cur_buf: its allocation, where it starts, its len and capacity
  capacity,  \* buf_capacity
  gotEof,    \* got_eof: "none", "eof" or an IoError
  bufs,      \* CyclicBufProvider::bufs, NoAlloc where sizes is 0
  nextIdx,   \* next_idx
  heap,      \* what is in the allocations; the source numbers its bytes from 1
  produced,  \* bytes that the source gave
  srcEnd,    \* Open, Eof or the error that the source ended with
  srcWaker,  \* the source holds the task's waker
  last,      \* what the task's last read was answered
  woken,     \* the task was woken since its last read began
  held,      \* chunks that the task has read and not written out
  out,       \* bytes that the sink accepted
  flushed,   \* how many of them it has passed on
  shut,      \* the sink is shut down
  \* History variables: no guard reads them.
  told,      \* how the task was told that the source ended
  dropped    \* the task called drop_read

reader == <<open, cur, capacity, gotEof>>
pool == <<bufs, nextIdx>>
source == <<produced, srcEnd, srcWaker>>
task == <<last, woken, held, told>>
sink == <<out, flushed, shut>>
vars == <<reader, pool, heap, source, task, sink, dropped>>

Init ==
  /\ open = TRUE /\ gotEof = "none"
  /\ cur = [mem |-> NoAlloc, off |-> 0, len |-> 0, cap |-> 0] /\ capacity = 0
  /\ bufs = [i \in 0..(Count - 1) |-> NoAlloc] /\ nextIdx = 0
  /\ heap = [a \in Allocs |-> [i \in 0..(Size - 1) |-> 0]]
  /\ produced = 0 /\ srcEnd = Open /\ srcWaker = FALSE
  /\ last = "none" /\ woken = TRUE /\ held = <<>> /\ told = "none"
  /\ out = <<>> /\ flushed = 0 /\ shut = FALSE /\ dropped = FALSE

Content(chunk) == [i \in 1..chunk.len |-> heap[chunk.mem][chunk.off + i - 1]]

-----------------------------------------------------------------------------
(* The pool.                                                               *)

InUse == {cur.mem} \cup {held[i].mem : i \in DOMAIN held}
Live == InUse \cup {bufs[i] : i \in DOMAIN bufs}

Fresh == CHOOSE a \in Allocs : a \notin Live

\* Seeded fault: the buffer is taken back from whoever still reads it.
NextBufStolen == IF bufs[nextIdx] # NoAlloc THEN bufs[nextIdx] ELSE Fresh

\* try_reclaim: nobody else holds the least recently returned buffer.
Recyclable == bufs[nextIdx] # NoAlloc /\ bufs[nextIdx] \notin InUse

\* poll_get_buf: that buffer, or a new one.
NextBuf == IF Recyclable THEN bufs[nextIdx] ELSE Fresh

GetBuf ==
  /\ bufs' = [bufs EXCEPT ![nextIdx] = NextBuf]
  /\ nextIdx' = (nextIdx + 1) % Count

-----------------------------------------------------------------------------
(* con_poll_read.                                                          *)

\* Nothing is buffered: Pending, or the end, once; an error is consumed and so
\* wakes the caller in advance.
AnswerEmpty(eof) ==
  \/ /\ eof = "none"
     /\ last' = "pending" /\ woken' = FALSE
     /\ UNCHANGED <<open, gotEof, told>>
  \/ /\ eof # "none"
     /\ open' = FALSE /\ gotEof' = "none"
     /\ told' = eof
     /\ last' = (IF eof = "eof" THEN "end" ELSE "error") /\ woken' = (eof # "eof")

\* Seeded fault: the caller is not woken in advance.
TakeSilent(c, max) ==
  LET n == IF max < c.len THEN max ELSE c.len IN
    /\ held' = Append(held, [mem |-> c.mem, off |-> c.off, len |-> n])
    /\ cur' = [c EXCEPT !.off = @ + n, !.len = @ - n, !.cap = @ - n]
    /\ last' = "data" /\ woken' = FALSE

\* split_to: the chunk and the rest of the buffer share the allocation.
Take(c, max) ==
  LET n == IF max < c.len THEN max ELSE c.len IN
    /\ held' = Append(held, [mem |-> c.mem, off |-> c.off, len |-> n])
    /\ cur' = [c EXCEPT !.off = @ + n, !.len = @ - n, !.cap = @ - n]
    /\ last' = "data" /\ woken' = TRUE

\* Seeded fault: the end is passed on as soon as it is known.
AnswerEndFirst(c, eof, max) ==
  \/ /\ c.len = 0 \/ eof # "none"
     /\ cur' = c /\ AnswerEmpty(eof) /\ UNCHANGED held
  \/ /\ c.len > 0 /\ eof = "none" /\ UNCHANGED <<open, gotEof, told>>
     /\ \/ max > 0 /\ Take(c, max)
        \/ /\ max = 0
           /\ cur' = c /\ last' = "probe" /\ woken' = FALSE /\ UNCHANGED held

\* The second half of con_poll_read, on what its first half left.
Answer(c, eof, max) ==
  \/ c.len = 0 /\ cur' = c /\ AnswerEmpty(eof) /\ UNCHANGED held
  \/ /\ c.len > 0 /\ gotEof' = eof /\ UNCHANGED <<open, told>>
     /\ \/ max > 0 /\ Take(c, max)
        \/ /\ max = 0
           /\ cur' = c /\ last' = "probe" /\ woken' = FALSE /\ UNCHANGED held

\* poll_read_buf into the free part of c, and the answer.
ReadInto(c, max) ==
  \/ \E n \in 1..(c.cap - c.len) :
       LET end == c.off + c.len IN
       /\ produced + n <= MaxBytes /\ produced' = produced + n
       /\ heap' = [heap EXCEPT ![c.mem] = [i \in 0..(Size - 1) |->
                     IF i \in end..(end + n - 1) THEN produced + i - end + 1 ELSE @[i]]]
       /\ Answer([c EXCEPT !.len = @ + n], "none", max)
       /\ UNCHANGED <<srcEnd, srcWaker>>
  \/ /\ srcWaker' = TRUE
     /\ Answer(c, "none", max)
     /\ UNCHANGED <<heap, produced, srcEnd>>
  \/ \E end \in {Eof} \cup Failures :
       /\ srcEnd' = end
       /\ Answer(c, Passed(end), max)
       /\ UNCHANGED <<heap, produced, srcWaker>>

Space == cur.cap - cur.len
Roomy == Space > 0 /\ Space > capacity \div 4
Half == capacity \div 2

\* The block that would be returned crosses the middle of the buffer, as long
\* as the sum does not overflow.
Crosses(max) == cur.cap > Half /\ cur.cap <= (Half + max) % (MaxUsize + 1)
Overflows(max) ==
  gotEof = "none" /\ Roomy /\ cur.len # 0 /\ cur.cap > Half /\ Half + max > MaxUsize

ReadAugment(max) ==
  /\ gotEof = "none" /\ Roomy
  /\ cur.len = 0 \/ Crosses(max)
  /\ ReadInto(cur, max)
  /\ UNCHANGED <<capacity, pool>>

\* Seeded fault: the new buffer is left to the next poll to be read into.
ReadRenewLater(max) ==
  /\ gotEof = "none" /\ ~Roomy /\ cur.len = 0
  /\ GetBuf
  /\ capacity' = Size
  /\ Answer([mem |-> NextBuf, off |-> 0, len |-> 0, cap |-> Size], "none", max)
  /\ UNCHANGED <<heap, source>>

ReadRenew(max) ==
  /\ gotEof = "none" /\ ~Roomy /\ cur.len = 0
  /\ GetBuf
  /\ capacity' = Size
  /\ ReadInto([mem |-> NextBuf, off |-> 0, len |-> 0, cap |-> Size], max)

ReadBuffered(max) ==
  /\ gotEof # "none" \/ (cur.len # 0 /\ ~(Roomy /\ Crosses(max)))
  /\ Answer(cur, gotEof, max)
  /\ UNCHANGED <<capacity, pool, heap, source>>

\* The sum half_buf + max_len panics in a build that checks it.
ReadPanics(max) ==
  /\ Overflows(max)
  /\ last' = "panic" /\ woken' = FALSE
  /\ UNCHANGED <<reader, pool, heap, source, held, told>>

\* The reader is gone: the end, again and again.
ReadOver ==
  /\ last' = "end" /\ woken' = FALSE
  /\ UNCHANGED <<reader, pool, heap, source, held, told>>

\* The provider has no buffer yet.  It has no Context to register a waker from.
ReadStarved ==
  /\ gotEof = "none" /\ ~Roomy /\ cur.len = 0
  /\ last' = "starved" /\ woken' = FALSE
  /\ UNCHANGED <<reader, pool, heap, source, held, told>>

\* f_alloc made a buffer of no capacity: an error, but not the source's, that
\* leaves the reader as it was.
ReadNoMemory ==
  /\ gotEof = "none" /\ ~Roomy /\ cur.len = 0 /\ ~Recyclable
  /\ bufs' = [bufs EXCEPT ![nextIdx] = NoAlloc]
  /\ nextIdx' = (nextIdx + 1) % Count
  /\ last' = "no memory" /\ woken' = FALSE
  /\ UNCHANGED <<reader, heap, source, held, told>>

Read(max) ==
  /\ Len(held) < MaxHeld /\ last # "panic"
  /\ \/ ~open /\ ReadOver
     \/ open /\ OverflowChecks /\ ReadPanics(max)
     \/ /\ open /\ ~(OverflowChecks /\ Overflows(max))
        /\ \/ ReadAugment(max) \/ ReadRenew(max) \/ ReadBuffered(max)
           \/ ReadStarved \/ ReadNoMemory
  /\ UNCHANGED <<sink, dropped>>

DropRead ==
  /\ open
  /\ open' = FALSE /\ gotEof' = "none" /\ dropped' = TRUE
  /\ last' = "none" /\ woken' = FALSE
  /\ UNCHANGED <<cur, capacity, pool, heap, source, held, told, sink>>

-----------------------------------------------------------------------------
(* The source, and the task's calls of WriterIoWriter.                     *)

\* The source calls the waker it was given.
SourceWakes ==
  /\ srcWaker /\ srcWaker' = FALSE
  /\ woken' = TRUE
  /\ UNCHANGED <<reader, pool, heap, produced, srcEnd, last, held, told, sink, dropped>>

\* WriterIoWriter::prod_poll_write: the sink accepts n bytes of the first
\* chunk.  Pending, an error and an empty write leave the chunk as it is.
Write(n) ==
  /\ held # <<>>
  /\ LET chunk == Head(held) IN
       /\ n \in 1..chunk.len
       /\ out' = out \o SubSeq(Content(chunk), 1, n)
       /\ held' = (IF n = chunk.len THEN <<>>
                   ELSE <<[chunk EXCEPT !.off = @ + n, !.len = @ - n]>>) \o Tail(held)
  /\ UNCHANGED <<reader, pool, heap, source, last, woken, told, flushed, shut, dropped>>

\* prod_poll_flush, as often as the task likes, and prod_poll_close once it has
\* written the last chunk: both forward to the sink.  Pending and an error leave
\* everything as it is.
Flush ==
  /\ held = <<>> /\ flushed # Len(out)
  /\ flushed' = Len(out)
  /\ UNCHANGED <<reader, pool, heap, source, task, out, shut, dropped>>
Close ==
  /\ held = <<>> /\ ~open /\ ~shut
  /\ shut' = TRUE /\ flushed' = Len(out)
  /\ UNCHANGED <<reader, pool, heap, source, task, out, dropped>>

Next ==
  \/ \E max \in Limits : Read(max)
  \/ DropRead
  \/ SourceWakes
  \/ \E n \in 1..Size : Write(n)
  \/ Flush \/ Close

Spec == Init /\ [][Next]_vars

-----------------------------------------------------------------------------

\* Whatever is recycled, split and partly written: what the sink got, then
\* what the task holds, then what is buffered are the bytes of the source, in
\* order, none missing and none overwritten.  A task that closes the sink at the
\* end has sent on all of them.
NothingLost ==
  /\ out \o FlattenSeq([i \in DOMAIN held |-> Content(held[i])]) \o Content(cur)
       = [i \in 1..produced |-> i]
  /\ shut => flushed = produced \/ dropped

\* The end of the source is passed on as what it was, an error as the error,
\* and only after everything that was read before it; and no end is made up.
EndTruthful ==
  /\ told # "none" =>
       /\ cur.len = 0
       /\ srcEnd # Open /\ told = Passed(srcEnd)
  /\ last \in {"end", "error"} => told # "none" \/ dropped

\* A task that was answered Pending is registered with the source, or woken,
\* unless it was the provider that had nothing to give.
Registered == last = "pending" => srcWaker \/ woken

\* An error that one adapter reports reaches the end of a chain of adapters as
\* it is, though its kind may stand for others.
ErrorSurvives == told \in IoErrors =>
  /\ FromError(ToError(told)) = told
  /\ srcEnd.boxed # NoBox => told = srcEnd.boxed

\* con_poll_read answers any limit.  A build with overflow checks does not.
AnyLimitAnswered == last # "panic"

\* The task reads on when it is woken, and after a probe, writes out what it
\* holds and closes the sink in the end.
FairSpec ==
  /\ Spec
  /\ WF_vars((woken \/ last = "probe") /\ \E max \in Limits \ {0} : Read(max))
  /\ WF_vars(\E n \in 1..Size : Write(n)) /\ WF_vars(Close)

\* Whatever the source gave reaches the sink, and its end the task and the sink,
\* unless the task leaves: being woken in advance is enough to drain the buffer.
PipeDrains ==
  /\ \A n \in 1..MaxBytes : produced >= n ~> Len(out) >= n \/ dropped
  /\ srcEnd # Open ~> (told # "none" /\ shut) \/ dropped
=============================================================================
