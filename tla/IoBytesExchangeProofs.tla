----------------------- MODULE IoBytesExchangeProofs -----------------------
(***************************************************************************)
(* Theorems about IoBytesExchange, for every number of bytes and of        *)
(* resets, and every size of the writes and of the reads.                  *)
(***************************************************************************)
EXTENDS IoBytesExchange, SequenceTheorems, TLAPS

USE BoundsAssumption DEF Empties, Fulls, States

-----------------------------------------------------------------------------
(* Types, and the agreement of the state byte with the slot.               *)

SlotInv == TypeOK /\ SlotMatchesState

\* What cutting n elements off the front of a sequence leaves on each side.
LEMMA Cut ==
  ASSUME NEW S, NEW s \in Seq(S), NEW n \in 1..Len(s)
  PROVE  /\ SubSeq(s, 1, n) \in Seq(S)
         /\ SubSeq(s, n + 1, Len(s)) \in Seq(S)
         /\ SubSeq(s, n + 1, Len(s)) = <<>> <=> n = Len(s)
<1>1. Len(s) \in Nat /\ n \in Int /\ n + 1 \in Int /\ 1 \in Int /\ Len(s) \in Int
  OBVIOUS
<1>2. \A i \in 1..Len(s) : s[i] \in S
  OBVIOUS
<1>3. SubSeq(s, 1, n) \in Seq(S)
  <2>1. \A i \in 1..n : s[i] \in S
    BY <1>1, <1>2
  <2> QED
    BY <1>1, <2>1, SubSeqProperties
<1>4. /\ SubSeq(s, n + 1, Len(s)) \in Seq(S)
      /\ Len(SubSeq(s, n + 1, Len(s))) = IF n + 1 <= Len(s) THEN Len(s) - (n + 1) + 1 ELSE 0
  <2>1. \A i \in (n + 1)..Len(s) : s[i] \in S
    BY <1>1, <1>2
  <2> QED
    BY <1>1, <2>1, SubSeqProperties
<1>5. SubSeq(s, n + 1, Len(s)) = <<>> <=> Len(SubSeq(s, n + 1, Len(s))) = 0
  BY <1>4, EmptySeq
<1> QED
  BY <1>1, <1>3, <1>4, <1>5

\* A read takes at least one byte and at most what there is, and frees the
\* slot exactly if it takes all of it.
LEMMA ReadCuts ==
  ASSUME SlotInv, NEW max \in 1..MaxBytes, ReadBytes(max)
  PROVE  \E n \in 1..Len(data) :
           /\ taken' = taken \o SubSeq(data, 1, n)
           /\ data' = SubSeq(data, n + 1, Len(data))
           /\ SubSeq(data, 1, n) \in Seq(1..MaxBytes)
           /\ data' \in Seq(1..MaxBytes)
           /\ data' = <<>> <=> n = Len(data)
           /\ state' = IF data' = <<>> THEN AfterTake ELSE state
<1> DEFINE n == IF Len(data) > max THEN max ELSE Len(data)
<1>1. data \in Seq(1..MaxBytes) /\ data # <<>>
  BY DEF SlotInv, TypeOK, SlotMatchesState, ReadBytes
<1>2. Len(data) \in Nat /\ Len(data) > 0
  BY <1>1, EmptySeq
<1>3. n \in 1..Len(data)
  BY <1>2
<1>4. /\ taken' = taken \o SubSeq(data, 1, n)
      /\ data' = SubSeq(data, n + 1, Len(data))
      /\ state' = IF Len(data) > max THEN state ELSE AfterTake
  BY DEF ReadBytes
<1>5. /\ SubSeq(data, 1, n) \in Seq(1..MaxBytes)
      /\ data' \in Seq(1..MaxBytes)
      /\ data' = <<>> <=> n = Len(data)
  <2> HIDE DEF n
  <2>1. /\ SubSeq(data, 1, n) \in Seq(1..MaxBytes)
        /\ SubSeq(data, n + 1, Len(data)) \in Seq(1..MaxBytes)
        /\ SubSeq(data, n + 1, Len(data)) = <<>> <=> n = Len(data)
    BY <1>1, <1>3, Cut
  <2> QED
    BY <1>4, <2>1
<1>6. n = Len(data) <=> ~(Len(data) > max)
  BY <1>2
<1>7. state' = IF data' = <<>> THEN AfterTake ELSE state
  BY <1>4, <1>5, <1>6
<1> QED
  BY <1>3, <1>4, <1>5, <1>7

\* Every call keeps the state byte and the slot in agreement.
LEMMA SlotInvStep ==
  ASSUME SlotInv, [Next]_vars
  PROVE  SlotInv'
<1> USE DEF SlotInv, TypeOK, SlotMatchesState, slots, readerTask, writerTask, history
<1>1. CASE ReadPending
  <2>1. writer' \in BOOLEAN /\ wWoken' \in BOOLEAN /\ acked' \in BOOLEAN
    BY <1>1, Zenon DEF ReadPending, WakeWriter
  <2> QED
    BY <1>1, <2>1 DEF ReadPending
<1>2. ASSUME NEW max \in 1..MaxBytes, ReadBytes(max)
      PROVE  SlotInv'
  <2>1. writer' \in BOOLEAN /\ wWoken' \in BOOLEAN
    BY <1>2, Zenon DEF ReadBytes, WakeWriter
  <2>2. PICK n \in 1..Len(data) :
           /\ taken' = taken \o SubSeq(data, 1, n)
           /\ SubSeq(data, 1, n) \in Seq(1..MaxBytes)
           /\ data' \in Seq(1..MaxBytes)
           /\ state' = IF data' = <<>> THEN AfterTake ELSE state
    BY <1>2, ReadCuts
  <2>3. taken' \in Seq(1..MaxBytes)
    BY <2>2, ConcatProperties
  <2>4. state \in Fulls /\ AfterTake \in {"EMPTY", "EMPTY_FLUSH", "DONE"}
    BY <1>2 DEF ReadBytes, AfterTake
  <2>5. state' \in States /\ (data' # <<>> <=> state' \in Fulls)
    BY <2>2, <2>4
  <2>6. rWait' \in BOOLEAN /\ rWoken' \in BOOLEAN
    BY <1>2, Zenon DEF ReadBytes
  <2> QED
    BY <1>2, <2>1, <2>2, <2>3, <2>5, <2>6 DEF ReadBytes
<1>3. CASE ReadOver \/ ReadProbe
  <2>1. ended' \in BOOLEAN /\ rWait' \in BOOLEAN /\ rWoken' \in BOOLEAN
    BY <1>3, Zenon DEF ReadOver, ReadProbe
  <2> QED
    BY <1>3, <2>1 DEF ReadOver, ReadProbe
<1>4. CASE DropRead
  <2>1. writer' \in BOOLEAN /\ wWoken' \in BOOLEAN
    BY <1>4, Zenon DEF DropRead, WakeWriter
  <2>2. rWait' \in BOOLEAN /\ rWoken' \in BOOLEAN
    BY <1>4, Zenon DEF DropRead
  <2> QED
    BY <1>4, <2>1, <2>2 DEF DropRead
<1>5. CASE WriteNothing
  BY <1>5 DEF WriteNothing, Return
<1>6. ASSUME NEW n \in 1..MaxBytes, Write(n)
      PROVE  SlotInv'
  <2>1. reader' \in BOOLEAN /\ rWoken' \in BOOLEAN
    BY <1>6, Zenon DEF Write, WakeReader
  <2>2. wWoken' \in BOOLEAN /\ writer' \in BOOLEAN /\ acked' \in BOOLEAN /\ wWait' = "none"
    BY <1>6, Zenon DEF Write, Return
  <2>3. sent' \in 0..MaxBytes /\ state' = "FULL"
    BY <1>6 DEF Write
  <2>4. data' = [i \in 1..n |-> sent + i] /\ \A i \in 1..n : sent + i \in 1..MaxBytes
    BY <1>6 DEF Write
  <2>5. data' \in Seq(1..MaxBytes) /\ data' # <<>>
    <3>1. data' \in [1..n -> 1..MaxBytes] /\ n \in Nat /\ n # 0
      BY <2>4
    <3>2. data' \in Seq(1..MaxBytes) /\ Len(data') = n
      BY <3>1
    <3> QED
      BY <3>1, <3>2, EmptySeq
  <2> QED
    BY <1>6, <2>1, <2>2, <2>3, <2>5 DEF Write
<1>7. CASE WriteRefused
  BY <1>7 DEF WriteRefused, Pend, Return
<1>8. CASE FlushWait \/ CloseWait \/ FlushOk \/ CloseOk
  <2>1. CASE FlushWait \/ CloseWait
    BY <2>1 DEF FlushWait, CloseWait, Pend
  <2>2. CASE FlushOk \/ CloseOk
    <3>1. acked' \in BOOLEAN /\ closed' \in BOOLEAN /\ ended' \in BOOLEAN
      BY <2>2, Zenon DEF FlushOk, CloseOk
    <3> QED
      BY <2>2, <3>1 DEF FlushOk, CloseOk, Return
  <2> QED
    BY <1>8, <2>1, <2>2
<1>9. CASE FlushRequest
  <2>1. reader' \in BOOLEAN /\ rWoken' \in BOOLEAN
    BY <1>9, Zenon DEF FlushRequest, WakeReader
  <2> QED
    BY <1>9, <2>1 DEF FlushRequest, Pend
<1>10. CASE CloseEmpty \/ CloseRequest
  <2>1. reader' \in BOOLEAN /\ rWoken' \in BOOLEAN
    BY <1>10, Zenon DEF CloseEmpty, CloseRequest, WakeReader
  <2> QED
    BY <1>10, <2>1 DEF CloseEmpty, CloseRequest, Pend, Return
<1>11. CASE Reset
  <2>1. /\ reader' \in BOOLEAN /\ rWoken' \in BOOLEAN
        /\ writer' \in BOOLEAN /\ wWoken' \in BOOLEAN
    BY <1>11, Zenon DEF Reset, WakeReader, WakeWriter
  <2>2. data' = <<>> /\ state' = "EMPTY" /\ resets' \in 0..MaxResets
    BY <1>11 DEF Reset
  <2>3. acked' \in BOOLEAN /\ closed' \in BOOLEAN /\ ended' \in BOOLEAN
    BY <1>11, Zenon DEF Reset
  <2> QED
    BY <1>11, <2>1, <2>2, <2>3 DEF Reset
<1>12. CASE UNCHANGED vars
  BY <1>12 DEF vars
<1> QED
  BY <1>1, <1>2, <1>3, <1>4, <1>5, <1>6, <1>7, <1>8, <1>9, <1>10, <1>11, <1>12
     DEF Next, Read, WriteSome, Flush, Close

\* The state byte and the slot agree in every reachable state.
LEMMA SlotInvariant == Spec => []SlotInv
<1>1. Init => SlotInv
  <2> SUFFICES ASSUME Init PROVE SlotInv
    OBVIOUS
  <2>1. /\ reader \in BOOLEAN /\ writer \in BOOLEAN /\ rWait \in BOOLEAN
        /\ rWoken \in BOOLEAN /\ wWoken \in BOOLEAN /\ acked \in BOOLEAN
        /\ closed \in BOOLEAN /\ ended \in BOOLEAN
    BY Zenon DEF Init
  <2> QED
    BY <2>1 DEF Init, SlotInv, TypeOK, SlotMatchesState
<1>2. SlotInv /\ [Next]_vars => SlotInv'
  BY SlotInvStep
<1> QED
  BY <1>1, <1>2, PTL DEF Spec

(***************************************************************************)
(* The variables have their types; in particular whatever the reader is    *)
(* handed is a byte that was sent.                                         *)
(***************************************************************************)
THEOREM TypeCorrect == Spec => []TypeOK
<1>1. SlotInv => TypeOK
  BY DEF SlotInv
<1> QED
  BY <1>1, SlotInvariant, PTL

(***************************************************************************)
(* The slot holds bytes exactly in the FULL states, also after reads that  *)
(* take a part of them: con_poll_read's branch for a full state with an    *)
(* empty slot is never taken.                                              *)
(***************************************************************************)
THEOREM SlotAgreesWithState == Spec => []SlotMatchesState
<1>1. SlotInv => SlotMatchesState
  BY DEF SlotInv
<1> QED
  BY <1>1, SlotInvariant, PTL

-----------------------------------------------------------------------------
(* Wake-ups.  That a waiting side has been woken is not inductive: the     *)
(* step that makes its answer ready must still find its waker registered.  *)

ReaderHeld == rWait => reader \/ rWoken
WriterHeld == wWait # "none" => writer \/ wWoken
WakerInv == ReaderHeld /\ WriterHeld /\ ReaderWoken /\ WriterWoken

\* No call leaves a waiting reader both unregistered and unwoken, and a call
\* that gives it something to see wakes it.
LEMMA ReaderStep ==
  ASSUME SlotInv, ReaderHeld, ReaderWoken, [Next]_vars
  PROVE  ReaderHeld' /\ ReaderWoken'
<1> USE DEF ReaderHeld, ReaderWoken
<1>1. CASE ReadPending \/ ReadProbe \/ ReadOver \/ DropRead
  BY <1>1, Zenon DEF ReadPending, ReadProbe, ReadOver, DropRead
<1>2. ASSUME NEW max \in 1..MaxBytes, ReadBytes(max)
      PROVE  ReaderHeld' /\ ReaderWoken'
  BY <1>2, Zenon DEF ReadBytes
<1>3. CASE \/ \E n \in 1..MaxBytes : Write(n)
           \/ CloseEmpty \/ CloseRequest \/ FlushRequest \/ Reset
  <2>1. rWait' = rWait
    BY <1>3, Zenon DEF Write, CloseEmpty, CloseRequest, FlushRequest, Reset
  <2>2. WakeReader
    BY <1>3, Zenon DEF Write, CloseEmpty, CloseRequest, FlushRequest, Reset
  <2>3. reader \/ rWoken => rWoken'
    BY <2>2, Zenon DEF WakeReader
  <2> QED
    BY <2>1, <2>3, Zenon
<1>4. CASE WriteNothing \/ WriteRefused \/ FlushWait \/ FlushOk \/ CloseWait \/ CloseOk
  <2>1. UNCHANGED <<state, reader, readerTask>>
    BY <1>4 DEF WriteNothing, WriteRefused, FlushWait, FlushOk, CloseWait, CloseOk
  <2> QED
    BY <2>1, Zenon DEF readerTask
<1>5. CASE UNCHANGED vars
  BY <1>5, Zenon DEF vars, readerTask, slots
<1> QED
  BY <1>1, <1>2, <1>3, <1>4, <1>5 DEF Next, Read, WriteSome, Flush, Close

\* The same of the writer: a read that frees the slot wakes it, and so does
\* one that only takes a part.
LEMMA WriterStep ==
  ASSUME SlotInv, WriterHeld, WriterWoken, [Next]_vars
  PROVE  WriterHeld' /\ WriterWoken'
<1> USE DEF WriterHeld, WriterWoken
<1>1. ASSUME NEW max \in 1..MaxBytes, ReadBytes(max)
      PROVE  WriterHeld' /\ WriterWoken'
  BY <1>1, Zenon DEF ReadBytes, WakeWriter
<1>2. CASE DropRead \/ Reset
  BY <1>2, Zenon DEF DropRead, Reset, WakeWriter
<1>3. CASE ReadPending
  <2>1. CASE state = "EMPTY_FLUSHED"
    BY <1>3, <2>1, Zenon DEF ReadPending
  <2>2. CASE state # "EMPTY_FLUSHED"
    BY <1>3, <2>2, Zenon DEF ReadPending, WakeWriter
  <2> QED
    BY <2>1, <2>2
<1>4. CASE WriteNothing \/ FlushOk \/ CloseEmpty \/ CloseOk
  BY <1>4, Zenon DEF WriteNothing, FlushOk, CloseEmpty, CloseOk, Return
<1>5. ASSUME NEW n \in 1..MaxBytes, Write(n)
      PROVE  WriterHeld' /\ WriterWoken'
  BY <1>5, Zenon DEF Write, Return
<1>6. CASE WriteRefused
  <2>1. CASE state \in Fulls
    BY <1>6, <2>1 DEF WriteRefused, Pend, Blocking
  <2>2. CASE state \notin Fulls
    BY <1>6, <2>2, Zenon DEF WriteRefused, Return
  <2> QED
    BY <2>1, <2>2
<1>7. CASE FlushWait \/ FlushRequest \/ CloseWait \/ CloseRequest
  <2>1. wWait' # "none" /\ writer' = TRUE
    BY <1>7, Zenon DEF FlushWait, FlushRequest, CloseWait, CloseRequest, Pend
  <2>2. state' \in Blocking(wWait)'
    BY <1>7 DEF FlushWait, FlushRequest, CloseWait, CloseRequest, Pend, Blocking
  <2> QED
    BY <2>1, <2>2
<1>8. CASE ReadOver \/ ReadProbe
  BY <1>8, Zenon DEF ReadOver, ReadProbe, writerTask, slots
<1>9. CASE UNCHANGED vars
  BY <1>9, Zenon DEF vars, writerTask, slots
<1> QED
  BY <1>1, <1>2, <1>3, <1>4, <1>5, <1>6, <1>7, <1>8, <1>9
     DEF Next, Read, WriteSome, Flush, Close

\* A waiting side holds a waker until it is woken, and is woken in time.
LEMMA WakerInvariant == Spec => []WakerInv
<1>1. Init => WakerInv
  BY Zenon DEF Init, WakerInv, ReaderHeld, WriterHeld, ReaderWoken, WriterWoken
<1>2. WakerInv /\ SlotInv /\ [Next]_vars => WakerInv'
  BY ReaderStep, WriterStep DEF WakerInv
<1> QED
  BY <1>1, <1>2, SlotInvariant, PTL DEF Spec

(***************************************************************************)
(* A reader that was answered Pending is woken by the call that gives it   *)
(* bytes, the end or a reset to see; one that was given bytes has been     *)
(* woken in advance.                                                       *)
(***************************************************************************)
THEOREM ReaderIsWoken == Spec => []ReaderWoken
<1>1. WakerInv => ReaderWoken
  BY DEF WakerInv
<1> QED
  BY <1>1, WakerInvariant, PTL

(***************************************************************************)
(* A writer that was answered Pending is woken by the call after which its *)
(* operation need not wait any more.                                       *)
(***************************************************************************)
THEOREM WriterIsWoken == Spec => []WriterWoken
<1>1. WakerInv => WriterWoken
  BY DEF WakerInv
<1> QED
  BY <1>1, WakerInvariant, PTL

-----------------------------------------------------------------------------
(* Refinement.                                                             *)

\* The stream is closed exactly in the states that con_poll_read ends on,
\* unless the reader has left.
ClosedInv ==
  /\ state \in {"FULL_CLOSED", "DONE"} => closed
  /\ closed => state \in {"FULL_CLOSED", "DONE", "DROPPED"}

\* The state byte remembers, until a reset and through every partial read,
\* that the writer asked to close.
LEMMA ClosedInvariant == Spec => []ClosedInv
<1>1. Init => ClosedInv
  BY Zenon DEF Init, ClosedInv
<1>2. ClosedInv /\ SlotInv /\ [Next]_vars => ClosedInv'
  <2> SUFFICES ASSUME ClosedInv, SlotInv, [Next]_vars
               PROVE  ClosedInv'
    OBVIOUS
  <2> USE DEF ClosedInv
  <2>1. ASSUME NEW max \in 1..MaxBytes, ReadBytes(max)
        PROVE  ClosedInv'
    <3>1. state' = state \/ state' = AfterTake
      BY <2>1 DEF ReadBytes
    <3>2. closed' = closed /\ state \in Fulls
      BY <2>1 DEF ReadBytes, history
    <3>3. CASE state = "FULL_CLOSED"
      <4>1. state' \in {"FULL_CLOSED", "DONE"} /\ closed
        BY <3>1, <3>3 DEF AfterTake
      <4> QED
        BY <3>2, <4>1, Zenon
    <3>4. CASE state # "FULL_CLOSED"
      <4>1. /\ state' \in {"EMPTY", "EMPTY_FLUSH", "FULL", "FULL_FLUSH"}
            /\ state \notin {"FULL_CLOSED", "DONE", "DROPPED"}
        BY <3>1, <3>2, <3>4 DEF AfterTake
      <4>2. ~closed
        BY <4>1
      <4> QED
        BY <3>2, <4>1, <4>2
    <3> QED
      BY <3>3, <3>4
  <2>2. CASE ReadPending \/ FlushRequest \/ \E n \in 1..MaxBytes : Write(n)
    <3>1. /\ state \notin {"FULL_CLOSED", "DONE", "DROPPED"}
          /\ state' \notin {"FULL_CLOSED", "DONE"}
      BY <2>2 DEF ReadPending, Write, FlushRequest
    <3>2. closed' = closed
      BY <2>2 DEF ReadPending, Write, FlushRequest, history
    <3> QED
      BY <3>1, <3>2
  <2>3. CASE DropRead
    BY <2>3 DEF DropRead
  <2>4. CASE CloseEmpty \/ CloseRequest \/ CloseOk
    <3>1. closed' = TRUE
      BY <2>4, Zenon DEF CloseEmpty, CloseRequest, CloseOk
    <3>2. state' \in {"FULL_CLOSED", "DONE", "DROPPED"}
      BY <2>4 DEF CloseEmpty, CloseRequest, CloseOk
    <3> QED
      BY <3>1, <3>2
  <2>5. CASE Reset
    <3>1. closed' = FALSE
      BY <2>5, Zenon DEF Reset
    <3>2. state' = "EMPTY"
      BY <2>5 DEF Reset
    <3> QED
      BY <3>1, <3>2
  <2>6. CASE \/ ReadProbe \/ ReadOver \/ WriteNothing \/ WriteRefused
             \/ FlushWait \/ FlushOk \/ CloseWait
    <3>1. state' = state /\ closed' = closed
      BY <2>6 DEF ReadProbe, ReadOver, WriteNothing, WriteRefused, FlushWait, FlushOk,
                  CloseWait, history
    <3> QED
      BY <3>1
  <2>7. CASE UNCHANGED vars
    BY <2>7 DEF vars, history
  <2> QED
    BY <2>1, <2>2, <2>3, <2>4, <2>5, <2>6, <2>7 DEF Next, Read, WriteSome, Flush, Close
<1> QED
  BY <1>1, <1>2, SlotInvariant, PTL DEF Spec

\* Only a read that saw the slot empty after the last write acknowledges a flush.
AckedInv == state = "EMPTY_FLUSHED" => acked

\* The state byte claims no acknowledgement that the reader has not given.
LEMMA AckedInvariant == Spec => []AckedInv
<1>1. Init => AckedInv
  BY DEF Init, AckedInv
<1>2. AckedInv /\ SlotInv /\ [Next]_vars => AckedInv'
  <2> SUFFICES ASSUME AckedInv, SlotInv, [Next]_vars
               PROVE  AckedInv'
    OBVIOUS
  <2> USE DEF AckedInv
  <2>1. CASE ReadPending
    <3>1. acked' = TRUE
      BY <2>1, Zenon DEF ReadPending
    <3> QED
      BY <3>1
  <2>2. ASSUME NEW max \in 1..MaxBytes, ReadBytes(max)
        PROVE  AckedInv'
    BY <2>2 DEF ReadBytes, AfterTake
  <2>3. CASE \/ DropRead \/ FlushRequest \/ CloseEmpty \/ CloseRequest \/ Reset
             \/ \E n \in 1..MaxBytes : Write(n)
    <3>1. state' # "EMPTY_FLUSHED"
      BY <2>3 DEF DropRead, Write, FlushRequest, CloseEmpty, CloseRequest, Reset
    <3> QED
      BY <3>1
  <2>4. CASE \/ ReadProbe \/ ReadOver \/ WriteNothing \/ WriteRefused
             \/ FlushWait \/ FlushOk \/ CloseWait \/ CloseOk \/ UNCHANGED vars
    <3>1. UNCHANGED <<state, acked>>
      BY <2>4 DEF ReadProbe, ReadOver, WriteNothing, WriteRefused, FlushWait, FlushOk,
                  CloseWait, CloseOk, vars, history
    <3> QED
      BY <3>1
  <2> QED
    BY <2>1, <2>2, <2>3, <2>4 DEF Next, Read, WriteSome, Flush, Close
<1> QED
  BY <1>1, <1>2, SlotInvariant, PTL DEF Spec

\* Every call takes one step of the stream, or none.
LEMMA StreamStep ==
  ASSUME SlotInv, ClosedInv, AckedInv, [Next]_vars
  PROVE  [Promise!Next]_(Promise!vars)
<1> DEFINE left == state = "DROPPED"
<1> USE DEF SlotInv, TypeOK, SlotMatchesState
<1>1. ASSUME NEW max \in 1..MaxBytes, ReadBytes(max)
      PROVE  Promise!Next
  <2>1. PICK n \in 1..Len(data) :
           /\ taken' = taken \o SubSeq(data, 1, n)
           /\ data' = SubSeq(data, n + 1, Len(data))
           /\ state' = IF data' = <<>> THEN AfterTake ELSE state
    BY <1>1, ReadCuts
  <2>2. state # "DROPPED" /\ state' # "DROPPED"
    <3>1. state \in Fulls
      BY <1>1 DEF ReadBytes
    <3>2. AfterTake # "DROPPED"
      BY <3>1 DEF AfterTake
    <3> QED
      BY <2>1, <3>1, <3>2
  <2>3. UNCHANGED <<sent, acked, confirmed, closed, ended, resets>>
    BY <1>1 DEF ReadBytes, history
  <2>4. Promise!Read(n)
    BY <2>1, <2>2, <2>3 DEF Promise!Read
  <2> QED
    BY <2>4 DEF Promise!Next
<1>2. ASSUME NEW n \in 1..MaxBytes, Write(n)
      PROVE  Promise!Next
  <2>1. /\ data = <<>> /\ state # "DROPPED" /\ state' # "DROPPED"
        /\ sent' = sent + n
        /\ data' = [i \in 1..n |-> sent + i]
        /\ UNCHANGED <<taken, confirmed, closed, ended, resets>>
    BY <1>2 DEF Write
  <2>2. ~closed
    BY <1>2 DEF Write, ClosedInv
  <2>3. sent' - sent = n /\ sent' > sent
    BY <2>1
  <2>4. data' \in Seq(Nat)
    BY <2>1
  <2>5. data' = data \o [i \in 1..(sent' - sent) |-> sent + i]
    BY <2>1, <2>3, <2>4, ConcatEmptySeq
  <2>6. acked' = FALSE
    BY <1>2, Zenon DEF Write
  <2>7. Promise!Write
    BY <2>1, <2>2, <2>3, <2>5, <2>6 DEF Promise!Write
  <2> QED
    BY <2>7 DEF Promise!Next
<1>3. CASE DropRead
  <2>1. /\ data' = <<>> /\ state # "DROPPED" /\ state' = "DROPPED"
        /\ UNCHANGED <<sent, taken, acked, confirmed, closed, ended, resets>>
    BY <1>3 DEF DropRead, history
  <2>2. Promise!Abandon
    BY <2>1 DEF Promise!Abandon
  <2> QED
    BY <2>2 DEF Promise!Next
<1>4. CASE Reset
  <2>1. /\ data' = <<>> /\ state' = "EMPTY" /\ resets' = resets + 1
        /\ UNCHANGED <<sent, taken, confirmed>>
    BY <1>4 DEF Reset
  <2>2. acked' = FALSE /\ closed' = FALSE /\ ended' = FALSE
    BY <1>4, Zenon DEF Reset
  <2>3. Promise!Reopen
    BY <2>1, <2>2 DEF Promise!Reopen
  <2> QED
    BY <2>3 DEF Promise!Next
<1>5. CASE ReadOver
  <2>1. data = <<>> /\ UNCHANGED <<state, data, sent, taken, acked, confirmed, closed, resets>>
    BY <1>5 DEF ReadOver
  <2>2. ended' = TRUE
    BY <1>5, Zenon DEF ReadOver
  <2>3. closed \/ state = "DROPPED"
    BY <1>5, Zenon DEF ReadOver, ClosedInv
  <2>4. Promise!End
    BY <2>1, <2>2, <2>3 DEF Promise!End
  <2> QED
    BY <2>4 DEF Promise!Next
<1>6. CASE CloseEmpty \/ CloseOk
  <2>1. /\ data = <<>> /\ confirmed' = sent
        /\ UNCHANGED <<data, sent, taken, acked, ended, resets>>
        /\ state' = "DROPPED" <=> state = "DROPPED"
    BY <1>6 DEF CloseEmpty, CloseOk
  <2>2. closed' = TRUE
    BY <1>6, Zenon DEF CloseEmpty, CloseOk
  <2>3. Promise!Close
    BY <2>1, <2>2 DEF Promise!Close
  <2> QED
    BY <2>3 DEF Promise!Next
<1>7. CASE CloseRequest
  <2>1. /\ UNCHANGED <<data, sent, taken, acked, confirmed, ended, resets>>
        /\ state # "DROPPED" /\ state' # "DROPPED"
    BY <1>7 DEF CloseRequest
  <2>2. closed' = TRUE
    BY <1>7, Zenon DEF CloseRequest
  <2>3. Promise!Close
    BY <2>1, <2>2 DEF Promise!Close
  <2> QED
    BY <2>3 DEF Promise!Next
<1>8. CASE FlushOk
  <2>1. /\ data = <<>> /\ confirmed' = sent
        /\ UNCHANGED <<state, data, sent, taken, acked, closed, ended, resets>>
    BY <1>8 DEF FlushOk
  <2>2. acked \/ closed \/ state = "DROPPED"
    BY <1>8, Zenon DEF FlushOk, AckedInv, ClosedInv
  <2>3. Promise!Confirm
    BY <2>1, <2>2 DEF Promise!Confirm
  <2> QED
    BY <2>3 DEF Promise!Next
<1>9. CASE ReadPending
  <2>1. /\ data = <<>> /\ state # "DROPPED" /\ state' # "DROPPED"
        /\ UNCHANGED <<data, sent, taken, confirmed, closed, ended, resets>>
    BY <1>9 DEF ReadPending
  <2>2. ~closed
    BY <1>9 DEF ReadPending, ClosedInv
  <2>3. acked' = TRUE
    BY <1>9, Zenon DEF ReadPending
  <2>4. Promise!Look
    BY <2>1, <2>2, <2>3 DEF Promise!Look
  <2> QED
    BY <2>4 DEF Promise!Next
<1>10. CASE \/ ReadProbe \/ WriteNothing \/ WriteRefused
            \/ FlushWait \/ FlushRequest \/ CloseWait \/ UNCHANGED vars
  <2>1. /\ UNCHANGED <<data, sent, taken, acked, confirmed, closed, ended, resets>>
        /\ state' = "DROPPED" <=> state = "DROPPED"
    BY <1>10 DEF ReadProbe, WriteNothing, WriteRefused, FlushWait,
                FlushRequest, CloseWait, vars, history
  <2> QED
    BY <2>1 DEF Promise!vars
<1> QED
  BY <1>1, <1>2, <1>3, <1>4, <1>5, <1>6, <1>7, <1>8, <1>9, <1>10
     DEF Next, Read, WriteSome, Flush, Close

(***************************************************************************)
(* IoBytesExchange implements the stream of bytes that IoWriter and        *)
(* IoReader promise: bytes come out once, in order, in whatever pieces;    *)
(* only the steps in which the reader leaves, and resets, drop any; a flush*)
(* is answered only after the reader saw the slot empty, or where nothing  *)
(* more can come or be read; a close and the reported end leave nothing in *)
(* flight.                                                                 *)
(***************************************************************************)
THEOREM ExchangeImplementsByteStream == Spec => ImplementsByteStream
<1>1. Init => Promise!Init
  BY DEF Init, Promise!Init
<1>2. SlotInv /\ ClosedInv /\ AckedInv /\ [Next]_vars => [Promise!Next]_(Promise!vars)
  BY StreamStep
<1> QED
  BY <1>1, <1>2, SlotInvariant, ClosedInvariant, AckedInvariant, PTL
     DEF Spec, ImplementsByteStream, Promise!Spec
=============================================================================
