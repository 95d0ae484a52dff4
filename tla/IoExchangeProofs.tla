-------------------------- MODULE IoExchangeProofs --------------------------
(***************************************************************************)
(* Theorems about IoExchange, for every number of items and of resets.     *)
(***************************************************************************)
EXTENDS IoExchange, SequenceTheorems, TLAPS

USE BoundsAssumption DEF None, Empties, Fulls, States

-----------------------------------------------------------------------------
(* Types, and the agreement of the state byte with the slot.               *)

SlotInv == TypeOK /\ SlotMatchesState

\* Every call keeps the state byte and the slot in agreement.
LEMMA SlotInvStep ==
  ASSUME SlotInv, [Next]_vars
  PROVE  SlotInv'
<1> USE DEF SlotInv, TypeOK, SlotMatchesState, slots, readerTask, writerTask, history
<1>1. CASE ReadPending
  <2>1. writer' \in BOOLEAN /\ wWoken' \in BOOLEAN /\ acked' \in BOOLEAN
    BY <1>1, Zenon DEF ReadPending, WakeWriter
  <2> QED
    BY <1>1, <2>1 DEF ReadPending
<1>2. CASE ReadItem
  <2>1. writer' \in BOOLEAN /\ wWoken' \in BOOLEAN
    BY <1>2, Zenon DEF ReadItem, WakeWriter
  <2>2. item \in 1..MaxItems
    BY <1>2 DEF ReadItem
  <2>3. taken' \in Seq(1..MaxItems)
    BY <1>2, <2>2 DEF ReadItem
  <2>4. state' \in {"EMPTY", "EMPTY_FLUSH", "DONE"} /\ item' = None
    BY <1>2 DEF ReadItem, AfterTake
  <2>5. rWait' \in BOOLEAN /\ rWoken' \in BOOLEAN
    BY <1>2, Zenon DEF ReadItem
  <2> QED
    BY <1>2, <2>1, <2>3, <2>4, <2>5 DEF ReadItem
<1>3. CASE ReadOver
  <2>1. ended' \in BOOLEAN
    BY <1>3, Zenon DEF ReadOver
  <2> QED
    BY <1>3, <2>1 DEF ReadOver
<1>4. CASE DropRead
  <2>1. writer' \in BOOLEAN /\ wWoken' \in BOOLEAN
    BY <1>4, Zenon DEF DropRead, WakeWriter
  <2>2. lost' \in Nat /\ item' = None /\ state' = "DROPPED"
    BY <1>4 DEF DropRead, Discard
  <2>3. rWait' \in BOOLEAN /\ rWoken' \in BOOLEAN
    BY <1>4, Zenon DEF DropRead
  <2> QED
    BY <1>4, <2>1, <2>2, <2>3 DEF DropRead
<1>5. CASE PollReady
  BY <1>5 DEF PollReady, Pend, Return
<1>6. CASE Send
  <2>1. reader' \in BOOLEAN /\ rWoken' \in BOOLEAN
    BY <1>6, Zenon DEF Send, WakeReader
  <2>2. wWoken' \in BOOLEAN /\ writer' \in BOOLEAN /\ acked' \in BOOLEAN
    BY <1>6, Zenon DEF Send, Return
  <2>3. sent' \in 0..MaxItems /\ item' \in 1..MaxItems /\ state' = "FULL"
    BY <1>6 DEF Send
  <2> QED
    BY <1>6, <2>1, <2>2, <2>3 DEF Send, Return
<1>7. CASE SendRefused
  BY <1>7 DEF SendRefused, Pend, Return
<1>8. CASE FlushWait \/ CloseWait \/ FlushOk \/ CloseOk
  <2>1. CASE FlushWait \/ CloseWait
    BY <2>1 DEF FlushWait, CloseWait, Pend
  <2>2. CASE FlushOk \/ CloseOk
    <3>1. acked' \in BOOLEAN /\ closed' \in BOOLEAN /\ ended' \in BOOLEAN
      BY <2>2, Zenon DEF FlushOk, CloseOk
    <3> QED
      BY <2>2, <3>1 DEF FlushOk, CloseOk, Return
  <2> QED
    BY <1>8, <2>1, <2>2
<1>9. CASE FlushRequest
  <2>1. reader' \in BOOLEAN /\ rWoken' \in BOOLEAN
    BY <1>9, Zenon DEF FlushRequest, WakeReader
  <2> QED
    BY <1>9, <2>1 DEF FlushRequest, Pend
<1>10. CASE CloseEmpty \/ CloseRequest
  <2>1. reader' \in BOOLEAN /\ rWoken' \in BOOLEAN
    BY <1>10, Zenon DEF CloseEmpty, CloseRequest, WakeReader
  <2> QED
    BY <1>10, <2>1 DEF CloseEmpty, CloseRequest, Pend, Return
<1>11. CASE Reset
  <2>1. /\ reader' \in BOOLEAN /\ rWoken' \in BOOLEAN
        /\ writer' \in BOOLEAN /\ wWoken' \in BOOLEAN
    BY <1>11, Zenon DEF Reset, WakeReader, WakeWriter
  <2>2. lost' \in Nat /\ item' = None /\ state' = "EMPTY" /\ resets' \in 0..MaxResets
    BY <1>11 DEF Reset, Discard
  <2>3. acked' \in BOOLEAN /\ closed' \in BOOLEAN /\ ended' \in BOOLEAN
    BY <1>11, Zenon DEF Reset
  <2> QED
    BY <1>11, <2>1, <2>2, <2>3 DEF Reset
<1>12. CASE UNCHANGED vars
  BY <1>12 DEF vars
<1> QED
  BY <1>1, <1>2, <1>3, <1>4, <1>5, <1>6, <1>7, <1>8, <1>9, <1>10, <1>11, <1>12
     DEF Next, Read, Flush, Close

\* The state byte and the slot agree in every reachable state.
LEMMA SlotInvariant == Spec => []SlotInv
<1>1. Init => SlotInv
  <2> SUFFICES ASSUME Init PROVE SlotInv
    OBVIOUS
  <2>1. /\ reader \in BOOLEAN /\ writer \in BOOLEAN /\ rWait \in BOOLEAN
        /\ rWoken \in BOOLEAN /\ wWoken \in BOOLEAN /\ acked \in BOOLEAN
        /\ closed \in BOOLEAN /\ ended \in BOOLEAN
    BY Zenon DEF Init
  <2> QED
    BY <2>1 DEF Init, SlotInv, TypeOK, SlotMatchesState
<1>2. SlotInv /\ [Next]_vars => SlotInv'
  BY SlotInvStep
<1> QED
  BY <1>1, <1>2, PTL DEF Spec

(***************************************************************************)
(* The variables have their types; in particular whatever the reader is    *)
(* handed is an item that was sent.                                        *)
(***************************************************************************)
THEOREM TypeCorrect == Spec => []TypeOK
<1>1. SlotInv => TypeOK
  BY DEF SlotInv
<1> QED
  BY <1>1, SlotInvariant, PTL

(***************************************************************************)
(* The slot holds an item exactly in the FULL states: con_poll_read's      *)
(* branch for a full state with an empty slot is never taken.              *)
(***************************************************************************)
THEOREM SlotAgreesWithState == Spec => []SlotMatchesState
<1>1. SlotInv => SlotMatchesState
  BY DEF SlotInv
<1> QED
  BY <1>1, SlotInvariant, PTL

(***************************************************************************)
(* No call of either side, reset included, loses track of an item: it was  *)
(* read, was discarded, or waits in the slot.                              *)
(***************************************************************************)
THEOREM ItemsAreConserved == Spec => []Conserved
<1>1. Init => Conserved
  BY DEF Init, Conserved
<1>2. Conserved /\ SlotInv /\ [Next]_vars => Conserved'
  <2> SUFFICES ASSUME Conserved, SlotInv, [Next]_vars
               PROVE  Conserved'
    OBVIOUS
  <2> USE DEF SlotInv, TypeOK, SlotMatchesState, Conserved
  <2>1. CASE ReadItem
    <3>1. item \in 1..MaxItems /\ item' = None /\ sent' = sent /\ lost' = lost
      BY <2>1 DEF ReadItem, history
    <3>2. Len(taken') = Len(taken) + 1
      BY <2>1, <3>1 DEF ReadItem
    <3> QED
      BY <3>1, <3>2
  <2>2. CASE Send
    BY <2>2 DEF Send, history
  <2>3. CASE DropRead \/ Reset
    BY <2>3 DEF DropRead, Reset, Discard
  <2>4. CASE ReadPending \/ ReadOver \/ PollReady \/ SendRefused
    BY <2>4 DEF ReadPending, ReadOver, PollReady, SendRefused, history
  <2>5. CASE Flush \/ Close
    BY <2>5 DEF Flush, FlushWait, FlushRequest, FlushOk, Close, CloseEmpty,
                CloseRequest, CloseWait, CloseOk, history
  <2>6. CASE UNCHANGED vars
    BY <2>6 DEF vars, history
  <2> QED
    BY <2>1, <2>2, <2>3, <2>4, <2>5, <2>6 DEF Next, Read
<1> QED
  BY <1>1, <1>2, SlotInvariant, PTL DEF Spec

-----------------------------------------------------------------------------
(* Wake-ups.  That a waiting side has been woken is not inductive: the     *)
(* step that makes its answer ready must still find its waker registered.  *)

ReaderHeld == rWait => reader \/ rWoken
WriterHeld == wWait # "none" => writer \/ wWoken
WakerInv == ReaderHeld /\ WriterHeld /\ ReaderWoken /\ WriterWoken

\* No call leaves a waiting reader both unregistered and unwoken, and a call
\* that gives it something to see wakes it.
LEMMA ReaderStep ==
  ASSUME SlotInv, ReaderHeld, ReaderWoken, [Next]_vars
  PROVE  ReaderHeld' /\ ReaderWoken'
<1> USE DEF ReaderHeld, ReaderWoken
<1>1. CASE ReadPending \/ ReadItem \/ ReadOver \/ DropRead
  BY <1>1, Zenon DEF ReadPending, ReadItem, ReadOver, DropRead
<1>2. CASE Send \/ CloseEmpty \/ CloseRequest \/ FlushRequest \/ Reset
  <2>1. rWait' = rWait
    BY <1>2, Zenon DEF Send, CloseEmpty, CloseRequest, FlushRequest, Reset
  <2>2. WakeReader
    BY <1>2, Zenon DEF Send, CloseEmpty, CloseRequest, FlushRequest, Reset
  <2>3. reader \/ rWoken => rWoken'
    BY <2>2, Zenon DEF WakeReader
  <2> QED
    BY <2>1, <2>3, Zenon
<1>3. CASE PollReady \/ SendRefused \/ FlushWait \/ FlushOk \/ CloseWait \/ CloseOk
  <2>1. UNCHANGED <<state, reader, readerTask>>
    BY <1>3 DEF PollReady, SendRefused, FlushWait, FlushOk, CloseWait, CloseOk
  <2> QED
    BY <2>1, Zenon DEF readerTask
<1>4. CASE UNCHANGED vars
  BY <1>4, Zenon DEF vars, readerTask, slots
<1> QED
  BY <1>1, <1>2, <1>3, <1>4 DEF Next, Read, Flush, Close

\* The same of the writer.
LEMMA WriterStep ==
  ASSUME SlotInv, WriterHeld, WriterWoken, [Next]_vars
  PROVE  WriterHeld' /\ WriterWoken'
<1> USE DEF WriterHeld, WriterWoken
<1>1. CASE ReadItem \/ DropRead \/ Reset
  BY <1>1, Zenon DEF ReadItem, DropRead, Reset, WakeWriter
<1>2. CASE ReadPending
  <2>1. CASE state = "EMPTY_FLUSHED"
    BY <1>2, <2>1, Zenon DEF ReadPending
  <2>2. CASE state # "EMPTY_FLUSHED"
    BY <1>2, <2>2, Zenon DEF ReadPending, WakeWriter
  <2> QED
    BY <2>1, <2>2
<1>3. CASE Send \/ FlushOk \/ CloseEmpty \/ CloseOk
  BY <1>3, Zenon DEF Send, FlushOk, CloseEmpty, CloseOk, Return
<1>4. CASE PollReady \/ SendRefused
  <2>1. CASE state \in Fulls
    BY <1>4, <2>1 DEF PollReady, SendRefused, Pend, Blocking
  <2>2. CASE state \notin Fulls
    BY <1>4, <2>2, Zenon DEF PollReady, SendRefused, Return
  <2> QED
    BY <2>1, <2>2
<1>5. CASE FlushWait \/ FlushRequest \/ CloseWait \/ CloseRequest
  <2>1. wWait' # "none" /\ writer' = TRUE
    BY <1>5, Zenon DEF FlushWait, FlushRequest, CloseWait, CloseRequest, Pend
  <2>2. state' \in Blocking(wWait)'
    BY <1>5 DEF FlushWait, FlushRequest, CloseWait, CloseRequest, Pend, Blocking
  <2> QED
    BY <2>1, <2>2
<1>6. CASE ReadOver
  BY <1>6, Zenon DEF ReadOver, writerTask, slots
<1>7. CASE UNCHANGED vars
  BY <1>7, Zenon DEF vars, writerTask, slots
<1> QED
  BY <1>1, <1>2, <1>3, <1>4, <1>5, <1>6, <1>7 DEF Next, Read, Flush, Close

\* A waiting side holds a waker until it is woken, and is woken in time.
LEMMA WakerInvariant == Spec => []WakerInv
<1>1. Init => WakerInv
  BY Zenon DEF Init, WakerInv, ReaderHeld, WriterHeld, ReaderWoken, WriterWoken
<1>2. WakerInv /\ SlotInv /\ [Next]_vars => WakerInv'
  BY ReaderStep, WriterStep DEF WakerInv
<1> QED
  BY <1>1, <1>2, SlotInvariant, PTL DEF Spec

(***************************************************************************)
(* A reader that was answered Pending is woken by the call that gives it   *)
(* an item, the end or a reset to see; one that was given an item has been *)
(* woken in advance.                                                       *)
(***************************************************************************)
THEOREM ReaderIsWoken == Spec => []ReaderWoken
<1>1. WakerInv => ReaderWoken
  BY DEF WakerInv
<1> QED
  BY <1>1, WakerInvariant, PTL

(***************************************************************************)
(* A writer that was answered Pending is woken by the call after which its *)
(* operation need not wait any more.                                       *)
(***************************************************************************)
THEOREM WriterIsWoken == Spec => []WriterWoken
<1>1. WakerInv => WriterWoken
  BY DEF WakerInv
<1> QED
  BY <1>1, WakerInvariant, PTL

-----------------------------------------------------------------------------
(* Refinement.                                                             *)

\* The channel is closed exactly in the states that con_poll_read ends on,
\* unless the reader has left.
ClosedInv ==
  /\ state \in {"FULL_CLOSED", "DONE"} => closed
  /\ closed => state \in {"FULL_CLOSED", "DONE", "DROPPED"}

\* The state byte remembers, until a reset, that the writer asked to close.
LEMMA ClosedInvariant == Spec => []ClosedInv
<1>1. Init => ClosedInv
  BY Zenon DEF Init, ClosedInv
<1>2. ClosedInv /\ SlotInv /\ [Next]_vars => ClosedInv'
  <2> SUFFICES ASSUME ClosedInv, SlotInv, [Next]_vars
               PROVE  ClosedInv'
    OBVIOUS
  <2> USE DEF ClosedInv
  <2>1. CASE ReadItem
    <3>1. CASE state = "FULL_CLOSED"
      <4>1. state' = "DONE" /\ closed
        BY <2>1, <3>1 DEF ReadItem, AfterTake
      <4> QED
        BY <2>1, <4>1, Zenon DEF ReadItem, history
    <3>2. CASE state # "FULL_CLOSED"
      <4>1. state' \in {"EMPTY", "EMPTY_FLUSH"} /\ state \notin {"FULL_CLOSED", "DONE", "DROPPED"}
        BY <2>1, <3>2 DEF ReadItem, AfterTake
      <4>2. closed' = closed
        BY <2>1 DEF ReadItem, history
      <4>3. ~closed
        BY <4>1
      <4> QED
        BY <4>1, <4>2, <4>3
    <3> QED
      BY <3>1, <3>2
  <2>2. CASE ReadPending \/ Send \/ FlushRequest
    <3>1. /\ state \notin {"FULL_CLOSED", "DONE", "DROPPED"}
          /\ state' \notin {"FULL_CLOSED", "DONE"}
      BY <2>2 DEF ReadPending, Send, FlushRequest
    <3>2. closed' = closed
      BY <2>2 DEF ReadPending, Send, FlushRequest, history
    <3> QED
      BY <3>1, <3>2
  <2>3. CASE DropRead
    BY <2>3 DEF DropRead
  <2>4. CASE CloseEmpty \/ CloseRequest \/ CloseOk
    <3>1. closed' = TRUE
      BY <2>4, Zenon DEF CloseEmpty, CloseRequest, CloseOk
    <3>2. state' \in {"FULL_CLOSED", "DONE", "DROPPED"}
      BY <2>4 DEF CloseEmpty, CloseRequest, CloseOk
    <3> QED
      BY <3>1, <3>2
  <2>5. CASE Reset
    <3>1. closed' = FALSE
      BY <2>5, Zenon DEF Reset
    <3>2. state' = "EMPTY"
      BY <2>5 DEF Reset
    <3> QED
      BY <3>1, <3>2
  <2>6. CASE ReadOver \/ PollReady \/ SendRefused \/ FlushWait \/ FlushOk \/ CloseWait
    <3>1. state' = state /\ closed' = closed
      BY <2>6 DEF ReadOver, PollReady, SendRefused, FlushWait, FlushOk, CloseWait, history
    <3> QED
      BY <3>1
  <2>7. CASE UNCHANGED vars
    BY <2>7 DEF vars, history
  <2> QED
    BY <2>1, <2>2, <2>3, <2>4, <2>5, <2>6, <2>7 DEF Next, Read, Flush, Close
<1> QED
  BY <1>1, <1>2, SlotInvariant, PTL DEF Spec

\* Only a read that saw the slot empty after the last item acknowledges a flush.
AckedInv == state = "EMPTY_FLUSHED" => acked

\* The state byte claims no acknowledgement that the reader has not given.
LEMMA AckedInvariant == Spec => []AckedInv
<1>1. Init => AckedInv
  BY DEF Init, AckedInv
<1>2. AckedInv /\ SlotInv /\ [Next]_vars => AckedInv'
  <2> SUFFICES ASSUME AckedInv, SlotInv, [Next]_vars
               PROVE  AckedInv'
    OBVIOUS
  <2> USE DEF AckedInv
  <2>1. CASE ReadPending
    <3>1. acked' = TRUE
      BY <2>1, Zenon DEF ReadPending
    <3> QED
      BY <3>1
  <2>2. CASE \/ ReadItem \/ DropRead \/ Send \/ FlushRequest
             \/ CloseEmpty \/ CloseRequest \/ Reset
    <3>1. state' # "EMPTY_FLUSHED"
      BY <2>2 DEF ReadItem, AfterTake, DropRead, Send, FlushRequest, CloseEmpty,
                  CloseRequest, Reset
    <3> QED
      BY <3>1
  <2>3. CASE \/ ReadOver \/ PollReady \/ SendRefused \/ FlushWait \/ FlushOk
             \/ CloseWait \/ CloseOk \/ UNCHANGED vars
    <3>1. UNCHANGED <<state, acked>>
      BY <2>3 DEF ReadOver, PollReady, SendRefused, FlushWait, FlushOk, CloseWait, CloseOk,
                  vars, history
    <3> QED
      BY <3>1
  <2> QED
    BY <2>1, <2>2, <2>3 DEF Next, Read, Flush, Close
<1> QED
  BY <1>1, <1>2, SlotInvariant, PTL DEF Spec

\* Every call takes one step of the channel, or none.
LEMMA ChannelStep ==
  ASSUME SlotInv, SlotInv', ClosedInv, AckedInv, [Next]_vars
  PROVE  [Promise!Next]_(Promise!vars)
<1> DEFINE inFlight == IF item = None THEN <<>> ELSE <<item>>
<1> DEFINE left == state = "DROPPED"
<1> USE DEF SlotInv, TypeOK, SlotMatchesState
<1>1. CASE ReadItem
  <2>1. /\ item \in 1..MaxItems /\ item' = None /\ taken' = Append(taken, item)
        /\ UNCHANGED <<sent, acked, confirmed, closed, ended, resets>>
    BY <1>1 DEF ReadItem, history
  <2>2. /\ inFlight = <<item>> /\ inFlight' = <<>>
        /\ Head(inFlight) = item /\ Tail(inFlight) = <<>>
    BY <2>1
  <2>3. state # "DROPPED" /\ state' # "DROPPED"
    BY <1>1 DEF ReadItem, AfterTake
  <2>4. Promise!Take
    BY <2>1, <2>2, <2>3 DEF Promise!Take
  <2> QED
    BY <2>4 DEF Promise!Next
<1>2. CASE Send
  <2>1. /\ item = None /\ item' = sent + 1 /\ item' # None /\ sent' = sent + 1
        /\ state # "DROPPED" /\ state' # "DROPPED"
        /\ UNCHANGED <<taken, confirmed, closed, ended, resets>>
    BY <1>2 DEF Send
  <2>2. ~closed
    BY <1>2 DEF Send, ClosedInv
  <2>3. inFlight = <<>> /\ inFlight' = Append(inFlight, sent + 1)
    BY <2>1
  <2>4. acked' = FALSE
    BY <1>2, Zenon DEF Send
  <2>5. Promise!Send
    BY <2>1, <2>2, <2>3, <2>4 DEF Promise!Send
  <2> QED
    BY <2>5 DEF Promise!Next
<1>3. CASE DropRead
  <2>1. /\ item' = None /\ state # "DROPPED" /\ state' = "DROPPED"
        /\ UNCHANGED <<sent, taken, acked, confirmed, closed, ended, resets>>
    BY <1>3 DEF DropRead, Discard
  <2>2. Promise!Abandon
    BY <2>1 DEF Promise!Abandon
  <2> QED
    BY <2>2 DEF Promise!Next
<1>4. CASE Reset
  <2>1. /\ item' = None /\ state' = "EMPTY" /\ resets' = resets + 1
        /\ UNCHANGED <<sent, taken, confirmed>>
    BY <1>4 DEF Reset, Discard
  <2>2. acked' = FALSE /\ closed' = FALSE /\ ended' = FALSE
    BY <1>4, Zenon DEF Reset
  <2>3. Promise!Reopen
    BY <2>1, <2>2 DEF Promise!Reopen
  <2> QED
    BY <2>3 DEF Promise!Next
<1>5. CASE ReadOver
  <2>1. item = None /\ UNCHANGED <<state, item, sent, taken, acked, confirmed, closed, resets>>
    BY <1>5 DEF ReadOver
  <2>2. CASE state = "DONE"
    <3>1. closed /\ ended' = TRUE
      BY <1>5, <2>2, Zenon DEF ReadOver, ClosedInv
    <3>2. Promise!End
      BY <2>1, <2>2, <3>1 DEF Promise!End
    <3> QED
      BY <3>2 DEF Promise!Next
  <2>3. CASE state # "DONE"
    <3>1. ended' = ended
      BY <1>5, <2>3 DEF ReadOver
    <3> QED
      BY <2>1, <3>1 DEF Promise!vars
  <2> QED
    BY <2>2, <2>3
<1>6. CASE CloseEmpty \/ CloseOk
  <2>1. /\ item = None /\ confirmed' = sent
        /\ UNCHANGED <<item, sent, taken, acked, ended, resets>>
        /\ state' = "DROPPED" <=> state = "DROPPED"
    BY <1>6 DEF CloseEmpty, CloseOk
  <2>2. closed' = TRUE
    BY <1>6, Zenon DEF CloseEmpty, CloseOk
  <2>3. Promise!Close
    BY <2>1, <2>2 DEF Promise!Close
  <2> QED
    BY <2>3 DEF Promise!Next
<1>7. CASE CloseRequest
  <2>1. /\ UNCHANGED <<item, sent, taken, acked, confirmed, ended, resets>>
        /\ state # "DROPPED" /\ state' # "DROPPED"
    BY <1>7 DEF CloseRequest
  <2>2. closed' = TRUE
    BY <1>7, Zenon DEF CloseRequest
  <2>3. Promise!Close
    BY <2>1, <2>2 DEF Promise!Close
  <2> QED
    BY <2>3 DEF Promise!Next
<1>8. CASE FlushOk
  <2>1. /\ item = None /\ confirmed' = sent
        /\ UNCHANGED <<state, item, sent, taken, acked, closed, ended, resets>>
    BY <1>8 DEF FlushOk
  <2>2. acked \/ closed \/ state = "DROPPED"
    BY <1>8, Zenon DEF FlushOk, AckedInv, ClosedInv
  <2>3. Promise!Confirm
    BY <2>1, <2>2 DEF Promise!Confirm
  <2> QED
    BY <2>3 DEF Promise!Next
<1>9. CASE ReadPending
  <2>1. /\ item = None /\ state # "DROPPED" /\ state' # "DROPPED"
        /\ UNCHANGED <<item, sent, taken, confirmed, closed, ended, resets>>
    BY <1>9 DEF ReadPending
  <2>2. ~closed
    BY <1>9 DEF ReadPending, ClosedInv
  <2>3. acked' = TRUE
    BY <1>9, Zenon DEF ReadPending
  <2>4. Promise!Look
    BY <2>1, <2>2, <2>3 DEF Promise!Look
  <2> QED
    BY <2>4 DEF Promise!Next
<1>10. CASE \/ PollReady \/ SendRefused \/ FlushWait \/ FlushRequest
            \/ CloseWait \/ UNCHANGED vars
  <2>1. /\ UNCHANGED <<item, sent, taken, acked, confirmed, closed, ended, resets>>
        /\ state' = "DROPPED" <=> state = "DROPPED"
    BY <1>10 DEF PollReady, SendRefused, FlushWait, FlushRequest, CloseWait, vars, history
  <2> QED
    BY <2>1 DEF Promise!vars
<1> QED
  BY <1>1, <1>2, <1>3, <1>4, <1>5, <1>6, <1>7, <1>8, <1>9, <1>10
     DEF Next, Read, Flush, Close

(***************************************************************************)
(* IoExchange implements the channel that IoSink and IoStream promise:     *)
(* items come out once, in order; only the steps in which the reader       *)
(* leaves, and resets, drop one; a flush is answered only after the reader *)
(* saw the slot empty, or where nothing more can come or be read; a close  *)
(* and the reported end leave nothing in flight.                           *)
(***************************************************************************)
THEOREM ExchangeImplementsChannel == Spec => ImplementsChannel
<1>1. Init => Promise!Init
  BY DEF Init, Promise!Init
<1>2. SlotInv /\ SlotInv' /\ ClosedInv /\ AckedInv /\ [Next]_vars
        => [Promise!Next]_(Promise!vars)
  BY ChannelStep
<1> QED
  BY <1>1, <1>2, SlotInvariant, ClosedInvariant, AckedInvariant, PTL
     DEF Spec, ImplementsChannel, Promise!Spec
=============================================================================
