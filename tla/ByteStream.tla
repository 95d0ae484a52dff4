----------------------------- MODULE ByteStream -----------------------------
(***************************************************************************)
(* What a pair IoWriter / IoReader promises: a stream of bytes that comes  *)
(* out in the order it went in, cut into chunks of the reader's choice;    *)
(* bytes in flight are dropped only in the step in which the reader leaves *)
(* and in a reset; a flush is confirmed only after the reader has looked   *)
(* and found nothing more, or where there is nothing more to come or nobody*)
(* to look; a close is confirmed, and the end reported, only with nothing  *)
(* left in flight.                                                         *)
(***************************************************************************)
EXTENDS Naturals, Sequences

VARIABLES
  sent,       \* number of bytes accepted; the bytes are numbered 1, 2, ...
  inFlight,   \* bytes accepted and neither taken nor discarded
  taken,      \* bytes handed to the reader, in order
  acked,      \* since the last write and the last reset the reader has looked
              \* and found nothing
  confirmed,  \* what the last confirmed flush or close vouches for
  closed,     \* the writer asked to close
  left,       \* the reader has left
  ended,      \* the reader was told of the end of the stream
  resets      \* number of resets

vars == <<sent, inFlight, taken, acked, confirmed, closed, left, ended, resets>>

Init ==
  /\ sent = 0 /\ confirmed = 0 /\ resets = 0
  /\ inFlight = <<>> /\ taken = <<>>
  /\ acked = FALSE /\ closed = FALSE /\ left = FALSE /\ ended = FALSE

\* An accepted write takes at least one byte, and the bytes in their order.
Write ==
  /\ ~closed /\ ~left
  /\ sent' > sent
  /\ inFlight' = inFlight \o [i \in 1..(sent' - sent) |-> sent + i]
  /\ acked' = FALSE
  /\ UNCHANGED <<taken, confirmed, closed, left, ended, resets>>

\* A read gives any number of bytes from the front.
Read(n) ==
  /\ taken' = taken \o SubSeq(inFlight, 1, n)
  /\ inFlight' = SubSeq(inFlight, n + 1, Len(inFlight))
  /\ UNCHANGED <<sent, acked, confirmed, closed, left, ended, resets>>

\* The reader asks for bytes and finds none.
Look ==
  /\ inFlight = <<>> /\ ~closed /\ ~left
  /\ acked' = TRUE
  /\ UNCHANGED <<sent, inFlight, taken, confirmed, closed, left, ended, resets>>

\* A close may confirm in the step that asks for it.
Close ==
  /\ closed' = TRUE
  /\ \/ confirmed' = confirmed
     \/ inFlight = <<>> /\ confirmed' = sent
  /\ UNCHANGED <<sent, inFlight, taken, acked, left, ended, resets>>

\* A flush.
Confirm ==
  /\ inFlight = <<>>
  /\ acked \/ closed \/ left
  /\ confirmed' = sent
  /\ UNCHANGED <<sent, inFlight, taken, acked, closed, left, ended, resets>>

\* A reader that has left is told of the end, too.
End ==
  /\ closed \/ left
  /\ inFlight = <<>>
  /\ ended' = TRUE
  /\ UNCHANGED <<sent, inFlight, taken, acked, confirmed, closed, left, resets>>

\* The reader leaves: what was in flight is gone, and nothing comes after it.
Abandon ==
  /\ ~left /\ left' = TRUE
  /\ inFlight' = <<>>
  /\ UNCHANGED <<sent, taken, acked, confirmed, closed, ended, resets>>

\* A reset discards what is in flight and opens the stream again.
Reopen ==
  /\ resets' = resets + 1
  /\ inFlight' = <<>>
  /\ acked' = FALSE /\ closed' = FALSE /\ left' = FALSE /\ ended' = FALSE
  /\ UNCHANGED <<sent, taken, confirmed>>

Next ==
  \/ Write \/ (\E n \in 1..Len(inFlight) : Read(n)) \/ Look
  \/ Close \/ Confirm \/ End \/ Abandon \/ Reopen

Spec == Init /\ [][Next]_vars
=============================================================================
