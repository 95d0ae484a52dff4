------------------------------ MODULE Channel ------------------------------
(***************************************************************************)
(* What a pair IoSink / IoStream promises: the items come out in the order *)
(* they went in, each at most once; an item in flight is dropped only in   *)
(* the step in which the reader leaves and in a reset; a flush is confirmed*)
(* only after the reader has looked and found nothing more, or where there *)
(* is nothing more to come or nobody to look; a close is confirmed, and    *)
(* the end of the stream reported, only with nothing left in flight.       *)
(***************************************************************************)
EXTENDS Naturals, Sequences

VARIABLES
  sent,       \* number of items accepted; the items are numbered 1, 2, ...
  inFlight,   \* items accepted and neither taken nor discarded
  taken,      \* items handed to the reader, in order
  acked,      \* since the last item and the last reset the reader has looked
              \* and found nothing
  confirmed,  \* what the last confirmed flush or close vouches for
  closed,     \* the writer asked to close
  left,       \* the reader has left
  ended,      \* the reader was told of the end of the stream
  resets      \* number of resets

vars == <<sent, inFlight, taken, acked, confirmed, closed, left, ended, resets>>

Init ==
  /\ sent = 0 /\ confirmed = 0 /\ resets = 0
  /\ inFlight = <<>> /\ taken = <<>>
  /\ acked = FALSE /\ closed = FALSE /\ left = FALSE /\ ended = FALSE

Send ==
  /\ ~closed /\ ~left
  /\ sent' = sent + 1
  /\ inFlight' = Append(inFlight, sent + 1)
  /\ acked' = FALSE
  /\ UNCHANGED <<taken, confirmed, closed, left, ended, resets>>

Take ==
  /\ inFlight # <<>>
  /\ taken' = Append(taken, Head(inFlight))
  /\ inFlight' = Tail(inFlight)
  /\ UNCHANGED <<sent, acked, confirmed, closed, left, ended, resets>>

\* The reader asks for the next item and finds none.
Look ==
  /\ inFlight = <<>> /\ ~closed /\ ~left
  /\ acked' = TRUE
  /\ UNCHANGED <<sent, inFlight, taken, confirmed, closed, left, ended, resets>>

\* A close may confirm in the step that asks for it.
Close ==
  /\ closed' = TRUE
  /\ \/ confirmed' = confirmed
     \/ inFlight = <<>> /\ confirmed' = sent
  /\ UNCHANGED <<sent, inFlight, taken, acked, left, ended, resets>>

\* A flush.
Confirm ==
  /\ inFlight = <<>>
  /\ acked \/ closed \/ left
  /\ confirmed' = sent
  /\ UNCHANGED <<sent, inFlight, taken, acked, closed, left, ended, resets>>

End ==
  /\ closed /\ ~left /\ inFlight = <<>>
  /\ ended' = TRUE
  /\ UNCHANGED <<sent, inFlight, taken, acked, confirmed, closed, left, resets>>

\* The reader leaves: what was in flight is gone, and nothing comes after it.
Abandon ==
  /\ ~left /\ left' = TRUE
  /\ inFlight' = <<>>
  /\ UNCHANGED <<sent, taken, acked, confirmed, closed, ended, resets>>

\* A reset discards what is in flight and opens the channel again.
Reopen ==
  /\ resets' = resets + 1
  /\ inFlight' = <<>>
  /\ acked' = FALSE /\ closed' = FALSE /\ left' = FALSE /\ ended' = FALSE
  /\ UNCHANGED <<sent, taken, confirmed>>

Next == Send \/ Take \/ Look \/ Close \/ Confirm \/ End \/ Abandon \/ Reopen

Spec == Init /\ [][Next]_vars
=============================================================================
