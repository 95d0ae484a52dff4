------------------------------ MODULE NodeList ------------------------------
(***************************************************************************)
(* What an intrusive list promises: a list of distinct nodes.  A node      *)
(* enters at the tail; whichever leaves, the others keep their order.      *)
(***************************************************************************)
EXTENDS SequencesExt

CONSTANT Leaves

VARIABLE list

Init == list = <<>>

Enter(n) ==
  /\ n \notin ToSet(list)
  /\ list' = Append(list, n)

Leave(i) == list' = RemoveAt(list, i)

Next ==
  \/ \E n \in Leaves : Enter(n)
  \/ \E i \in DOMAIN list : Leave(i)

Spec == Init /\ [][Next]_list
=============================================================================
