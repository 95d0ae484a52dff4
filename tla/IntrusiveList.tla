--------------------------- MODULE IntrusiveList ----------------------------
(***************************************************************************)
(* The ring of raw pointers of src/intrusive_list.rs.  All operations hold *)
(* the mutex of the head, so link, unlink and the drop of a node are one   *)
(* step each; filter, which calls a closure on every node and unlinks the  *)
(* ones it rejects, and the unlinking of the head, which empties the list, *)
(* are walks of one step per node, with nothing else in between.           *)
(***************************************************************************)
EXTENDS Naturals, FiniteSets, SequencesExt

CONSTANTS
  Leaves,  \* the places in memory where leaf nodes live
  head,    \* the head node
  Null     \* the null pointer

ASSUME NodesAssumption == head \notin Leaves /\ Null \notin Leaves \cup {head}
\* There is only so much memory.
ASSUME FiniteLeaves == IsFiniteSet(Leaves)

Nodes == Leaves \cup {head}
Pointers == Nodes \cup {Null}

VARIABLES
  next, prev,  \* the pointers of each node
  alive,       \* leaves that were made and not dropped
  pc,          \* who holds the mutex: "idle", "filter" or "teardown"
  pn,          \* where filter is
  \* History variables, which no guard reads.
  start,       \* the leaves that were linked when filter began
  visited      \* the leaves on which filter has called its closure

links == <<next, prev>>
walk == <<pc, pn, start, visited>>
vars == <<links, alive, walk>>

\* IntrusiveListNode::is_linked
IsLinked(n) == prev[n] # Null /\ next[n] # Null

\* Pointers are set and cleared in pairs.
TypeOK ==
  /\ next \in [Nodes -> Pointers] /\ prev \in [Nodes -> Pointers]
  /\ \A n \in Nodes : next[n] = Null <=> prev[n] = Null
  /\ alive \subseteq Leaves
  /\ pc \in {"idle", "filter", "teardown"} /\ pn \in Pointers
  /\ start \subseteq Leaves /\ visited \subseteq Leaves

Init ==
  /\ next = [n \in Nodes |-> Null] /\ prev = [n \in Nodes |-> Null]
  /\ alive = {}
  /\ pc = "idle" /\ pn = Null /\ start = {} /\ visited = {}

-----------------------------------------------------------------------------

\* IntrusiveListNode::new
New(n) ==
  /\ pc = "idle" /\ n \notin alive
  /\ alive' = alive \cup {n}
  /\ next' = [next EXCEPT ![n] = Null] /\ prev' = [prev EXCEPT ![n] = Null]
  /\ UNCHANGED walk

\* Seeded fault: the head does not learn of its new last node.
LinkTailForgotten(n) ==
  /\ pc = "idle" /\ n \in alive /\ ~IsLinked(n)
  /\ LET p == IF IsLinked(head) THEN prev[head] ELSE head
     IN /\ next' = [next EXCEPT ![p] = n, ![n] = head]
        /\ prev' = [prev EXCEPT ![n] = p,
                                ![head] = IF IsLinked(head) THEN @ ELSE head]
  /\ UNCHANGED <<alive, walk>>

\* Seeded fault: the node is put in front.
LinkFront(n) ==
  /\ pc = "idle" /\ n \in alive /\ ~IsLinked(n)
  /\ LET q == IF IsLinked(head) THEN next[head] ELSE head
     IN /\ next' = [next EXCEPT ![head] = n, ![n] = q]
        /\ prev' = [prev EXCEPT ![n] = head, ![q] = n]
  /\ UNCHANGED <<alive, walk>>

\* The node goes between the last node and the head, which points to itself
\* once anything was linked; a node that is linked already stays.
Link(n) ==
  /\ pc = "idle" /\ n \in alive /\ ~IsLinked(n)
  /\ LET p == IF IsLinked(head) THEN prev[head] ELSE head
     IN /\ next' = [next EXCEPT ![p] = n, ![n] = head]
        /\ prev' = [prev EXCEPT ![n] = p, ![head] = n]
  /\ UNCHANGED <<alive, walk>>

\* Stitch the neighbours of a linked leaf together and clear its pointers.
Stitch(n) ==
  /\ next' = [next EXCEPT ![prev[n]] = next[n], ![n] = Null]
  /\ prev' = [prev EXCEPT ![next[n]] = prev[n], ![n] = Null]

Unlink(n) ==
  /\ pc = "idle" /\ n \in alive /\ IsLinked(n)
  /\ Stitch(n)
  /\ UNCHANGED <<alive, walk>>

\* Seeded fault: a node goes without a word.
DropLinked(n) ==
  /\ pc = "idle" /\ n \in alive
  /\ alive' = alive \ {n}
  /\ UNCHANGED <<links, walk>>

\* A node unlinks itself before its memory goes.
Drop(n) ==
  /\ pc = "idle" /\ n \in alive
  /\ IF IsLinked(n) THEN Stitch(n) ELSE UNCHANGED links
  /\ alive' = alive \ {n}
  /\ UNCHANGED walk

-----------------------------------------------------------------------------
(* filter                                                                  *)

FilterBegin ==
  /\ pc = "idle" /\ IsLinked(head)
  /\ pc' = "filter" /\ pn' = next[head]
  /\ start' = {n \in Leaves : IsLinked(n)} /\ visited' = {}
  /\ UNCHANGED <<links, alive>>

\* The closure is called on the node, and keeps it.
FilterKeep ==
  /\ pc = "filter" /\ pn # head
  /\ pn' = next[pn]
  /\ visited' = visited \cup {pn}
  /\ UNCHANGED <<links, alive, pc, start>>

\* Seeded fault: the walk goes on from the node it has unlinked.
FilterRejectLate ==
  /\ pc = "filter" /\ pn # head
  /\ Stitch(pn)
  /\ pn' = next'[pn]
  /\ visited' = visited \cup {pn}
  /\ UNCHANGED <<alive, pc, start>>

\* Or it rejects it: the walk has read the next pointer before.
FilterReject ==
  /\ pc = "filter" /\ pn # head
  /\ Stitch(pn)
  /\ pn' = next[pn]
  /\ visited' = visited \cup {pn}
  /\ UNCHANGED <<alive, pc, start>>

FilterEnd ==
  /\ pc = "filter" /\ pn = head
  /\ pc' = "idle"
  /\ UNCHANGED <<links, alive, pn, start, visited>>

-----------------------------------------------------------------------------
(* unlink of the head, which its drop does too                             *)

TeardownBegin ==
  /\ pc = "idle"
  /\ pc' = "teardown"
  /\ UNCHANGED <<links, alive, pn, start, visited>>

TeardownLeaf ==
  /\ pc = "teardown" /\ next[head] \notin {Null, head}
  /\ Stitch(next[head])
  /\ UNCHANGED <<alive, walk>>

TeardownEnd ==
  /\ pc = "teardown" /\ next[head] \in {Null, head}
  /\ next' = [next EXCEPT ![head] = Null] /\ prev' = [prev EXCEPT ![head] = Null]
  /\ pc' = "idle"
  /\ UNCHANGED <<alive, pn, start, visited>>

-----------------------------------------------------------------------------

Next ==
  \/ \E n \in Leaves : New(n) \/ Link(n) \/ Unlink(n) \/ Drop(n)
  \/ FilterBegin \/ FilterKeep \/ FilterReject \/ FilterEnd
  \/ TeardownBegin \/ TeardownLeaf \/ TeardownEnd

Spec == Init /\ [][Next]_vars

-----------------------------------------------------------------------------
(* Safety.                                                                 *)

\* The neighbours of a linked node are linked, point back at it, and are the
\* head or leaves whose memory is still there.
WellLinked == \A n \in Nodes : IsLinked(n) =>
  /\ next[n] \in alive \cup {head} /\ prev[next[n]] = n
  /\ prev[n] \in alive \cup {head} /\ next[prev[n]] = n

\* Whoever follows next from the head meets every linked node: a set with the
\* head that is closed under next has them all.
ClosedUnder(succ, S) == \A n \in S : succ[n] \in S \cup {Null}
Reachable == \A S \in SUBSET Nodes :
  head \in S /\ ClosedUnder(next, S) => \A n \in Nodes : IsLinked(n) => n \in S

\* filter calls its closure once on every node that was linked when it began,
\* whichever it unlinks on the way, and on no other.
VisitsEach == pc = "filter" =>
  /\ visited \subseteq start
  /\ IF pn = head THEN visited = start ELSE pn \in start \ visited

-----------------------------------------------------------------------------
(* Refinement.                                                             *)

\* s lists the leaves that next leads past on its way from the head back to it.
At(s, i) == IF i \in DOMAIN s THEN s[i] ELSE head
OnRing(s) ==
  IF IsLinked(head) THEN \A i \in 0..Len(s) : next[At(s, i)] = At(s, i + 1)
  ELSE s = <<>>

Contents == CHOOSE s \in SeqOf(Leaves, Cardinality(Leaves)) : OnRing(s)

\* The ring implements the list.
Promise == INSTANCE NodeList WITH list <- Contents
ImplementsList == Promise!Spec
=============================================================================
