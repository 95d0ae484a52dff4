------------------------ MODULE IntrusiveListProofs -------------------------
(***************************************************************************)
(* Theorems about the ring, for any set of leaves.  That every linked node *)
(* is on the way from the head is stated with closed sets: an induction    *)
(* along the ring becomes the choice of a set.  Then the sequence of the   *)
(* leaves on the ring, with least elements in place of an induction.       *)
(***************************************************************************)
EXTENDS IntrusiveList, SequenceTheorems, FiniteSetTheorems, TLAPS

\* What the operations need to know of the pointers.
LinkTypes ==
  /\ next \in [Nodes -> Pointers] /\ prev \in [Nodes -> Pointers]
  /\ \A n \in Nodes : next[n] = Null <=> prev[n] = Null
  /\ alive \subseteq Leaves

Ring == LinkTypes /\ WellLinked /\ Reachable

LEMMA LinkedLive ==
  ASSUME LinkTypes, WellLinked, NEW n \in Nodes, IsLinked(n)
  PROVE  /\ n \in alive \cup {head}
         /\ next[n] \in Nodes /\ IsLinked(next[n]) /\ prev[next[n]] = n
         /\ prev[n] \in Nodes /\ IsLinked(prev[n]) /\ next[prev[n]] = n
<1> USE NodesAssumption DEF LinkTypes, Nodes, Pointers
<1>1. /\ next[n] \in Nodes /\ prev[next[n]] = n
      /\ prev[n] \in Nodes /\ next[prev[n]] = n
  BY DEF WellLinked
<1>2. IsLinked(next[n]) /\ IsLinked(prev[n])
  BY <1>1 DEF IsLinked
<1>3. n \in alive \cup {head}
  BY <1>1, <1>2 DEF WellLinked
<1> QED BY <1>1, <1>2, <1>3

\* The head is linked whenever a leaf is, and no linked leaf points to itself.
LEMMA HeadLinked ==
  ASSUME Ring, NEW n \in Leaves, IsLinked(n)
  PROVE  IsLinked(head) /\ next[n] # n /\ prev[n] # n
<1> USE NodesAssumption DEF Ring, Nodes
<1>1. IsLinked(head)
  <2> SUFFICES ASSUME ~IsLinked(head) PROVE FALSE
    OBVIOUS
  <2>1. next[head] = Null
    BY DEF IsLinked, LinkTypes
  <2>2. ClosedUnder(next, {head})
    BY <2>1 DEF ClosedUnder
  <2>3. n \in {head}
    BY <2>2 DEF Reachable
  <2> QED BY <2>3
<1>2. next[n] # n
  <2> SUFFICES ASSUME next[n] = n PROVE FALSE
    OBVIOUS
  <2> DEFINE S == Nodes \ {n}
  <2>1. ASSUME NEW m \in S PROVE next[m] \in S \cup {Null}
    <3>1. CASE IsLinked(m)
      <4>1. next[m] \in Nodes /\ prev[next[m]] = m
        BY <3>1, LinkedLive
      <4>2. prev[n] = n
        BY LinkedLive
      <4> QED BY <4>1, <4>2
    <3>2. CASE ~IsLinked(m)
      BY <3>2 DEF IsLinked, LinkTypes
    <3> QED BY <3>1, <3>2
  <2>2. ClosedUnder(next, S) /\ head \in S /\ S \in SUBSET Nodes
    BY <2>1 DEF ClosedUnder
  <2>3. n \in S
    BY <2>2 DEF Reachable
  <2> QED BY <2>3
<1>3. prev[n] # n
  BY <1>2, LinkedLive
<1> QED BY <1>1, <1>2, <1>3

\* Taking a leaf out leaves a ring of the others, and touches nothing but its
\* neighbours.
LEMMA StitchKeeps ==
  ASSUME Ring, NEW n \in Leaves, IsLinked(n), Stitch(n), alive' \subseteq alive,
         alive \ {n} \subseteq alive'
  PROVE  /\ Ring'
         /\ \A m \in Nodes : IsLinked(m)' <=> IsLinked(m) /\ m # n
         /\ \A m \in Nodes \ {n} :
              next'[m] = IF m = prev[n] THEN next[n] ELSE next[m]
         /\ \A m \in Nodes \ {n} :
              prev'[m] = IF m = next[n] THEN prev[n] ELSE prev[m]
<1> USE NodesAssumption DEF Ring
<1> DEFINE p == prev[n]
           q == next[n]
<1>1. /\ p \in Nodes \ {n} /\ q \in Nodes \ {n} /\ n \in Nodes
      /\ next[p] = n /\ prev[q] = n /\ IsLinked(p) /\ IsLinked(q)
      /\ n \in alive
  BY LinkedLive, HeadLinked DEF Nodes
<1>2. /\ \A m \in Nodes \ {n} : next'[m] = IF m = p THEN q ELSE next[m]
      /\ \A m \in Nodes \ {n} : prev'[m] = IF m = q THEN p ELSE prev[m]
      /\ next'[n] = Null /\ prev'[n] = Null
      /\ next' \in [Nodes -> Pointers] /\ prev' \in [Nodes -> Pointers]
  BY <1>1 DEF Stitch, LinkTypes, Pointers
<1>3. \A m \in Nodes : IsLinked(m)' <=> IsLinked(m) /\ m # n
  BY <1>1, <1>2 DEF IsLinked, Nodes
<1>4. LinkTypes'
  <2>1. ASSUME NEW m \in Nodes PROVE next'[m] = Null <=> prev'[m] = Null
    BY <1>1, <1>2 DEF LinkTypes, IsLinked, Nodes
  <2> QED BY <1>2, <2>1 DEF LinkTypes
<1>5. WellLinked'
  <2> SUFFICES ASSUME NEW m \in Nodes, IsLinked(m)'
               PROVE  /\ next'[m] \in alive' \cup {head} /\ prev'[next'[m]] = m
                      /\ prev'[m] \in alive' \cup {head} /\ next'[prev'[m]] = m
    BY Zenon DEF WellLinked
  <2>1. IsLinked(m) /\ m # n
    BY <1>3
  <2>2. /\ next[m] \in Nodes /\ prev[next[m]] = m /\ next[m] \in alive \cup {head}
        /\ prev[m] \in Nodes /\ next[prev[m]] = m /\ prev[m] \in alive \cup {head}
    BY <2>1, LinkedLive DEF WellLinked
  <2>3. p \in alive \cup {head} /\ q \in alive \cup {head}
    BY <1>1 DEF WellLinked
  <2>4. next'[m] \in alive' \cup {head} /\ prev'[next'[m]] = m
    <3>1. CASE m = p
      BY <3>1, <1>1, <1>2, <2>1, <2>3
    <3>2. CASE m # p
      <4>1. next'[m] = next[m] /\ next[m] # n /\ next[m] # q
        BY <3>2, <1>1, <1>2, <2>1, <2>2
      <4> QED BY <4>1, <1>2, <2>2
    <3> QED BY <3>1, <3>2
  <2>5. prev'[m] \in alive' \cup {head} /\ next'[prev'[m]] = m
    <3>1. CASE m = q
      BY <3>1, <1>1, <1>2, <2>1, <2>3
    <3>2. CASE m # q
      <4>1. prev'[m] = prev[m] /\ prev[m] # n /\ prev[m] # p
        BY <3>2, <1>1, <1>2, <2>1, <2>2
      <4> QED BY <4>1, <1>2, <2>2
    <3> QED BY <3>1, <3>2
  <2> QED BY <2>4, <2>5
<1>6. Reachable'
  <2> SUFFICES ASSUME NEW S \in SUBSET Nodes, head \in S, ClosedUnder(next', S),
                      NEW m \in Nodes, IsLinked(m), m # n
               PROVE  m \in S
    BY <1>3, Zenon DEF Reachable
  \* The same set, with n if its predecessor is in it, was closed before.
  <2> DEFINE T == IF p \in S THEN S \cup {n} ELSE S \ {n}
  <2>1. ASSUME NEW k \in T PROVE next[k] \in T \cup {Null}
    <3>0. n \in T <=> p \in S
      BY <1>1
    <3>1. CASE k = n
      <4>1. p \in S
        BY <3>1, <3>0
      <4>2. q \in S \cup {Null}
        BY <4>1, <1>1, <1>2 DEF ClosedUnder
      <4> QED BY <4>1, <4>2, <3>1
    <3>2. CASE k # n /\ k = p
      BY <3>2, <1>1
    <3>3. CASE k # n /\ k # p
      <4>1. k \in S /\ k \in Nodes
        BY <3>3
      <4>2. next[k] \in S \cup {Null}
        BY <4>1, <3>3, <1>2 DEF ClosedUnder
      <4>3. next[k] # n
        <5> SUFFICES ASSUME next[k] = n PROVE FALSE
          OBVIOUS
        <5>1. IsLinked(k)
          BY <1>1, <4>1 DEF IsLinked, LinkTypes, Nodes
        <5> QED BY <5>1, <4>1, LinkedLive, <3>3
      <4> QED BY <4>2, <4>3
    <3> QED BY <3>1, <3>2, <3>3
  <2>2. T \in SUBSET Nodes /\ head \in T /\ ClosedUnder(next, T)
    BY <2>1, <1>1 DEF ClosedUnder, Nodes
  <2>3. m \in T
    BY <2>2 DEF Reachable
  <2> QED BY <2>3
<1> QED BY <1>2, <1>3, <1>4, <1>5, <1>6
\* Putting a leaf in at the tail makes a ring with it.
LEMMA LinkKeeps ==
  ASSUME Ring, NEW n \in Leaves, Link(n)
  PROVE  Ring'
<1> USE NodesAssumption DEF Ring
<1> DEFINE p == IF IsLinked(head) THEN prev[head] ELSE head
<1>1. n \in alive /\ ~IsLinked(n) /\ n # head /\ n \in Nodes /\ head \in Nodes
      /\ alive' = alive
  BY DEF Link, Nodes
<1>2. /\ p \in Nodes \ {n} /\ p \in alive \cup {head}
      /\ IsLinked(head) => IsLinked(p) /\ next[p] = head
      /\ ~IsLinked(head) => p = head /\ \A m \in Nodes : ~IsLinked(m)
  <2>1. CASE IsLinked(head)
    BY <2>1, <1>1, LinkedLive
  <2>2. CASE ~IsLinked(head)
    <3>1. \A m \in Nodes : ~IsLinked(m)
      BY <2>2, HeadLinked DEF Nodes
    <3> QED BY <2>2, <3>1, <1>1
  <2> QED BY <2>1, <2>2
<1>3. /\ \A m \in Nodes :
           next'[m] = IF m = n THEN head ELSE IF m = p THEN n ELSE next[m]
      /\ \A m \in Nodes :
           prev'[m] = IF m = head THEN n ELSE IF m = n THEN p ELSE prev[m]
      /\ next' \in [Nodes -> Pointers] /\ prev' \in [Nodes -> Pointers]
  BY <1>1, <1>2 DEF Link, LinkTypes, Pointers
<1>4. \A m \in Nodes : next[m] # n /\ prev[m] # n
  <2> SUFFICES ASSUME NEW m \in Nodes, next[m] = n \/ prev[m] = n PROVE FALSE
    OBVIOUS
  <2>1. IsLinked(m)
    BY DEF IsLinked, LinkTypes, Nodes
  <2> QED BY <2>1, <1>1, LinkedLive
<1>5. \A m \in Nodes : IsLinked(m)' <=> IsLinked(m) \/ m \in {n, head}
  <2> SUFFICES ASSUME NEW m \in Nodes
               PROVE  (prev'[m] # Null /\ next'[m] # Null) <=> IsLinked(m) \/ m \in {n, head}
    BY Zenon DEF IsLinked
  <2>1. CASE m \in {n, head}
    BY <2>1, <1>1, <1>2, <1>3 DEF IsLinked, LinkTypes, Nodes
  <2>2. CASE m \notin {n, head}
    BY <2>2, <1>1, <1>2, <1>3 DEF IsLinked, LinkTypes, Nodes
  <2> QED BY <2>1, <2>2
<1>6. LinkTypes'
  <2>1. ASSUME NEW m \in Nodes PROVE next'[m] = Null <=> prev'[m] = Null
    <3>1. CASE m \in {n, head}
      BY <3>1, <1>1, <1>2, <1>3 DEF LinkTypes, Nodes, IsLinked
    <3>2. CASE m \notin {n, head} /\ m = p
      BY <3>2, <1>1, <1>2, <1>3 DEF LinkTypes, Nodes, IsLinked
    <3>3. CASE m \notin {n, head} /\ m # p
      BY <3>3, <1>3 DEF LinkTypes
    <3> QED BY <3>1, <3>2, <3>3
  <2> QED BY <1>1, <1>3, <2>1 DEF LinkTypes
<1>7. WellLinked'
  <2> SUFFICES ASSUME NEW m \in Nodes, IsLinked(m)'
               PROVE  /\ next'[m] \in alive \cup {head} /\ prev'[next'[m]] = m
                      /\ prev'[m] \in alive \cup {head} /\ next'[prev'[m]] = m
    BY <1>1, Zenon DEF WellLinked
  <2>1. CASE m = n
    BY <2>1, <1>1, <1>2, <1>3
  <2>2. CASE m # n
    <3>1. IsLinked(m) \/ m = head
      BY <2>2, <1>5
    <3>2. next'[m] \in alive \cup {head} /\ prev'[next'[m]] = m
      <4>1. CASE m = p
        BY <4>1, <2>2, <1>1, <1>2, <1>3
      <4>2. CASE m # p
        <5>1. IsLinked(m)
          BY <4>2, <3>1, <1>2
        <5>2. /\ next[m] \in Nodes /\ prev[next[m]] = m
              /\ next[m] \in alive \cup {head}
          BY <5>1, LinkedLive DEF WellLinked
        <5>3. next[m] # head
          BY <4>2, <5>1, <5>2, <1>1, <1>2, LinkedLive
        <5> QED BY <4>2, <2>2, <5>2, <5>3, <1>3, <1>4
      <4> QED BY <4>1, <4>2
    <3>3. prev'[m] \in alive \cup {head} /\ next'[prev'[m]] = m
      <4>1. CASE m = head
        BY <4>1, <1>1, <1>3
      <4>2. CASE m # head
        <5>1. IsLinked(m)
          BY <4>2, <3>1
        <5>2. /\ prev[m] \in Nodes /\ next[prev[m]] = m
              /\ prev[m] \in alive \cup {head}
          BY <5>1, LinkedLive DEF WellLinked
        <5>3. prev[m] # p
          BY <4>2, <5>1, <5>2, <1>2
        <5> QED BY <4>2, <2>2, <5>2, <5>3, <1>3, <1>4
      <4> QED BY <4>1, <4>2
    <3> QED BY <3>2, <3>3
  <2> QED BY <2>1, <2>2
<1>8. Reachable'
  <2> SUFFICES ASSUME NEW S \in SUBSET Nodes, head \in S, ClosedUnder(next', S),
                      NEW m \in Nodes, IsLinked(m) \/ m \in {n, head}
               PROVE  m \in S
    BY <1>5, Zenon DEF Reachable
  \* Without the new leaf the set was closed before.
  <2> DEFINE T == S \ {n}
  <2>1. ASSUME NEW k \in T PROVE next[k] \in T \cup {Null}
    <3>1. CASE k = p
      BY <3>1, <1>1, <1>2 DEF IsLinked, LinkTypes
    <3>2. CASE k # p
      <4>1. next[k] = next'[k] /\ next[k] # n
        BY <3>2, <1>3, <1>4
      <4> QED BY <4>1 DEF ClosedUnder
    <3> QED BY <3>1, <3>2
  <2>2. T \in SUBSET Nodes /\ head \in T /\ ClosedUnder(next, T)
    BY <2>1, <1>1 DEF ClosedUnder
  <2>3. \A k \in Nodes : IsLinked(k) => k \in T
    BY <2>2 DEF Reachable
  <2>4. p \in S
    BY <2>3, <1>2
  <2>5. n \in S
    BY <2>4, <1>1, <1>2, <1>3 DEF ClosedUnder
  <2> QED BY <2>3, <2>5
<1> QED BY <1>6, <1>7, <1>8

\* The head may forget its ring once it is the only one on it.
LEMMA ClearHeadKeeps ==
  ASSUME Ring, next[head] \in {Null, head}, alive' = alive,
         next' = [next EXCEPT ![head] = Null], prev' = [prev EXCEPT ![head] = Null]
  PROVE  Ring'
<1> USE NodesAssumption DEF Ring, Nodes
<1>1. ClosedUnder(next, {head})
  BY DEF ClosedUnder
<1>2. \A m \in Leaves : ~IsLinked(m)
  BY <1>1 DEF Reachable
<1>3. /\ \A m \in Leaves : next'[m] = next[m] /\ prev'[m] = prev[m]
      /\ next'[head] = Null /\ prev'[head] = Null
      /\ next' \in [Nodes -> Pointers] /\ prev' \in [Nodes -> Pointers]
  BY DEF LinkTypes, Pointers
<1>4. \A m \in Nodes : ~IsLinked(m)'
  BY <1>2, <1>3 DEF IsLinked
<1>5. LinkTypes'
  BY <1>3 DEF LinkTypes
<1> QED BY <1>4, <1>5, Zenon DEF WellLinked, Reachable
-----------------------------------------------------------------------------
(* The walk of filter.                                                     *)

WalkTypes ==
  /\ pc \in {"idle", "filter", "teardown"} /\ pn \in Pointers
  /\ start \subseteq Leaves /\ visited \subseteq Leaves

\* What is linked was there at the start, and what was not visited is still
\* linked.  Behind the walk are the head and visited nodes, and nothing else.
WalkInv == pc = "filter" =>
  /\ IsLinked(head)
  /\ visited \subseteq start
  /\ \A n \in Leaves : IsLinked(n) => n \in start
  /\ \A n \in start \ visited : IsLinked(n)
  /\ pn = head \/ pn \in start \ visited
  /\ \A n \in visited \cup {head} : IsLinked(n) => next[n] \in visited \cup {head, pn}
  /\ \A n \in visited : IsLinked(n) => prev[n] \in visited \cup {head}
  /\ pn # head => prev[pn] \in visited \cup {head}

Inv == Ring /\ WalkTypes /\ WalkInv

\* What is next after an unvisited node is the head or was not visited either.
LEMMA NextUnvisited ==
  ASSUME Inv, pc = "filter", pn # head
  PROVE  /\ pn \in Leaves /\ IsLinked(pn) /\ pn \notin visited
         /\ next[pn] \in Nodes /\ next[pn] \notin visited \cup {pn}
         /\ prev[pn] \in Nodes /\ prev[pn] \in visited \cup {head}
         /\ IsLinked(next[pn])
<1> USE NodesAssumption DEF Inv, WalkInv, WalkTypes, Ring, Nodes
<1>1. pn \in Leaves /\ IsLinked(pn) /\ pn \notin visited
  OBVIOUS
<1>2. /\ next[pn] \in Nodes /\ IsLinked(next[pn]) /\ prev[next[pn]] = pn
      /\ prev[pn] \in Nodes /\ next[pn] # pn
  BY <1>1, LinkedLive, HeadLinked
<1>3. next[pn] \notin visited
  BY <1>1, <1>2
<1> QED BY <1>1, <1>2, <1>3

LEMMA KeepStep ==
  ASSUME Inv, FilterKeep
  PROVE  Inv'
<1> USE NodesAssumption DEF Nodes
<1>1. /\ pc = "filter" /\ pn # head /\ pc' = pc /\ start' = start
      /\ pn' = next[pn] /\ visited' = visited \cup {pn}
      /\ UNCHANGED <<next, prev, alive>>
  BY DEF FilterKeep, links
<1>2. \A n : IsLinked(n)' <=> IsLinked(n)
  BY <1>1 DEF IsLinked
<1>3. Ring'
  BY <1>1, <1>2, Zenon DEF Inv, Ring, LinkTypes, WellLinked, Reachable
<1>4. /\ pn \in Leaves /\ IsLinked(pn) /\ pn \notin visited
      /\ next[pn] \in Nodes /\ next[pn] \notin visited \cup {pn}
      /\ prev[pn] \in Nodes /\ prev[pn] \in visited \cup {head}
      /\ IsLinked(next[pn]) /\ prev[next[pn]] = pn
  BY <1>1, NextUnvisited, LinkedLive DEF Inv, Ring
<1>5. WalkTypes'
  BY <1>1, <1>4 DEF Inv, WalkTypes, Pointers
<1>6. WalkInv'
  <2>1. next[pn] = head \/ next[pn] \in start \ visited'
    BY <1>1, <1>4 DEF Inv, WalkInv
  <2>2. \A n \in visited' \cup {head} : IsLinked(n) => next[n] \in visited' \cup {head, pn'}
    BY <1>1, <1>4 DEF Inv, WalkInv
  <2>3. \A n \in visited' : IsLinked(n) => prev[n] \in visited' \cup {head}
    BY <1>1, <1>4 DEF Inv, WalkInv
  <2>4. pn' # head => prev[pn'] \in visited' \cup {head}
    BY <1>1, <1>4
  <2>5. /\ IsLinked(head) /\ visited' \subseteq start
        /\ \A n \in Leaves : IsLinked(n) => n \in start
        /\ \A n \in start \ visited' : IsLinked(n)
    BY <1>1, <1>4 DEF Inv, WalkInv
  <2> QED BY <1>1, <1>2, <2>1, <2>2, <2>3, <2>4, <2>5, Zenon DEF WalkInv
<1> QED BY <1>3, <1>5, <1>6 DEF Inv

LEMMA RejectStep ==
  ASSUME Inv, FilterReject
  PROVE  Inv'
<1> USE NodesAssumption DEF Nodes
<1> DEFINE p == prev[pn]
           q == next[pn]
<1>1. /\ pc = "filter" /\ pn # head /\ pc' = pc /\ start' = start
      /\ pn' = q /\ visited' = visited \cup {pn}
      /\ Stitch(pn) /\ alive' = alive
  BY DEF FilterReject
<1>2. /\ pn \in Leaves /\ IsLinked(pn) /\ pn \notin visited
      /\ q \in Nodes /\ q \notin visited \cup {pn}
      /\ p \in Nodes /\ p \in visited \cup {head} /\ p # pn
      /\ IsLinked(q)
  BY <1>1, NextUnvisited
<1>3. /\ Ring'
      /\ \A m \in Nodes : IsLinked(m)' <=> IsLinked(m) /\ m # pn
      /\ \A m \in Nodes \ {pn} : next'[m] = IF m = p THEN q ELSE next[m]
      /\ \A m \in Nodes \ {pn} : prev'[m] = IF m = q THEN p ELSE prev[m]
  BY <1>1, <1>2, StitchKeeps DEF Inv
<1>4. WalkTypes'
  BY <1>1, <1>2 DEF Inv, WalkTypes, Pointers
<1>5. WalkInv'
  <2> USE DEF Inv, WalkInv
  <2>0. visited \subseteq Leaves /\ start \subseteq Leaves
    BY DEF WalkTypes
  <2>1. q = head \/ q \in start \ visited'
    BY <1>1, <1>2
  <2>2. ASSUME NEW n \in visited' \cup {head}, IsLinked(n)'
        PROVE  next'[n] \in visited' \cup {head, q}
    <3>1. n \in Nodes /\ n # pn /\ IsLinked(n) /\ n \in visited \cup {head}
      BY <2>2, <2>0, <1>1, <1>2, <1>3
    <3>2. CASE n = p
      BY <3>1, <3>2, <1>3
    <3>3. CASE n # p
      BY <3>1, <3>3, <1>1, <1>3
    <3> QED BY <3>2, <3>3
  <2>3. ASSUME NEW n \in visited', IsLinked(n)'
        PROVE  prev'[n] \in visited' \cup {head}
    <3>1. n \in Nodes /\ n # pn /\ IsLinked(n) /\ n \in visited /\ n # q
      BY <2>3, <2>0, <1>1, <1>2, <1>3
    <3> QED BY <3>1, <1>1, <1>3
  <2>4. q # head => prev'[q] \in visited' \cup {head}
    BY <1>1, <1>2, <1>3
  <2>5. /\ IsLinked(head)' /\ visited' \subseteq start
        /\ \A n \in Leaves : IsLinked(n)' => n \in start
    BY <1>1, <1>2, <1>3
  <2>6. \A n \in start \ visited' : IsLinked(n)'
    BY <2>0, <1>1, <1>2, <1>3
  <2> QED BY <1>1, <2>1, <2>2, <2>3, <2>4, <2>5, <2>6, Zenon
<1> QED BY <1>3, <1>4, <1>5 DEF Inv
\* The walk begins at the first node behind the head.
LEMMA BeginStep ==
  ASSUME Inv, FilterBegin
  PROVE  Inv'
<1> USE NodesAssumption DEF Nodes
<1>1. /\ IsLinked(head) /\ pc' = "filter" /\ pn' = next[head]
      /\ start' = {n \in Leaves : IsLinked(n)} /\ visited' = {}
      /\ UNCHANGED <<next, prev, alive>>
  BY DEF FilterBegin, links
<1>2. \A n : IsLinked(n)' <=> IsLinked(n)
  BY <1>1 DEF IsLinked
<1>3. Ring'
  BY <1>1, <1>2, Zenon DEF Inv, Ring, LinkTypes, WellLinked, Reachable
<1>4. next[head] \in Nodes /\ IsLinked(next[head]) /\ prev[next[head]] = head
  BY <1>1, LinkedLive DEF Inv, Ring
<1>5. WalkTypes'
  BY <1>1, <1>4 DEF WalkTypes, Pointers
<1>6. WalkInv'
  <2>1. pn' = head \/ pn' \in start' \ visited'
    BY <1>1, <1>4
  <2>2. pn' # head => prev[pn'] \in visited' \cup {head}
    BY <1>1, <1>4
  <2>3. \A n \in visited' \cup {head} : IsLinked(n) => next[n] \in visited' \cup {head, pn'}
    BY <1>1
  <2>4. /\ visited' \subseteq start'
        /\ \A n \in Leaves : IsLinked(n) => n \in start'
        /\ \A n \in start' \ visited' : IsLinked(n)
        /\ \A n \in visited' : IsLinked(n) => prev[n] \in visited' \cup {head}
    BY <1>1
  <2> QED BY <1>1, <1>2, <2>1, <2>2, <2>3, <2>4, Zenon DEF WalkInv
<1> QED BY <1>3, <1>5, <1>6 DEF Inv

LEMMA InvInit == Init => Inv
<1> SUFFICES ASSUME Init PROVE Inv
  OBVIOUS
<1> USE NodesAssumption DEF Nodes
<1>1. \A n \in Nodes : next[n] = Null /\ prev[n] = Null
  BY DEF Init
<1>2. LinkTypes
  BY <1>1 DEF Init, LinkTypes, Pointers
<1>3. \A n \in Nodes : ~IsLinked(n)
  BY <1>1 DEF IsLinked
<1>4. WellLinked /\ Reachable
  BY <1>3 DEF WellLinked, Reachable
<1>5. WalkTypes /\ WalkInv
  BY DEF Init, WalkTypes, WalkInv, Pointers
<1> QED BY <1>2, <1>4, <1>5 DEF Inv, Ring

\* Outside of filter the ring is all there is to keep.
LEMMA Idle ==
  ASSUME Inv, Ring', pc' # "filter", pc' \in {"idle", "teardown"},
         UNCHANGED <<pn, start, visited>>
  PROVE  Inv'
BY DEF Inv, WalkTypes, WalkInv

LEMMA InvStep == Inv /\ [Next]_vars => Inv'
<1> SUFFICES ASSUME Inv, [Next]_vars PROVE Inv'
  OBVIOUS
<1> USE NodesAssumption
<1>r. Ring
  BY DEF Inv
<1>1. ASSUME NEW n \in Leaves, New(n) PROVE Inv'
  <2>1. ~IsLinked(n) /\ n \in Nodes
    BY <1>1, <1>r, LinkedLive DEF New, Nodes, Ring
  <2>2. next[n] = Null /\ prev[n] = Null
    BY <2>1, <1>r DEF IsLinked, Ring, LinkTypes
  <2>3. UNCHANGED <<next, prev>> /\ alive' = alive \cup {n} /\ UNCHANGED walk
        /\ pc = "idle"
    BY <1>1, <2>1, <2>2, <1>r DEF New, Ring, LinkTypes
  <2>4. \A m : IsLinked(m)' <=> IsLinked(m)
    BY <2>3 DEF IsLinked
  <2>5. LinkTypes' /\ Reachable'
    BY <2>3, <2>4, <1>r, Zenon DEF Ring, LinkTypes, Reachable
  <2>6. WellLinked'
    BY <2>3, <2>4, <1>r DEF Ring, WellLinked
  <2> QED BY <2>3, <2>5, <2>6, Idle DEF Ring, walk
<1>2. ASSUME NEW n \in Leaves, Link(n) PROVE Inv'
  <2>1. Ring'
    BY <1>2, <1>r, LinkKeeps
  <2> QED BY <1>2, <2>1, Idle DEF Link, walk
<1>3. ASSUME NEW n \in Leaves, Unlink(n) PROVE Inv'
  <2>1. Ring'
    BY <1>3, <1>r, StitchKeeps DEF Unlink
  <2> QED BY <1>3, <2>1, Idle DEF Unlink, walk
<1>4. ASSUME NEW n \in Leaves, Drop(n) PROVE Inv'
  <2>1. CASE IsLinked(n)
    <3>1. Ring'
      BY <1>4, <2>1, <1>r, StitchKeeps DEF Drop
    <3> QED BY <1>4, <3>1, Idle DEF Drop, walk
  <2>2. CASE ~IsLinked(n)
    <3>1. UNCHANGED <<next, prev>> /\ alive' = alive \ {n}
      BY <1>4, <2>2 DEF Drop, links
    <3>2. \A m : IsLinked(m)' <=> IsLinked(m)
      BY <3>1 DEF IsLinked
    <3>3. LinkTypes' /\ Reachable'
      BY <3>1, <3>2, <1>r, Zenon DEF Ring, LinkTypes, Reachable
    <3>4. \A m \in Nodes : IsLinked(m) => next[m] # n /\ prev[m] # n
      BY <2>2, <1>r, LinkedLive DEF Ring
    <3>5. WellLinked'
      BY <3>1, <3>2, <3>4, <1>r DEF Ring, WellLinked
    <3> QED BY <1>4, <3>3, <3>5, Idle DEF Ring, Drop, walk
  <2> QED BY <2>1, <2>2
<1>5. CASE FilterBegin
  BY <1>5, BeginStep
<1>6. CASE FilterKeep
  BY <1>6, KeepStep
<1>7. CASE FilterReject
  BY <1>7, RejectStep
<1>8. CASE FilterEnd \/ TeardownBegin
  <2>1. UNCHANGED <<next, prev, alive>>
    BY <1>8 DEF FilterEnd, TeardownBegin, links
  <2>2. \A m : IsLinked(m)' <=> IsLinked(m)
    BY <2>1 DEF IsLinked
  <2>3. Ring'
    BY <2>1, <2>2, <1>r, Zenon DEF Ring, LinkTypes, WellLinked, Reachable
  <2> QED BY <1>8, <2>3, Idle DEF FilterEnd, TeardownBegin
<1>9. CASE TeardownLeaf
  <2>1. next[head] \in Leaves /\ IsLinked(next[head])
    <3>1. IsLinked(head)
      BY <1>9, <1>r DEF TeardownLeaf, Ring, LinkTypes, IsLinked, Nodes
    <3> QED BY <1>9, <3>1, <1>r, LinkedLive DEF TeardownLeaf, Ring, Nodes
  <2>2. Ring'
    BY <1>9, <2>1, <1>r, StitchKeeps DEF TeardownLeaf
  <2> QED BY <1>9, <2>2, Idle DEF TeardownLeaf, walk
<1>10. CASE TeardownEnd
  <2>1. Ring'
    BY <1>10, <1>r, ClearHeadKeeps DEF TeardownEnd
  <2> QED BY <1>10, <2>1, Idle DEF TeardownEnd
<1>11. CASE UNCHANGED vars
  <2>1. UNCHANGED <<next, prev, alive, pc, pn, start, visited>>
    BY <1>11 DEF vars, links, walk
  <2>2. \A m : IsLinked(m)' <=> IsLinked(m)
    BY <2>1 DEF IsLinked
  <2>3. Ring'
    BY <2>1, <2>2, <1>r, Zenon DEF Ring, LinkTypes, WellLinked, Reachable
  <2>4. WalkTypes' /\ WalkInv'
    BY <2>1, <2>2, Zenon DEF Inv, WalkTypes, WalkInv
  <2> QED BY <2>3, <2>4 DEF Inv
<1> QED
  BY <1>1, <1>2, <1>3, <1>4, <1>5, <1>6, <1>7, <1>8, <1>9, <1>10, <1>11 DEF Next

-----------------------------------------------------------------------------

\* The pointers of a node are set and cleared in pairs, and the walk keeps its
\* types.
THEOREM TypeCorrect == Spec => []TypeOK
<1>1. Inv => TypeOK
  BY DEF Inv, Ring, LinkTypes, WalkTypes, TypeOK
<1> QED BY <1>1, InvInit, InvStep, PTL DEF Spec

\* No pointer of the ring dangles, and next and prev are each other's inverse.
THEOREM PointersAgree == Spec => []WellLinked
<1>1. Inv => WellLinked
  BY DEF Inv, Ring
<1> QED BY <1>1, InvInit, InvStep, PTL DEF Spec

\* There is one ring, and every linked node is on it.
THEOREM OneRing == Spec => []Reachable
<1>1. Inv => Reachable
  BY DEF Inv, Ring
<1> QED BY <1>1, InvInit, InvStep, PTL DEF Spec

\* filter calls its closure once on every node that was linked.
THEOREM FilterVisitsEach == Spec => []VisitsEach
<1>1. ASSUME Inv PROVE VisitsEach
  <2> USE NodesAssumption DEF Nodes
  <2> SUFFICES ASSUME pc = "filter"
               PROVE  /\ visited \subseteq start
                      /\ IF pn = head THEN visited = start ELSE pn \in start \ visited
    BY DEF VisitsEach
  <2>1. visited \subseteq start /\ (pn # head => pn \in start \ visited)
    BY <1>1 DEF Inv, WalkInv
  <2>2. ASSUME pn = head PROVE start \subseteq visited
    <3> DEFINE S == visited \cup {head}
    <3>1. S \in SUBSET Nodes
      BY <1>1 DEF Inv, WalkTypes
    <3>2. ClosedUnder(next, S)
      <4> SUFFICES ASSUME NEW n \in S PROVE next[n] \in S \cup {Null}
        BY DEF ClosedUnder
      <4>1. CASE IsLinked(n)
        BY <4>1, <2>2, <1>1 DEF Inv, WalkInv
      <4>2. CASE ~IsLinked(n)
        BY <4>2, <3>1, <1>1 DEF IsLinked, Inv, Ring, LinkTypes
      <4> QED BY <4>1, <4>2
    <3>3. \A n \in Nodes : IsLinked(n) => n \in S
      BY <3>1, <3>2, <1>1 DEF Inv, Ring, Reachable
    <3>4. \A n \in start \ visited : n \in Leaves /\ IsLinked(n)
      BY <1>1 DEF Inv, WalkInv, WalkTypes
    <3> QED BY <3>3, <3>4
  <2> QED BY <2>1, <2>2
<1> QED BY <1>1, InvInit, InvStep, PTL DEF Spec

-----------------------------------------------------------------------------
(* Induction over the natural numbers, in the form of their least elements: a  *)
(* set takes the place of the property.                                        *)

Below == {p \in Nat \X Nat : p[1] < p[2]}

\* A set of natural numbers that is not empty has a least element.
LEMMA Least ==
  ASSUME NEW T, T \subseteq Nat, T # {}
  PROVE  \E n \in T : \A m \in T : n <= m
<1>1. Below = OpToRel(<, Nat)
  BY Zenon DEF Below, OpToRel
<1>2. IsWellFoundedOn(Below, Nat)
  BY <1>1, NatLessThanWellFounded, Zenon
<1>3. PICK n \in T : \A m \in T : ~(<<m, n>> \in Below)
  BY <1>2, WFMin, Zenon
<1>4. ASSUME NEW m \in T PROVE n <= m
  <2>1. n \in Nat /\ m \in Nat /\ ~(<<m, n>> \in Below)
    BY <1>3
  <2> QED
    BY <2>1 DEF Below
<1> QED
  BY <1>4

-----------------------------------------------------------------------------
(* The list that the ring stands for.                                      *)

\* What At(s, _) does along the ring.
LEMMA AtOnRing ==
  ASSUME Ring, NEW s \in Seq(Leaves), OnRing(s), IsLinked(head)
  PROVE  /\ Len(s) \in Nat
         /\ At(s, 0) = head /\ At(s, Len(s) + 1) = head
         /\ \A i \in 1..Len(s) : At(s, i) = s[i] /\ s[i] \in Leaves
         /\ \A i \in 0..Len(s) : /\ At(s, i) \in Nodes /\ next[At(s, i)] = At(s, i + 1)
                                 /\ prev[At(s, i + 1)] = At(s, i)
<1>1. Len(s) \in Nat /\ DOMAIN s = 1..Len(s) /\ \A i \in 1..Len(s) : s[i] \in Leaves
  BY LenProperties, ElementOfSeq
<1>2. \A i \in 0..Len(s) : next[At(s, i)] = At(s, i + 1)
  BY DEF OnRing
<1>3. \A i \in Nat : At(s, i) \in Nodes
  BY <1>1 DEF At, Nodes
<1>4. ASSUME NEW i \in 0..Len(s) PROVE prev[At(s, i + 1)] = At(s, i)
  <2>1. At(s, i) \in Nodes /\ At(s, i + 1) \in Nodes /\ next[At(s, i)] = At(s, i + 1)
    BY <1>1, <1>2, <1>3
  <2>2. IsLinked(At(s, i))
    BY <2>1, NodesAssumption DEF Ring, LinkTypes, IsLinked, Nodes
  <2> QED
    BY <2>1, <2>2, LinkedLive DEF Ring
<1> QED
  BY <1>1, <1>2, <1>3, <1>4 DEF At

\* The way from the head meets no leaf twice.
LEMMA OnRingOnce ==
  ASSUME Ring, NEW s \in Seq(Leaves), OnRing(s)
  PROVE  \A i, j \in 1..Len(s) : s[i] = s[j] => i = j
<1> SUFFICES ASSUME NEW a \in 1..Len(s), NEW b \in 1..Len(s), s[a] = s[b], a # b
             PROVE  FALSE
  OBVIOUS
<1>1. IsLinked(head)
  BY EmptySeq DEF OnRing
<1>2. /\ Len(s) \in Nat /\ At(s, 0) = head
      /\ \A i \in 1..Len(s) : At(s, i) = s[i] /\ s[i] \in Leaves
      /\ \A i \in 0..Len(s) : prev[At(s, i + 1)] = At(s, i)
  BY <1>1, AtOnRing
<1> DEFINE T == {i \in 1..Len(s) : \E j \in 1..Len(s) : i < j /\ s[i] = s[j]}
<1>3. T \subseteq Nat /\ T # {}
  <2>1. a \in Nat /\ b \in Nat /\ (a < b \/ b < a)
    BY <1>2
  <2>2. a \in T \/ b \in T
    BY <2>1
  <2>3. T \subseteq Nat
    BY <1>2
  <2> QED
    BY <2>2, <2>3
<1>4. PICK i \in T : \A m \in T : i <= m
  <2> HIDE DEF T
  <2> QED
    BY <1>3, Least
<1>5. PICK j \in 1..Len(s) : i < j /\ s[i] = s[j]
  OBVIOUS
<1>n. i \in 1..Len(s) /\ i \in Nat /\ j \in Nat
  BY <1>2
<1>m. \A m \in 1..Len(s), k \in 1..Len(s) : m < k /\ s[m] = s[k] => i <= m
  BY <1>4
<1> HIDE DEF T
<1>6. At(s, i - 1) = At(s, j - 1)
  <2>1. i - 1 \in 0..Len(s) /\ j - 1 \in 0..Len(s) /\ (i - 1) + 1 = i /\ (j - 1) + 1 = j
    BY <1>2, <1>5, <1>n
  <2> QED
    BY <1>2, <1>5, <1>n, <2>1
<1>7. CASE i = 1
  <2>1. j - 1 \in 1..Len(s) /\ i - 1 = 0
    BY <1>2, <1>5, <1>n, <1>7
  <2>2. At(s, j - 1) \in Leaves /\ At(s, i - 1) = head
    BY <1>2, <2>1
  <2> QED
    BY <1>6, <2>2, NodesAssumption
<1>8. CASE i # 1
  <2>1. i - 1 \in 1..Len(s) /\ j - 1 \in 1..Len(s) /\ i - 1 < j - 1
    BY <1>2, <1>5, <1>n, <1>8
  <2>2. s[i - 1] = s[j - 1]
    BY <1>2, <1>6, <2>1
  <2>3. i <= i - 1
    BY <1>m, <2>1, <2>2
  <2> QED
    BY <1>n, <2>3
<1> QED
  BY <1>7, <1>8

\* There is one way around the ring.
LEMMA OnRingUnique ==
  ASSUME Ring, NEW s \in Seq(Leaves), OnRing(s), NEW t \in Seq(Leaves), OnRing(t)
  PROVE  s = t
<1>1. CASE ~IsLinked(head)
  BY <1>1 DEF OnRing
<1>2. CASE IsLinked(head)
  <2>1. /\ Len(s) \in Nat /\ At(s, 0) = head /\ At(s, Len(s) + 1) = head
        /\ \A i \in 1..Len(s) : At(s, i) = s[i] /\ s[i] \in Leaves
        /\ \A i \in 0..Len(s) : next[At(s, i)] = At(s, i + 1)
    BY <1>2, AtOnRing
  <2>2. /\ Len(t) \in Nat /\ At(t, 0) = head /\ At(t, Len(t) + 1) = head
        /\ \A i \in 1..Len(t) : At(t, i) = t[i] /\ t[i] \in Leaves
        /\ \A i \in 0..Len(t) : next[At(t, i)] = At(t, i + 1)
    BY <1>2, AtOnRing
  <2> DEFINE T == {i \in Nat : i <= Len(s) /\ i <= Len(t) /\ At(s, i) # At(t, i)}
  <2>3. T = {}
    <3> SUFFICES ASSUME T # {} PROVE FALSE
      OBVIOUS
    <3>1. PICK i \in T : \A m \in T : i <= m
      <4>1. T \subseteq Nat
        OBVIOUS
      <4> HIDE DEF T
      <4> QED
        BY <4>1, Least
    <3>2. i # 0 /\ i - 1 \in Nat /\ i - 1 \in 0..Len(s) /\ i - 1 \in 0..Len(t)
          /\ (i - 1) + 1 = i
      BY <2>1, <2>2
    <3>3. At(s, i - 1) = At(t, i - 1)
      BY <3>1, <3>2, <2>1, <2>2
    <3>4. At(s, i) = At(t, i)
      BY <3>2, <3>3, <2>1, <2>2
    <3> QED
      BY <3>4
  <2>4. \A i \in Nat : i <= Len(s) /\ i <= Len(t) => At(s, i) = At(t, i)
    BY <2>3
  <2> HIDE DEF T
  <2>5. ~(Len(s) < Len(t))
    <3> SUFFICES ASSUME Len(s) < Len(t) PROVE FALSE
      OBVIOUS
    <3>1. At(t, Len(s) + 1) = At(s, Len(s) + 1)
      BY <2>1, <2>2, <2>4
    <3>2. Len(s) + 1 \in 1..Len(t)
      BY <2>1, <2>2
    <3> QED
      BY <2>1, <2>2, <3>1, <3>2, NodesAssumption
  <2>6. ~(Len(t) < Len(s))
    <3> SUFFICES ASSUME Len(t) < Len(s) PROVE FALSE
      OBVIOUS
    <3>1. At(s, Len(t) + 1) = At(t, Len(t) + 1)
      BY <2>1, <2>2, <2>4
    <3>2. Len(t) + 1 \in 1..Len(s)
      BY <2>1, <2>2
    <3> QED
      BY <2>1, <2>2, <3>1, <3>2, NodesAssumption
  <2>7. Len(s) = Len(t)
    BY <2>1, <2>2, <2>5, <2>6
  <2>8. \A i \in 1..Len(s) : s[i] = t[i]
    BY <2>1, <2>2, <2>4, <2>7
  <2> QED
    BY <2>7, <2>8, SeqEqual
<1> QED
  BY <1>1, <1>2

\* Whoever lists the ring lists its contents: the list is no longer than there
\* are leaves.
LEMMA ContentsIs ==
  ASSUME Ring, NEW s \in Seq(Leaves), OnRing(s)
  PROVE  Contents = s
<1> DEFINE n == Len(s)
           Lists == SeqOf(Leaves, Cardinality(Leaves))
<1>1. n \in Nat /\ s \in [1..n -> Leaves]
  BY LenProperties
<1>2. s \in Injection(1..n, Leaves)
  BY <1>1, OnRingOnce DEF Injection, IsInjective
<1>3. Cardinality(1..n) <= Cardinality(Leaves) /\ Cardinality(1..n) = n
      /\ Cardinality(Leaves) \in Nat
  <2>1. Cardinality(1..n) <= Cardinality(Leaves)
    BY <1>2, FiniteLeaves, FS_Injection
  <2>2. Cardinality(1..n) = n
    BY <1>1, FS_Interval
  <2>3. Cardinality(Leaves) \in Nat
    BY FiniteLeaves, FS_CardinalityType
  <2> QED
    BY <2>1, <2>2, <2>3
<1>4. s \in Lists
  BY <1>1, <1>3 DEF SeqOf
<1>5. \A t \in Lists : t \in Seq(Leaves)
  BY <1>3, SeqDef DEF SeqOf
<1>6. Contents \in Lists /\ OnRing(Contents)
  BY <1>4 DEF Contents
<1> QED
  BY <1>5, <1>6, OnRingUnique

\* A leaf is linked exactly if the way from the head meets it.
LEMMA OnRingLinked ==
  ASSUME Ring, NEW s \in Seq(Leaves), OnRing(s)
  PROVE  \A n \in Leaves : IsLinked(n) <=> \E i \in 1..Len(s) : s[i] = n
<1>1. CASE ~IsLinked(head)
  <2>1. s = <<>> /\ Len(s) = 0
    BY <1>1, EmptySeq DEF OnRing
  <2> QED
    BY <1>1, <2>1, HeadLinked
<1>2. CASE IsLinked(head)
  <2>1. /\ Len(s) \in Nat /\ At(s, 0) = head /\ At(s, Len(s) + 1) = head
        /\ \A i \in 1..Len(s) : At(s, i) = s[i] /\ s[i] \in Leaves
        /\ \A i \in 0..Len(s) : /\ At(s, i) \in Nodes /\ next[At(s, i)] = At(s, i + 1)
                                /\ prev[At(s, i + 1)] = At(s, i)
    BY <1>2, AtOnRing
  <2> DEFINE S == {At(s, i) : i \in 0..Len(s)}
  <2>2. S \in SUBSET Nodes /\ head \in S
    BY <2>1
  <2>3. ASSUME NEW i \in 0..Len(s) PROVE next[At(s, i)] \in S
    <3>1. next[At(s, i)] = At(s, i + 1) /\ i \in Nat
      BY <2>1
    <3>2. CASE i = Len(s)
      BY <2>1, <2>2, <3>1, <3>2
    <3>3. CASE i # Len(s)
      <4>1. i + 1 \in 0..Len(s)
        BY <2>1, <3>3
      <4> QED
        BY <3>1, <4>1
    <3> QED
      BY <3>2, <3>3
  <2>4. ClosedUnder(next, S)
    BY <2>3 DEF ClosedUnder
  <2>5. ASSUME NEW n \in Leaves, IsLinked(n) PROVE \E i \in 1..Len(s) : s[i] = n
    <3>1. n \in S
      BY <2>2, <2>4, <2>5 DEF Ring, Reachable, Nodes
    <3>2. PICK i \in 0..Len(s) : n = At(s, i)
      BY <3>1
    <3>3. i # 0
      BY <2>1, <3>2, NodesAssumption
    <3>4. i \in 1..Len(s)
      BY <2>1, <3>3
    <3> QED
      BY <2>1, <3>2, <3>4
  <2>6. ASSUME NEW i \in 1..Len(s) PROVE IsLinked(s[i])
    <3>1. /\ s[i] \in Nodes /\ next[s[i]] = At(s, i + 1) /\ i \in Nat
      BY <2>1
    <3>2. At(s, i + 1) \in Nodes
      <4>1. CASE i = Len(s)
        BY <4>1, <2>1 DEF Nodes
      <4>2. CASE i # Len(s)
        <5>1. i + 1 \in 1..Len(s)
          BY <2>1, <4>2
        <5> QED
          BY <2>1, <5>1 DEF Nodes
      <4> QED
        BY <4>1, <4>2
    <3> QED
      BY <3>1, <3>2, NodesAssumption DEF IsLinked, Ring, LinkTypes, Nodes
  <2> QED
    BY <2>5, <2>6
<1> QED
  BY <1>1, <1>2

\* A node that is linked comes last.
LEMMA LinkAppends ==
  ASSUME Ring, NEW n \in Leaves, Link(n), NEW s \in Seq(Leaves), OnRing(s)
  PROVE  OnRing(Append(s, n))'
<1> DEFINE p == IF IsLinked(head) THEN prev[head] ELSE head
           t == Append(s, n)
<1>1. /\ ~IsLinked(n) /\ n \in Nodes /\ head \in Nodes /\ n # head
      /\ next' = [next EXCEPT ![p] = n, ![n] = head] /\ next \in [Nodes -> Pointers]
      /\ IsLinked(head)'
  BY NodesAssumption DEF Link, Ring, LinkTypes, Nodes, IsLinked
<1>2. /\ t \in Seq(Leaves) /\ Len(t) = Len(s) + 1 /\ Len(s) \in Nat
      /\ \A i \in 1..Len(s) : t[i] = s[i]
      /\ t[Len(s) + 1] = n
      /\ DOMAIN t = 1..(Len(s) + 1) /\ DOMAIN s = 1..Len(s)
  BY AppendProperties, LenProperties
<1> HIDE DEF t
<1>3. /\ \A i \in 0..Len(s) : At(t, i) = At(s, i)
      /\ At(t, Len(s) + 1) = n /\ At(t, Len(s) + 2) = head
  BY <1>2 DEF At
<1>4. \A i \in 0..Len(t) : next'[At(t, i)] = At(t, i + 1)
  <2>1. CASE ~IsLinked(head)
    <3>1. Len(s) = 0 /\ p = head
      BY <2>1, EmptySeq DEF OnRing
    <3>2. At(t, 0) = head /\ At(t, 1) = n /\ At(t, 2) = head
      BY <1>2, <1>3, <3>1 DEF At
    <3>3. next'[head] = n /\ next'[n] = head
      BY <1>1, <3>1
    <3> QED
      BY <1>2, <3>1, <3>2, <3>3
  <2>2. CASE IsLinked(head)
    <3>1. /\ At(s, 0) = head /\ At(s, Len(s) + 1) = head
          /\ \A i \in 1..Len(s) : At(s, i) = s[i] /\ s[i] \in Leaves
          /\ \A i \in 0..Len(s) : /\ At(s, i) \in Nodes /\ next[At(s, i)] = At(s, i + 1)
                                  /\ prev[At(s, i + 1)] = At(s, i)
      BY <2>2, AtOnRing
    <3>2. p = At(s, Len(s)) /\ p \in Nodes
      BY <1>2, <2>2, <3>1
    <3>3. \A i \in 1..Len(s) : s[i] # n
      BY <1>1, OnRingLinked
    <3>4. \A i \in 0..Len(s) : At(s, i) # n
      BY <1>1, <1>2, <3>1, <3>3
    <3>5. ASSUME NEW i \in 0..Len(s), i # Len(s) PROVE next'[At(t, i)] = At(t, i + 1)
      <4>1. i + 1 \in 1..Len(s) /\ i + 1 \in 0..Len(s)
        BY <1>2, <3>5
      <4>2. At(s, i) # p
        BY <1>2, <3>1, <3>2, <4>1, NodesAssumption
      <4>3. next'[At(s, i)] = next[At(s, i)]
        BY <1>1, <3>1, <3>4, <4>2
      <4> QED
        BY <1>3, <3>1, <4>1, <4>3
    <3>6. next'[At(t, Len(s))] = n
      BY <1>1, <1>2, <1>3, <3>2, <3>4
    <3>7. next'[n] = head
      BY <1>1
    <3> QED
      <4> SUFFICES ASSUME NEW i \in 0..(Len(s) + 1) PROVE next'[At(t, i)] = At(t, i + 1)
        BY <1>2
      <4>1. CASE i = Len(s) + 1
        BY <1>2, <1>3, <3>7, <4>1
      <4>2. CASE i = Len(s)
        BY <1>2, <1>3, <3>6, <4>2
      <4>3. CASE i # Len(s) /\ i # Len(s) + 1
        <5>1. Len(s) \in Nat
          BY <1>2
        <5>2. i \in 0..Len(s)
          BY <4>3, <5>1
        <5> QED
          BY <3>5, <4>3, <5>2
      <4> QED
        BY <4>1, <4>2, <4>3
  <2> QED
    BY <2>1, <2>2
<1> QED
  BY <1>1, <1>4 DEF OnRing, At, t

\* What a sequence is without its i-th element.
LEMMA Removal ==
  ASSUME NEW S, NEW s \in Seq(S), NEW i \in 1..Len(s)
  PROVE  /\ RemoveAt(s, i) \in Seq(S) /\ Len(RemoveAt(s, i)) = Len(s) - 1
         /\ \A j \in 1..(Len(s) - 1) :
              RemoveAt(s, i)[j] = IF j < i THEN s[j] ELSE s[j + 1]
<1> DEFINE a == SubSeq(s, 1, i - 1)
           b == SubSeq(s, i + 1, Len(s))
<1>1. Len(s) \in Nat /\ i \in Nat /\ \A j \in 1..Len(s) : s[j] \in S
  BY LenProperties, ElementOfSeq
<1>2. /\ a \in Seq(S) /\ Len(a) = i - 1
      /\ \A j \in 1..(i - 1) : a[j] = s[j]
  <2>1. \A j \in 1..(i - 1) : s[j] \in S
    BY <1>1
  <2>2. /\ SubSeq(s, 1, i - 1) \in Seq(S)
        /\ Len(SubSeq(s, 1, i - 1)) = IF 1 <= i - 1 THEN (i - 1) - 1 + 1 ELSE 0
        /\ \A j \in 1..((i - 1) - 1 + 1) : SubSeq(s, 1, i - 1)[j] = s[1 + j - 1]
    <3>1. 1 \in Int /\ i - 1 \in Int
      BY <1>1
    <3> QED
      BY <2>1, <3>1, SubSeqProperties
  <2> QED
    BY <1>1, <2>2
<1>3. /\ b \in Seq(S) /\ Len(b) = Len(s) - i
      /\ \A j \in 1..(Len(s) - i) : b[j] = s[i + j]
  <2>1. \A j \in (i + 1)..Len(s) : s[j] \in S
    BY <1>1
  <2>2. /\ SubSeq(s, i + 1, Len(s)) \in Seq(S)
        /\ Len(SubSeq(s, i + 1, Len(s)))
             = IF i + 1 <= Len(s) THEN Len(s) - (i + 1) + 1 ELSE 0
        /\ \A j \in 1..(Len(s) - (i + 1) + 1) :
             SubSeq(s, i + 1, Len(s))[j] = s[(i + 1) + j - 1]
    <3>1. i + 1 \in Int /\ Len(s) \in Int
      BY <1>1
    <3> QED
      BY <2>1, <3>1, SubSeqProperties
  <2> QED
    BY <1>1, <2>2
<1> HIDE DEF a, b
<1>4. /\ a \o b \in Seq(S) /\ Len(a \o b) = Len(a) + Len(b)
      /\ \A j \in 1..(Len(a) + Len(b)) :
           (a \o b)[j] = IF j <= Len(a) THEN a[j] ELSE b[j - Len(a)]
  BY <1>2, <1>3, ConcatProperties
<1>5. RemoveAt(s, i) = a \o b
  BY DEF RemoveAt, a, b
<1>6. ASSUME NEW j \in 1..(Len(s) - 1)
      PROVE  (a \o b)[j] = IF j < i THEN s[j] ELSE s[j + 1]
  <2>1. (a \o b)[j] = IF j <= Len(a) THEN a[j] ELSE b[j - Len(a)]
    BY <1>1, <1>2, <1>3, <1>4
  <2>2. CASE j < i
    BY <1>1, <1>2, <2>1, <2>2
  <2>3. CASE ~(j < i)
    <3>1. j - (i - 1) \in 1..(Len(s) - i) /\ i + (j - (i - 1)) = j + 1
      BY <1>1, <2>3
    <3>2. b[j - (i - 1)] = s[j + 1]
      BY <1>3, <3>1
    <3> QED
      BY <1>1, <1>2, <2>1, <2>3, <3>2
  <2> QED
    BY <2>2, <2>3
<1>7. Len(a \o b) = Len(s) - 1
  BY <1>1, <1>2, <1>3, <1>4
<1> QED
  BY <1>4, <1>5, <1>6, <1>7

\* A leaf that is stitched out leaves the others in their order.
LEMMA StitchRemoves ==
  ASSUME Ring, NEW n \in Leaves, IsLinked(n), Stitch(n), alive' \subseteq alive,
         alive \ {n} \subseteq alive',
         NEW s \in Seq(Leaves), OnRing(s), NEW i \in 1..Len(s), s[i] = n
  PROVE  OnRing(RemoveAt(s, i))'
<1> DEFINE t == RemoveAt(s, i)
<1>1. /\ IsLinked(head) /\ IsLinked(head)'
      /\ \A m \in Nodes \ {n} : next'[m] = IF m = prev[n] THEN next[n] ELSE next[m]
  BY HeadLinked, StitchKeeps, NodesAssumption DEF Nodes
<1>2. /\ Len(s) \in Nat /\ At(s, 0) = head /\ At(s, Len(s) + 1) = head
      /\ \A j \in 1..Len(s) : At(s, j) = s[j] /\ s[j] \in Leaves
      /\ \A j \in 0..Len(s) : /\ At(s, j) \in Nodes /\ next[At(s, j)] = At(s, j + 1)
                              /\ prev[At(s, j + 1)] = At(s, j)
  BY <1>1, AtOnRing
<1>3. /\ t \in Seq(Leaves) /\ Len(t) = Len(s) - 1
      /\ \A j \in 1..(Len(s) - 1) : t[j] = IF j < i THEN s[j] ELSE s[j + 1]
      /\ DOMAIN t = 1..(Len(s) - 1)
  <2>1. /\ t \in Seq(Leaves) /\ Len(t) = Len(s) - 1
        /\ \A j \in 1..(Len(s) - 1) : t[j] = IF j < i THEN s[j] ELSE s[j + 1]
    BY Removal
  <2> HIDE DEF t
  <2> QED
    BY <2>1, LenProperties
<1> HIDE DEF t
<1>4. ASSUME NEW j \in 0..Len(s) PROVE At(t, j) = IF j < i THEN At(s, j) ELSE At(s, j + 1)
  <2>1. i \in Nat /\ Len(s) \in Nat /\ i <= Len(s) /\ 1 <= i
    BY <1>2
  <2>2. CASE j = 0
    BY <1>2, <1>3, <2>1, <2>2 DEF At
  <2>3. CASE j = Len(s)
    BY <1>2, <1>3, <2>1, <2>3 DEF At
  <2>4. CASE j # 0 /\ j # Len(s)
    <3>1. j \in 1..(Len(s) - 1) /\ j \in 1..Len(s) /\ j + 1 \in 1..Len(s)
      BY <2>1, <2>4
    <3>2. At(t, j) = t[j] /\ At(s, j) = s[j] /\ At(s, j + 1) = s[j + 1]
      BY <1>2, <1>3, <3>1 DEF At
    <3> QED
      BY <1>3, <3>1, <3>2
  <2> QED
    BY <2>2, <2>3, <2>4
<1>5. \A j, k \in 1..Len(s) : s[j] = s[k] => j = k
  BY OnRingOnce
<1>6. /\ prev[n] = At(s, i - 1) /\ next[n] = At(s, i + 1) /\ i - 1 \in 0..Len(s)
  <2>1. i \in Nat /\ i - 1 \in 0..Len(s) /\ i \in 0..Len(s) /\ (i - 1) + 1 = i
    BY <1>2
  <2> QED
    BY <1>2, <2>1
<1>7. ASSUME NEW j \in 0..Len(s), j # i PROVE At(s, j) \in Nodes \ {n}
  <2>1. CASE j = 0
    BY <1>2, <2>1, NodesAssumption
  <2>2. CASE j # 0
    <3>1. j \in 1..Len(s)
      BY <1>2, <2>2
    <3> QED
      BY <1>2, <1>5, <1>7, <3>1
  <2> QED
    BY <2>1, <2>2
<1>8. ASSUME NEW j \in 0..Len(s), j # i - 1 PROVE At(s, j) # At(s, i - 1)
  <2>1. i \in Nat /\ i - 1 \in Nat /\ i - 1 \in 0..Len(s)
    BY <1>2
  <2>2. CASE j = 0 \/ i - 1 = 0
    <3>1. \A k \in 1..Len(s) : At(s, k) # head
      BY <1>2, NodesAssumption
    <3> QED
      BY <1>2, <1>8, <2>1, <2>2, <3>1
  <2>3. CASE j # 0 /\ i - 1 # 0
    <3>1. j \in 1..Len(s) /\ i - 1 \in 1..Len(s)
      BY <1>2, <2>1, <2>3
    <3> QED
      BY <1>2, <1>5, <1>8, <3>1
  <2> QED
    BY <2>2, <2>3
<1>9. ASSUME NEW j \in 0..(Len(s) - 1) PROVE next'[At(t, j)] = At(t, j + 1)
  <2>1. i \in Nat /\ Len(s) \in Nat /\ j \in Nat /\ j \in 0..Len(s) /\ j + 1 \in 0..Len(s)
    BY <1>2
  <2>2. CASE j < i - 1
    <3>1. At(t, j) = At(s, j) /\ At(t, j + 1) = At(s, j + 1)
      BY <1>4, <2>1, <2>2
    <3>2. At(s, j) \in Nodes \ {n} /\ At(s, j) # prev[n]
      BY <1>6, <1>7, <1>8, <2>1, <2>2
    <3> QED
      BY <1>1, <1>2, <2>1, <3>1, <3>2
  <2>3. CASE j = i - 1
    <3>1. At(t, j) = At(s, i - 1) /\ At(t, j + 1) = At(s, i + 1)
      BY <1>4, <2>1, <2>3
    <3>2. At(s, i - 1) \in Nodes \ {n}
      BY <1>6, <1>7, <2>1
    <3> QED
      BY <1>1, <1>6, <3>1, <3>2
  <2>4. CASE j > i - 1
    <3>1. At(t, j) = At(s, j + 1) /\ At(t, j + 1) = At(s, (j + 1) + 1)
      BY <1>4, <2>1, <2>4
    <3>2. At(s, j + 1) \in Nodes \ {n} /\ At(s, j + 1) # prev[n]
      BY <1>6, <1>7, <1>8, <2>1, <2>4
    <3> QED
      BY <1>1, <1>2, <2>1, <3>1, <3>2
  <2> QED
    BY <2>1, <2>2, <2>3, <2>4
<1>10. \A j \in 0..Len(t) : next'[At(t, j)] = At(t, j + 1)
  BY <1>3, <1>9
<1> QED
  BY <1>1, <1>10 DEF OnRing, At, t

-----------------------------------------------------------------------------

\* The ring can be listed, and the contents are the list.
Listed == \E s \in Seq(Leaves) : OnRing(s)
ListIs == \A s \in Seq(Leaves) : OnRing(s) => Contents = s

LEMMA RingListIs == Inv => ListIs
BY ContentsIs DEF Inv, ListIs

\* A leaf that is stitched out leaves the list.
LEMMA StitchLeaves ==
  ASSUME Ring, Listed, ListIs, NEW n \in Leaves, IsLinked(n), Stitch(n),
         alive' \subseteq alive, alive \ {n} \subseteq alive'
  PROVE  Listed' /\ (ListIs' => \E i \in DOMAIN Contents : Promise!Leave(i))
<1>1. PICK s \in Seq(Leaves) : OnRing(s)
  BY DEF Listed
<1>2. PICK i \in 1..Len(s) : s[i] = n
  BY <1>1, OnRingLinked
<1>3. OnRing(RemoveAt(s, i))'
  BY <1>1, <1>2, StitchRemoves
<1>4. RemoveAt(s, i) \in Seq(Leaves) /\ DOMAIN s = 1..Len(s)
  BY Removal, LenProperties
<1>5. Contents = s
  BY <1>1 DEF ListIs
<1>6. ASSUME ListIs' PROVE Contents' = RemoveAt(s, i)
  BY <1>3, <1>4, <1>6 DEF ListIs
<1> QED
  BY <1>3, <1>4, <1>5, <1>6 DEF Listed, Promise!Leave, RemoveAt, Promise!RemoveAt

\* What does not touch the pointers does not touch the list.
LEMMA ListStays ==
  ASSUME UNCHANGED <<next, prev>>, Listed
  PROVE  Listed' /\ UNCHANGED Contents
<1>1. \A s : OnRing(s)' <=> OnRing(s)
  BY DEF OnRing, IsLinked
<1> QED
  BY <1>1, Zenon DEF Listed, Contents

\* The ring stays one that can be listed, and every step is a step of the list
\* or none.
LEMMA ListStep ==
  ASSUME Inv, Listed, ListIs, [Next]_vars
  PROVE  Listed' /\ (ListIs' => [Promise!Next]_Contents)
<1> USE NodesAssumption
<1>r. Ring
  BY DEF Inv
<1>p. ASSUME UNCHANGED <<next, prev>> PROVE Listed' /\ UNCHANGED Contents
  BY <1>p, ListStays
<1>l. ASSUME NEW n \in Leaves, IsLinked(n), Stitch(n), alive' \subseteq alive,
             alive \ {n} \subseteq alive'
      PROVE  Listed' /\ (ListIs' => Promise!Next)
  BY <1>l, <1>r, StitchLeaves DEF Promise!Next
<1>1. ASSUME NEW n \in Leaves, New(n) PROVE UNCHANGED <<next, prev>>
  <2>1. ~IsLinked(n) /\ n \in Nodes
    BY <1>1, <1>r, LinkedLive DEF New, Nodes, Ring
  <2>2. next[n] = Null /\ prev[n] = Null
    BY <2>1, <1>r DEF IsLinked, Ring, LinkTypes
  <2> QED
    BY <1>1, <2>1, <2>2, <1>r DEF New, Ring, LinkTypes
<1>2. ASSUME NEW n \in Leaves, Link(n) PROVE Listed' /\ (ListIs' => Promise!Next)
  <2>1. PICK s \in Seq(Leaves) : OnRing(s)
    BY DEF Listed
  <2>2. OnRing(Append(s, n))' /\ Append(s, n) \in Seq(Leaves)
    BY <1>2, <1>r, <2>1, LinkAppends, AppendProperties
  <2>3. \A i \in 1..Len(s) : s[i] # n
    BY <1>2, <1>r, <2>1, OnRingLinked DEF Link
  <2>4. Contents = s /\ n \notin ToSet(s)
    BY <2>1, <2>3, LenProperties DEF ListIs, ToSet
  <2>5. ASSUME ListIs' PROVE Contents' = Append(s, n)
    BY <2>2, <2>5 DEF ListIs
  <2> QED
    BY <2>2, <2>4, <2>5 DEF Listed, Promise!Next, Promise!Enter, ToSet, Promise!ToSet
<1>3. ASSUME NEW n \in Leaves, Unlink(n) PROVE Listed' /\ (ListIs' => Promise!Next)
  BY <1>3, <1>l DEF Unlink
<1>4. ASSUME NEW n \in Leaves, Drop(n) PROVE Listed' /\ (ListIs' => [Promise!Next]_Contents)
  <2>1. CASE IsLinked(n)
    BY <1>4, <2>1, <1>l DEF Drop
  <2>2. CASE ~IsLinked(n)
    BY <1>4, <2>2, <1>p DEF Drop, links
  <2> QED
    BY <2>1, <2>2
<1>5. CASE FilterBegin \/ FilterKeep \/ FilterEnd \/ TeardownBegin
  BY <1>5, <1>p DEF FilterBegin, FilterKeep, FilterEnd, TeardownBegin, links
<1>6. CASE FilterReject
  <2>1. pn \in Leaves /\ IsLinked(pn)
    BY <1>6, NextUnvisited DEF FilterReject
  <2> QED
    BY <1>6, <2>1, <1>l DEF FilterReject
<1>7. CASE TeardownLeaf
  <2>1. IsLinked(head)
    BY <1>7, <1>r DEF TeardownLeaf, Ring, LinkTypes, IsLinked, Nodes
  <2>2. next[head] \in Leaves /\ IsLinked(next[head])
    BY <1>7, <2>1, <1>r, LinkedLive DEF TeardownLeaf, Ring, Nodes
  <2> QED
    BY <1>7, <2>2, <1>l DEF TeardownLeaf
<1>8. CASE TeardownEnd
  <2>1. PICK s \in Seq(Leaves) : OnRing(s)
    BY DEF Listed
  <2>2. ~IsLinked(head)'
    BY <1>8, <1>r DEF TeardownEnd, IsLinked, Ring, LinkTypes, Nodes
  <2>3. OnRing(<<>>)' /\ <<>> \in Seq(Leaves)
    BY <2>2, EmptySeq DEF OnRing
  <2>4. s = <<>>
    <3>1. CASE ~IsLinked(head)
      BY <2>1, <3>1 DEF OnRing
    <3>2. CASE IsLinked(head)
      <4>1. next[head] = head
        BY <1>8, <3>2 DEF TeardownEnd, IsLinked
      <4>2. /\ Len(s) \in Nat /\ At(s, 0) = head
            /\ \A i \in 1..Len(s) : At(s, i) = s[i] /\ s[i] \in Leaves
            /\ \A i \in 0..Len(s) : next[At(s, i)] = At(s, i + 1)
        BY <1>r, <2>1, <3>2, AtOnRing
      <4>3. At(s, 1) = head
        <5>1. 0 \in 0..Len(s)
          BY <4>2
        <5> QED
          BY <4>1, <4>2, <5>1
      <4>4. Len(s) = 0
        <5>1. 1 \notin 1..Len(s)
          BY <4>2, <4>3
        <5> QED
          BY <4>2, <5>1
      <4> QED
        BY <4>4, EmptySeq
    <3> QED
      BY <3>1, <3>2
  <2>5. Contents = <<>>
    BY <2>1, <2>4 DEF ListIs
  <2>6. ASSUME ListIs' PROVE Contents' = <<>>
    BY <2>3, <2>6 DEF ListIs
  <2> QED
    BY <2>3, <2>5, <2>6 DEF Listed
<1>9. CASE UNCHANGED vars
  BY <1>9, <1>p DEF vars, links
<1> QED
  BY <1>1, <1>2, <1>3, <1>4, <1>5, <1>6, <1>7, <1>8, <1>9, <1>p DEF Next

\* The ring implements the list: what is linked, unlinked, dropped, filtered or
\* torn down enters at the tail or leaves, and the others keep their order.
THEOREM RingImplementsList == Spec => ImplementsList
<1>1. Init => Inv /\ Listed /\ Contents = <<>>
  <2> SUFFICES ASSUME Init PROVE Inv /\ Listed /\ Contents = <<>>
    OBVIOUS
  <2>1. OnRing(<<>>) /\ <<>> \in Seq(Leaves)
    BY EmptySeq DEF Init, OnRing, IsLinked, Nodes
  <2>2. Inv /\ ListIs
    BY InvInit, RingListIs
  <2> QED
    BY <2>1, <2>2 DEF Listed, ListIs
<1>2. Inv /\ Listed /\ [Next]_vars => Inv' /\ Listed'
  BY InvStep, ListStep, RingListIs
<1>3. Inv /\ Listed /\ ListIs /\ ListIs' /\ [Next]_vars => [Promise!Next]_Contents
  BY ListStep
<1>4. Init => Promise!Init
  BY <1>1 DEF Promise!Init
<1> QED
  BY <1>1, <1>2, <1>3, <1>4, RingListIs, PTL DEF Spec, ImplementsList, Promise!Spec
=============================================================================
