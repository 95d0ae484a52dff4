SPECIFICATION Spec
CONSTANTS
  Leaves = {n1, n2, n3, n4}
  head = head
  Null = Null
INVARIANTS
  WellLinked
  Reachable
  VisitsEach
PROPERTY ImplementsList
