SPECIFICATION PortSpec
CONSTANT MaxResets = 2
CHECK_DEADLOCK FALSE
INVARIANTS
  ConnectTold
  EndIsFinal
