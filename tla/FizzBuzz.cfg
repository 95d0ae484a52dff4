SPECIFICATION FairSpec
CONSTANT LastNumber = 16
CHECK_DEADLOCK FALSE
INVARIANT InOrder
PROPERTY EverythingPrinted
