SPECIFICATION FairSpec
CONSTANTS
  MaxItems = 3
  MaxResets = 2
INVARIANTS
  ReaderWoken
  WriterWoken
PROPERTIES
  ImplementsChannel
  WriterReleased
  ItemLeaves
