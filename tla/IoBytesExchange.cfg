SPECIFICATION FairSpec
CONSTANTS
  MaxBytes = 4
  MaxResets = 2
INVARIANTS
  ReaderWoken
  WriterWoken
PROPERTIES
  ImplementsByteStream
  WriterReleased
  BytesLeave
