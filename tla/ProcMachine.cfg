SPECIFICATION FairSpec
CONSTANTS
  Users = {u1, u2}
  Poller = poller
  NoThread = NoThread
  NTasks = 2
  MaxWakes = 2
INVARIANTS
  NoLostWake
  SectionDrained
  TickFlagOwned
  AliveMaskExact
  StrandedOnlyByRace
PROPERTIES
  ImplementsScheduler
  WakesServed
  DrivenServes
  DrivenFinishes
