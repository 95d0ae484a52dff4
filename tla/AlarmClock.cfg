SPECIFICATION FairSpec
CONSTANTS
  Alarms = {a1, a2}
  MaxTime = 2
  NoTime = NoTime
INVARIANTS
  Registered
  AlarmExact
  MissedOnlyInWindow
  ArmedNeverMisses
PROPERTY AlarmsRing
