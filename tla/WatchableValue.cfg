SPECIFICATION FairSpec
CONSTANTS
  Watchers = {w1, w2, w3}
  Tasks = {t1, t2}
  NoTask = NoTask
  MaxVersion = 4
INVARIANT ToldOfChange
PROPERTIES
  ImplementsLatestValue
  EverySeesLatest
