SPECIFICATION Spec
CONSTANTS
  Users = {u1}
  Poller = poller
  NoThread = NoThread
  NTasks = 1
  MaxWakes = 1
INVARIANT PollerIsTold
