SPECIFICATION FairSpec
CONSTANTS
  NEvents = 4
  Whitelisted = {2}
  Modes = {TRUE, FALSE}
  Capacity = 1
  WaitCapacity = 2
  Retries = 2
  NDirs = 2
INVARIANTS TypeOK Accounted ListenerWaits EachInOrder OvertakenOnce
PROPERTY DispatchCompletes
