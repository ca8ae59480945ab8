SPECIFICATION Spec
CONSTANTS
  NEvents = 3
  Whitelisted = {}
  Modes = {FALSE}
  Capacity = 2
  WaitCapacity = 2
  Retries = 2
  NDirs = 1
INVARIANT WaiterRegistered
