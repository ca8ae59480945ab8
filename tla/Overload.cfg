SPECIFICATION FairSpec
CONSTANTS
  Backends = {b1, b2}
  MaxRPS = 5
  MinRPSs = {1, 3}
  RaiseSteps = 4
  LowerSteps = 2
  Cap = 2
  MaxFlips = 3
INVARIANTS TypeOK FlagAgrees
PROPERTIES RateRecovers OverloadLowers
