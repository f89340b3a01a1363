CONSTANTS
  Procs = {"daemon"}
  KeyIds = {k1, k2, k3}
  NoKey = NoKey
  JunkKey = JunkKey
  Life = 38
  RenewDays = 30
  EnrollDays = 7
  Week = 7
  MaxMissed = 0
  Faults = {}
SPECIFICATION Spec
INVARIANT PairBetweenRuns
