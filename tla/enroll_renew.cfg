CONSTANTS
  Procs = {"daemon"}
  KeyIds = {k1, k2, k3}
  NoKey = NoKey
  JunkKey = JunkKey
  Life = 38
  RenewDays = 30
  EnrollDays = 7
  Week = 7
  MaxMissed = 2
  Faults = {"noca", "nocert"}
SPECIFICATION AgentFairSpec
INVARIANTS AgentTypeOK NoLapse DownInWindowOnly
PROPERTIES FreshCertKept ReplacedWhenItEnds Recovers BackUp RestartsRefresh
