CONSTANTS
  Procs = {"install"}
  KeyIds = {k1, k2, k3}
  NoKey = NoKey
  JunkKey = JunkKey
  Life = 38
  RenewDays = 30
  EnrollDays = 7
  Week = 7
  MaxMissed = 1
  Faults = {"crash", "disk", "api", "noca", "nocert", "badca"}
SPECIFICATION AgentSpec
INVARIANTS TypeOK KeyMatches
