CONSTANTS
  daemon = daemon
  Procs = {daemon}
  Daemon = daemon
  Limit = 2
  MaxTime = 4
  MaxFail = 1
  MaxRetries = 1
  Faults = {"crash", "save", "alertfile", "clock", "answer"}
SPECIFICATION Spec
INVARIANTS TypeOK StateFileWhole
PROPERTY StoreSpec
