CONSTANTS
  daemon = daemon
  Procs = {daemon}
  Daemon = daemon
  Limit = 2
  MaxTime = 6
  MaxFail = 2
  MaxRetries = 1
  Faults = {"answer"}
SPECIFICATION FairSpec
INVARIANTS AlertAgrees NoSilentOutage
PROPERTY OutageAlerted
