CONSTANTS
  daemon = daemon
  Procs = {daemon}
  Daemon = daemon
  Limit = 2
  MaxTime = 5
  MaxFail = 2
  MaxRetries = 1
  Faults = {"crash", "save", "answer"}
SPECIFICATION Spec
INVARIANT AlertMeansStale
PROPERTY LastOKNeverGoesBack
