CONSTANTS
  daemon = daemon
  oneshot = oneshot
  Procs = {daemon, oneshot}
  Daemon = daemon
  Limit = 1
  MaxTime = 2
  MaxFail = 1
  MaxRetries = 1
  Faults = {}
SPECIFICATION FairSpec
PROPERTY RecoveryHeals
