CONSTANTS
  daemon = daemon
  cli = cli
  Procs = {daemon, cli}
  Daemon = daemon
  Ports = {443, 9428, 9429}
  MaxFacts = 1
  MaxLate = 1
SPECIFICATION FairSpec
INVARIANT TypeOK
PROPERTIES NotBackAlone Converges FileHeals
