CONSTANTS
  Hosts <- MCHosts
  Manual <- MCManual
  Lines <- MCLines
  Entries <- MCEntries
SPECIFICATION Spec
INVARIANT OnlyNoiseLost
