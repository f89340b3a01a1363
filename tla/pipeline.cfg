CONSTANTS
  Hosts <- MCHosts
  Manual <- MCManual
  Lines <- MCLines
  Entries <- MCEntries
SPECIFICATION Spec
INVARIANTS TypeOK EachFileOnce OffsetsApart NothingElseLost MarkedIsError
  PriorityKept
