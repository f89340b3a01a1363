CONSTANTS
  MaxRuns = 2
  Reinstall = FALSE
  Faults = {"net", "death", "crash"}
SPECIFICATION Spec
INVARIANTS TypeOK InstalledRuns RunsWhatItWrote UninstallClean
