CONSTANTS
  CheckEvery = 10
  RegisterEvery = 13
  CertEvery = 17
  MaxCheck = 1
  MaxRegister = 2
  MaxCert = 1
  WatchdogSec = 10
  Slack = 1
  RestartSec = 1
  Crashes = TRUE
SPECIFICATION FairSpec
INVARIANTS TypeOK ServedInTime StopsInTime CheckGap
PROPERTIES ComesBack EachJobAgain
