SPECIFICATION UpdateFairSpec
CONSTANTS
  Workers = {w1}
  Updaters = {"user", "auto", "package"}
  None = None
  Broken = {2}
  MaxVersion = 3
  MaxFaults = 2
INVARIANTS
  UpdateAlone
  RunnableKept
  QuietUntilRestart
PROPERTY AdmissionReopens
CHECK_DEADLOCK FALSE
