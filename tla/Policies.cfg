SPECIFICATION Spec
CONSTANTS
  Hour = 2
  Day = 8
INVARIANTS NextIsDue PlanLongest VerdictAgrees EvidenceSound NormalizedRunnable
CHECK_DEADLOCK FALSE
