SPECIFICATION Spec
CONSTANTS
  MaxEnrollments = 2
INVARIANTS
  IntentSurvives
  NothingSentAfterWithdrawal
  ConsentOffMeansClean
  QueueOwnedByEnrollment
PROPERTIES
  NeverDowngraded
  NewEnrollmentSurvives
