SPECIFICATION Spec
CONSTANTS
  Nonces = {n1, n2}
  TableSize = 1
  Window = 1
  Envelope = 2
  DailyLimit = 1
  MonthlyLimit = 2
  TicksPerDay = 1
  DaysPerMonth = 2
  MaxTime = 2
  MaxTests = 2
  MaxFaults = 1
  MaxClaims = 2
INVARIANTS
  RunOncePerNonce
  LedgerCoversSpend
  ScheduledWithinBudget
  
  
