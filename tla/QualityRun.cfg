SPECIFICATION Spec
CONSTANTS
  MaxDown = 22
  MaxUp = 20
  ResponseReserve = 3
  ResponseBody = 2
  Streams = 2
  Block = 7
  MinPerStream = 6
  MinAllocation = 11
  MinBoth = 4
  Needs = {16, 40}
  Unit = 12
  WarmMax = 1
  ResponseShare = 8
  HouseholdReserve = 3
  ProbeShare = 15
  Reads = {0, 2}
  FixedProbes = 1
  MaxLoose = 1
INVARIANTS
  EnvelopeKept
  Accounted
