SPECIFICATION Spec
CONSTANTS
  Targets = {t1}
  MaxMinute = 2
  MaxNotes <- MCMaxNotes
  MaxStarts <- MCMaxStarts
  MaxWipes <- MCMaxWipes
INVARIANTS
  MinutesUnmixed
  MeasuredModeKept
  OneSummaryPerMinute
PROPERTY
  NothingDropped
