SPECIFICATION FairSpec
CONSTANTS
  MaxJob = 3
  MaxCopies = 1
  WriteSize = 2
  MaxLate = 0
  MaxKeeps = 1
  MaxSilences = 1
PROPERTIES
  ImplementsPrintJob
  CancelEndsSession
  SessionEnds
