SPECIFICATION FairSpec
CONSTANTS
  MaxJob = 4
  BufSize = 3
  PipeSize = 2
  MaxTerms = 2
INVARIANTS
  SuccessMeansDone
  NoFilterLeft
PROPERTIES
  ImplementsPrintJob
  JobEnds
