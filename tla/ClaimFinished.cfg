SPECIFICATION FairSpec
CONSTANTS
  MaxJob = 2
  MaxCopies = 1
  WriteSize = 2
  MaxLate = 0
  MaxKeeps = 0
  MaxSilences = 0
PROPERTY FinishedJobIsNoticed
