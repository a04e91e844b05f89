SPECIFICATION Spec
CONSTANTS
  MaxJob = 3
  MaxCopies = 2
  WriteSize = 2
  MaxLate = 1
  MaxKeeps = 1
  MaxSilences = 1
INVARIANTS
  IInv
  InOrder
  NoGap
  OKMeansAllTaken
  OKMeansJobOver
  SeenMeansStarted
  OKMeansNotAborted
  
PROPERTIES
  NoDataAfterAbort
  DataInSession
