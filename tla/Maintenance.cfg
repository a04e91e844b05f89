SPECIFICATION FairSpec
CONSTANTS
  Files <- MCFiles
  Entries <- MCEntries
  Header <- MCHeader
  Returns <- MCReturns
  DataBuf = 4
  SizeMax = 7
  MaxSize = 2
  MaxFaults = 2
INVARIANT PieceLeftWhole
PROPERTIES ImplementsMaintenanceJob FilterEnds
