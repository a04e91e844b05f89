SPECIFICATION FairSpec
CONSTANTS
  MaxFaults = 2
  MaxHandles = 3
  ReadTries = 3
  MaxSend = 3
  PieceSize = 2
  Infos <- MCInfos
  Wanted = "ours"
  DevMax = 2
  MaxFound = 3
  WriteTries = 2
  AnswerSize = 2
INVARIANTS NetUnwound HandlesInUseAreLive HandlesAccountedFor AddressIsOfPrinter ReportsWhatWasTaken
PROPERTY CallsReturn
