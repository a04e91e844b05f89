SPECIFICATION FairCommandSpec
CONSTANTS
  MaxPages = 2
  MaxSize = 3
  BufSize = 2
  Jobs <- MCJobs
  Ppd <- MCPpd
  Beginnings <- MCBeginnings
  MapTbl <- MCMapTbl
  Borderless = {"A4.bl"}
INVARIANTS JobOpensAsAsked FiltersAgree
PROPERTIES ImplementsJobStream FilterEnds
