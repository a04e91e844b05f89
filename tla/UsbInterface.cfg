SPECIFICATION FairSpec
CONSTANTS
  job1 = job1
  job2 = job2
  search = search
  Procs = {job1, job2, search}
  Ifaces = {0, 1}
  MaxErrors = 1
  Settings <- TwoPrinters
  Wanted <- JobAndSearch
INVARIANTS HeldIsRecorded DriverGivenBack KeepsItsInterface
PROPERTY SearchesEnd
