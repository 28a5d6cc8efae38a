SPECIFICATION DriversSpec
CONSTANTS
  CCP_MAX_COM_ID = 2
  Callers = {t1, t2}
  QuietStart = TRUE
  Prompt = TRUE
  Boards = 3
  Intact = TRUE
  Pdos = {p1, p2}
  NoPdo = NoPdo
  Registry <- RegistryValues
  RamUnits = 4
  UnitsPerSector = 2
  RamClients = {c1, c2}
  NoClient = NoClient
  NtScarce = TRUE
  PtThreads = {t1, t2}
  PtOneProcessor = TRUE
  PtLast = 5
INVARIANTS
  ComCapFilters KbdOutlivesReads WdmNameComesBack RamdiskServes
  NtNamesFollowDrivers PtCallbacksTold
CHECK_DEADLOCK FALSE
