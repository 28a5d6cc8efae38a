SPECIFICATION ProgramsSpec
CONSTANTS
  Producers = {p1, p2}
  Consumers = {c1, c2}
  Countups = {u1}
  Countdowns = {d1}
  Count = 2
  MaxTime = 2
  Pushers = {a, b}
  Poppers = {t1, t2, t3}
  QueueMax = 3
  Methods = {"GET"}
  GroupPrefixes <- MCPrefixes
  Comps <- MCComps
  Paths <- MCPaths
  Kinds = {"plain", "next", "panic"}
  MaxRoutes = 2
  MaxGroups = 3
  MaxUses = 1
  MaxServed = 1
  TtcpClients = {"a", "b"}
  MessageNumbers <- MCMessageNumbers
  Lengths <- MCLengths
  Keys = {1, 2, 3, 4, 5}
  MaxNodes = 5
  MaxDeletions = 2
  MaxTurns = 6
  Texts <- MCTexts
  LineOrder <- MCLineOrder
  DirEntries <- MCDirEntries
  ToolOptions <- MCToolOptions
  MaxInputs = 2
  Elems = {x, y}
  MaxListNodes = 4
  Handles = {g, h}
  VecElems = {vx, vy}
  MaxLength = 4
  BstKeys = {1, 2, 3, 4}
  BstNodes = 4
  Arrays <- MCArrays
  PastTheEnd = {0, 1, 9}
  Strings <- MCStrings
  Numerals <- MCNumerals
  IntMax = 127
  TreeMax = 9
  Updates <- MCUpdates
  ListValues <- MCListValues
  Inorders <- MCInorders
  LargestNumber = 120
  LargestSum = 30
  MemoryValues = {0, 2, 9}
  WordBits = 8
  Radix = 3
  CppElems = {1, 2, 3}
  MaxCalls = 4
  CppStrings = {s1, s2, s3}
  CppTexts = {"a", "b"}
  MaxBuffers = 3
  SinThreads = {q1, q2, q3}
INVARIANTS DeliveriesAgree ElementsHaveTakers BaoHandles TreesStayOrdered OutputsAgree ContainersGiveBack
PROPERTIES ProgramsFinish
CHECK_DEADLOCK FALSE
