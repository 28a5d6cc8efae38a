SPECIFICATION FairSpec
CONSTANTS
  Keyboards = {k1, k2, k3}
  None = None
  CountValues = 4
  Multiprocessor = FALSE
  EntryRaces = FALSE
INVARIANTS CountGuardsUnload
PROPERTIES ReadsComeBack UnloadReturns
