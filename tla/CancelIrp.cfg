SPECIFICATION FairSpec
CONSTANTS
  Readers = {r1, r2}
  Others = {o1}
  Irps = {i1, i2}
  None = None
INVARIANTS IrqlRestored StillCancellable
PROPERTIES KeepsContract CancelIoReturns
