SPECIFICATION FairLockSpec
CONSTANTS
  Kthreads = {k1, k2, k3}
  MaxCells = 3
  None = None
CHECK_DEADLOCK FALSE
INVARIANTS
  Exclusion
  CellsMatch
PROPERTIES
  WriterEnters
  RegistrationEnds
