SPECIFICATION FairSpec
CONSTANTS
  a = a
  b = b
  Callers = {a, b}
  Programs <- MCPrograms
  WorkerCount = 1
  MaxBlock = 2
INVARIANTS
  TypeOK
  OncePerStart
  NoBlockSkipped
  StopOutlivesLoops
  AloneNoPanic
PROPERTIES
  StopReturns
  CancelEndsAll
