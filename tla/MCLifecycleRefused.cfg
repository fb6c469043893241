SPECIFICATION Spec
CONSTANTS
  a = a
  b = b
  Callers = {a, b}
  Programs <- ByOne
  WorkerCount = 1
  MaxBlock = 1
PROPERTY RefusedMeansStopped
