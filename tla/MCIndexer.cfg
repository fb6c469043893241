SPECIFICATION Spec
CONSTANTS
  redeemed = redeemed
  refunded = refunded
  order = order
  Events <- MCEvents
  Kind <- MCKind
  Key <- MCKey
  SwapIds = {redeemed, refunded}
  CreateIds = {order}
  Capacity = 2
  Concurrency = 2
  MaxLives = 2
INVARIANTS
  TypeOK
  AckedIsDurable
  TablesExplained
PROPERTIES
  TablesOnlyGrow
