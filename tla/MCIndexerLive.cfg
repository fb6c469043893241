SPECIFICATION FairSpec
CONSTANTS
  redeemed = redeemed
  refunded = refunded
  order = order
  Events <- FewEvents
  Kind <- FewKind
  Key <- FewKey
  SwapIds = {refunded}
  CreateIds = {order}
  Capacity = 1
  Concurrency = 2
  MaxLives = 2
PROPERTIES
  RestartRecovers
