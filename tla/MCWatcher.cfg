SPECIFICATION Spec
CONSTANTS
  htlc = htlc
  orderbook = orderbook
  other = other
  Initiated = Initiated
  Redeemed = Redeemed
  Created = Created
  Logs <- MCLogs
  Block <- MCBlock
  AddressOf <- MCAddressOf
  TopicOf <- MCTopicOf
  Handlers <- MCHandlers
  StartBlock = 1
  MaxBlockSpan = 1
  QueueSize = 2
  Workers = {w1, w2}
  MaxHead = 5
SYMMETRY WorkerSymmetry
INVARIANTS
  TypeOK
  AtMostOnce
  NoLogLost
  NothingAhead
  ChainOrder
  DropsNeedBacklog
  NeverSendOnClosed
  IInv
PROPERTIES
  StopIsFinal
  Delivers
