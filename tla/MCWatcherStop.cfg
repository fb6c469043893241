SPECIFICATION Spec
CONSTANTS
  htlc = htlc
  orderbook = orderbook
  other = other
  Initiated = Initiated
  Redeemed = Redeemed
  Created = Created
  Logs <- FewLogs
  Block <- FewBlock
  AddressOf <- MCAddressOf
  TopicOf <- MCTopicOf
  Handlers <- MCHandlers
  StartBlock = 1
  MaxBlockSpan = 1
  QueueSize = 1
  Workers = {w1, w2}
  MaxHead = 3
INVARIANT StoppedWatcherIsIdle
