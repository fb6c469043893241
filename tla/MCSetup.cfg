SPECIFICATION FairSpec
CONSTANTS
  ethereum = ethereum
  arbitrum = arbitrum
  base = base
  htlc1 = htlc1
  htlc2 = htlc2
  orderbook1 = orderbook1
  Chains = {ethereum, arbitrum, base}
  Contracts = {1, 2, 3, 4, 5, 6}
  ChainOf <- MCChainOf
  Address <- MCAddress
  AbiType <- MCAbiType
  PollingInterval <- MCInterval
  ZeroAddress = ZeroAddress
  Doubtful <- MCDoubtful
INVARIANTS
  TypeOK
  AllOrNone
  WatchedAsConfigured
  LossesAreNoticed
PROPERTIES
  ComesUp
