SPECIFICATION Spec
CONSTANTS
  ethereum = ethereum
  arbitrum = arbitrum
  base = base
  htlc1 = htlc1
  htlc2 = htlc2
  orderbook1 = orderbook1
  Chains = {ethereum, arbitrum}
  Contracts = {1, 2, 3}
  ChainOf <- LocalChainOf
  Address <- LocalAddress
  AbiType <- LocalAbiType
  PollingInterval <- LocalInterval
  ZeroAddress = ZeroAddress
  Doubtful = {}
INVARIANT StartedContractsAreWatched
