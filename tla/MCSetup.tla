------------------------------ MODULE MCSetup ------------------------------
(***************************************************************************)
(* Two configuration files for Setup. MC: three chains, one of them with a *)
(* contract that is listed twice, one with an entry of an unknown type,    *)
(* one with a single contract; values of each may be missing. Local: what  *)
(* local_config.json says.                                                 *)
(***************************************************************************)
EXTENDS Setup, TLC

CONSTANTS ethereum, arbitrum, base,     \* chains
          htlc1, htlc2, orderbook1      \* addresses

MCEntries == <<
  [chain |-> ethereum, address |-> htlc1,      abi |-> "htlc"],
  [chain |-> ethereum, address |-> htlc1,      abi |-> "htlc"],
  [chain |-> ethereum, address |-> orderbook1, abi |-> "orderbook"],
  [chain |-> arbitrum, address |-> htlc2,      abi |-> "gardenhtlc"],
  [chain |-> arbitrum, address |-> orderbook1, abi |-> "orderbook"],
  [chain |-> base,     address |-> htlc2,      abi |-> "htlc"] >>

MCChainOf == [k \in DOMAIN MCEntries |-> MCEntries[k].chain]
MCAddress == [k \in DOMAIN MCEntries |-> MCEntries[k].address]
MCAbiType == [k \in DOMAIN MCEntries |-> MCEntries[k].abi]
MCInterval == (ethereum :> 500) @@ (arbitrum :> 250) @@ (base :> 500)

\* What may be missing, or of another type.
MCDoubtful == {<<ethereum, "startBlock">>, <<arbitrum, "contracts">>, <<arbitrum, "maxBlockSpan">>,
               <<base, "url">>, <<base, "pollingInterval">>}

LocalEntries == <<
  [chain |-> ethereum, address |-> htlc1,      abi |-> "gardenhtlc"],
  [chain |-> arbitrum, address |-> htlc2,      abi |-> "gardenhtlc"],
  [chain |-> arbitrum, address |-> orderbook1, abi |-> "orderbook"] >>

LocalChainOf == [k \in DOMAIN LocalEntries |-> LocalEntries[k].chain]
LocalAddress == [k \in DOMAIN LocalEntries |-> LocalEntries[k].address]
LocalAbiType == [k \in DOMAIN LocalEntries |-> LocalEntries[k].abi]
LocalInterval == (ethereum :> 500) @@ (arbitrum :> 500)
=============================================================================
