----------------------------- MODULE MCIndexer -----------------------------
(***************************************************************************)
(* Small instances of Indexer: a swap that is refunded, one that is        *)
(* redeemed (its Initiated event is not above StartBlock), and an order    *)
(* that is created and filled.                                             *)
(***************************************************************************)
EXTENDS Indexer, TLC

CONSTANTS redeemed, refunded, order

Chain == <<
  [kind |-> "Initiated", key |-> refunded],
  [kind |-> "Created",   key |-> order],
  [kind |-> "Redeemed",  key |-> redeemed],
  [kind |-> "Refunded",  key |-> refunded],
  [kind |-> "Filled",    key |-> order] >>

MCEvents == DOMAIN Chain
MCKind == [e \in MCEvents |-> Chain[e].kind]
MCKey == [e \in MCEvents |-> Chain[e].key]

\* Without the second swap and the filled order, for the liveness run.
FewChain == <<Chain[1], Chain[2], Chain[4]>>
FewEvents == DOMAIN FewChain
FewKind == [e \in FewEvents |-> FewChain[e].kind]
FewKey == [e \in FewEvents |-> FewChain[e].key]
=============================================================================
