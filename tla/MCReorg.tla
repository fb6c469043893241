------------------------------ MODULE MCReorg ------------------------------
(***************************************************************************)
(* A small chain for Reorg: two reorganisations of three blocks, windows   *)
(* of up to two blocks, so that one is cut short by the head, two lives.   *)
(***************************************************************************)
EXTENDS Reorg
=============================================================================
