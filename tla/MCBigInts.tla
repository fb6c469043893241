----------------------------- MODULE MCBigInts -----------------------------
(***************************************************************************)
(* BigInts with events of five bits, a Uint64 of four and integer columns  *)
(* of two: numbers on both sides of either limit.                          *)
(***************************************************************************)
EXTENDS BigInts
=============================================================================
