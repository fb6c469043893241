--------------------------- MODULE MCBlockWindow ---------------------------
(***************************************************************************)
(* BlockWindow with numbers of four bits in place of 64: every StartBlock, *)
(* MaxBlockSpan and head there is.                                         *)
(***************************************************************************)
EXTENDS BlockWindow
=============================================================================
