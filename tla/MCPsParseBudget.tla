--------------------------- MODULE MCPsParseBudget ---------------------------
(***************************************************************************)
(* PsParseBudget with parses of up to two iterations, with and without a   *)
(* budget, over every way a source may turn out.                           *)
(***************************************************************************)
EXTENDS PsParseBudget

MCMaxWork == 2
MCTimeouts == {0, 250}
=============================================================================
