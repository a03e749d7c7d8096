----------------------------- MODULE MCPipeline -----------------------------
(***************************************************************************)
(* TLC instance of Settlement and Pipeline: a group of prime order, a      *)
(* wanted and another provider name, a trusted and another CA, new and     *)
(* used provider objects; totals with and without a change of digits.      *)
(***************************************************************************)
EXTENDS Settlement

=============================================================================
