----------------------------- MODULE MCBuilder -----------------------------
(***************************************************************************)
(* A small instance of Builder: entries of up to three rows and sub-groups.*)
(***************************************************************************)
EXTENDS Builder

(* Two parameters whose tests the downloaded script can evaluate: joins of *)
(* two different ones have answers to compare.                             *)
MCTypes == {"coin_price_volatility", "time_since_market_open_s"}
MCOps == {"crosses_above"}
=============================================================================
