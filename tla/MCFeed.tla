------------------------------- MODULE MCFeed -------------------------------
(* Instances of module PolymarketFeed for TLC.                             *)
EXTENDS PolymarketFeed
=============================================================================
