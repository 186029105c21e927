------------------------------ MODULE MCPaper ------------------------------
(* Instances of module PaperTrading for TLC.                               *)
EXTENDS PaperTrading
=============================================================================
