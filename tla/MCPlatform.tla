----------------------------- MODULE MCPlatform -----------------------------
(***************************************************************************)
(* A small instance of Platform.  The books of the replay have levels that *)
(* an order takes whole, in part, exactly, or finds too few of, queues     *)
(* that thin out, empty sides, and an ask at a dollar.                     *)
(***************************************************************************)
EXTENDS Platform, TLC

CONSTANTS s1, s2
MCNets == <<2, 0 - 1, 1>>
MCSubs == {s1, s2}
MCPlan == s1 :> "pro" @@ s2 :> "premium"

MCBooks == {
    [bids |-> <<<<4, 180>>>>,             asks |-> <<<<6, 180>>, <<8, 180>>>>],
    [bids |-> <<<<6, 180>>, <<5, 360>>>>, asks |-> <<<<8, 180>>>>],
    [bids |-> <<<<6, 360>>>>,             asks |-> <<>>],
    [bids |-> <<>>,                       asks |-> <<<<6, 540>>>>],
    [bids |-> <<<<6, 180>>, <<5, 180>>>>, asks |-> <<<<8, 360>>>>],
    [bids |-> <<>>,                       asks |-> <<<<12, 180>>>>]}
Rule(order, fill, ceiling, timeout, queued, exits) ==
    [order |-> order, fill |-> fill, ceiling |-> ceiling, timeout |-> timeout,
     queue |-> queued, exits |-> exits]
MCRules == {
    Rule("market", "walk_book", 12, 1, FALSE, TRUE),
    Rule("market", "walk_book", 7, 1, FALSE, FALSE),
    Rule("market", "mid", 12, 1, FALSE, TRUE),
    Rule("limit", "walk_book", 12, 1, FALSE, TRUE), Rule("limit", "walk_book", 12, 2, TRUE, TRUE)}

MCLimit == "rps" :> 2 @@ "rpm" :> 3
MCWindow == "rps" :> 2 @@ "rpm" :> 4
=============================================================================
