----------------------------- MODULE MCStudies -----------------------------
(***************************************************************************)
(* A small instance of Studies.  The grids are those with two columns, or  *)
(* two by two, over a few kinds of cell: a failed one, a loss, no trade and*)
(* two gains within a tenth of each other.  The results have up to four    *)
(* trades, with steep gains and a loss, some of an old result without P&L. *)
(***************************************************************************)
EXTENDS Studies

MCTypedSteps == {0 - 1}

Cell(net, dd) == [err |-> FALSE, net_pnl |-> net, max_drawdown |-> dd, sharpe |-> net]
Loss == Cell(0 - 5, 5)
Good == Cell(19, 0)
Top  == Cell(20, 2)
MCGrids == {<<<<Top, Good>>>>,
            <<<<Good, Top>>, <<Top, Loss>>>>, <<<<ErrorCell, Good>>, <<Good, ErrorCell>>>>,
            <<<<Loss, ErrorCell>>, <<ErrorCell, Loss>>>>}

Trade(ts, pnl) == [ts |-> ts, pnl |-> pnl, fees |-> 1, exposure |-> 1]
MCResults == {Views!EngineResult(trades, 3) : trades \in
    {<<Trade(2, 9), Trade(1, 2)>>,
     <<Trade(1, 2), Trade(2, 2), Trade(3, 9), Trade(4, 0 - 3)>>}}
=============================================================================
