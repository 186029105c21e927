---------------------------- MODULE ResultViews ----------------------------
(***************************************************************************)
(* What the page of a finished backtest derives from the job's result in   *)
(* the browser (web/components/BacktestResult.tsx): statistics, the equity *)
(* curve with its spline and the table of trades.                          *)
(* Amounts are integers; a trade is a record with ts, pnl (gross, Null in  *)
(* results older than the field), fees, and its signed exposure.           *)
(***************************************************************************)
EXTENDS Integers, FiniteSets, SequencesExt

CONSTANTS Null, RowCap   \* RowCap: rows of the table (200 in the code)

(* A trade of a result.                                                    *)
Trade == [ts : Int, pnl : Int \union {Null}, fees : Int, exposure : Int]

Total(seq) == SumFunction(seq)

(* A trade as the table shows it: net is absent when the gross is.         *)
Gross(t) == IF t.pnl = Null THEN 0 ELSE t.pnl
Net(t)   == IF t.pnl = Null THEN Null ELSE t.pnl - t.fees

(* The engine's totals, summed market by market from the same trades.      *)
EngineResult(trades, drawdown) ==
    [trades       |-> trades,
     total_pnl    |-> Total([i \in DOMAIN trades |-> Gross(trades[i])]),
     total_fees   |-> Total([i \in DOMAIN trades |-> trades[i].fees]),
     max_drawdown |-> drawdown]

Wins(trades) ==
    [i \in DOMAIN trades |-> IF Gross(trades[i]) > 0 THEN Gross(trades[i]) ELSE 0]
Losses(trades) ==
    [i \in DOMAIN trades |-> IF Gross(trades[i]) < 0 THEN 0 - Gross(trades[i]) ELSE 0]

(* Figures the page computes because the result does not carry them.  A    *)
(* ratio is a pair <<numerator, denominator>>; over 0 it is infinite.      *)
StatsGrid(r) ==
    LET pnls   == {r.trades[i].pnl : i \in DOMAIN r.trades} \ {Null}
        wins   == Total(Wins(r.trades))
        losses == Total(Losses(r.trades))
    IN  [best   |-> IF pnls = {} THEN Null ELSE Max(pnls),
         worst  |-> IF pnls = {} THEN Null ELSE Min(pnls),
         factor |-> IF wins = 0 /\ losses = 0 THEN Null ELSE <<wins, losses>>,
         calmar |-> IF r.max_drawdown = 0 THEN Null ELSE <<r.total_pnl, r.max_drawdown>>,
         each   |-> IF r.trades = <<>> THEN Null ELSE <<r.total_pnl, Len(r.trades)>>]

(* The chart: trades in time order, net P&L summed when any of them has    *)
(* one, the signed exposure otherwise.  Fewer than two trades: no chart.   *)
HasPnl(trades) == \E i \in DOMAIN trades : trades[i].pnl # Null

(* A trade's place in time order; trades of one time stay as they were.    *)
Place(trades, i) ==
    Cardinality({j \in DOMAIN trades : \/ trades[j].ts < trades[i].ts
                                       \/ trades[j].ts = trades[i].ts /\ j <= i})

Cumulative(trades, steps) ==
    IF Len(trades) < 2 THEN <<>>
    ELSE [k \in DOMAIN trades |->
            SumFunctionOnSet(steps, {i \in DOMAIN trades : Place(trades, i) <= k})]

EquityCurve_Gross(trades) ==
    Cumulative(trades, [i \in DOMAIN trades |-> Gross(trades[i])])

EquityCurve(trades) ==
    Cumulative(trades, [i \in DOMAIN trades |->
        IF HasPnl(trades) THEN Gross(trades[i]) - trades[i].fees ELSE trades[i].exposure])

(* The spline's tangent at point i of equally spaced points, as a pair     *)
(* <<numerator, denominator>>: the end slopes at the ends, flat where the  *)
(* slope changes sign, the harmonic mean of the two slopes elsewhere.      *)
Slope(ys, i) == ys[i + 1] - ys[i]

Tangent(ys, i) ==
    LET before == Slope(ys, i - 1)
        after  == Slope(ys, i)
    IN  CASE i = 1                      -> <<Slope(ys, 1), 1>>
          [] i = Len(ys)                -> <<Slope(ys, i - 1), 1>>
          [] i \in 2..(Len(ys) - 1) /\ before * after <= 0 -> <<0, 1>>
          [] OTHER -> IF after > 0 THEN <<2 * before * after, before + after>>
                      ELSE <<0 - 2 * before * after, 0 - (before + after)>>

(* The two control points of the cubic from point i to point i + 1, as     *)
(* pairs: a third of the step along the tangent at either end.             *)
ControlPoints(ys, i) ==
    LET a == Tangent(ys, i)
        b == Tangent(ys, i + 1)
    IN  <<<<3 * a[2] * ys[i] + a[1], 3 * a[2]>>,
          <<3 * b[2] * ys[i + 1] - b[1], 3 * b[2]>>>>

(* The table's rows, cut at RowCap; the export has them all.               *)
TradesTable(trades) ==
    [rows |-> [i \in 1..Min({Len(trades), RowCap}) |-> Net(trades[i])],
     more |-> Len(trades) > RowCap]

(* The whole body of a completed job's page.                               *)
ResultView(r) ==
    [callout |-> r.trades = <<>>,
     stats   |-> StatsGrid(r),
     chart   |-> EquityCurve(r.trades),
     table   |-> TradesTable(r.trades)]
=============================================================================
