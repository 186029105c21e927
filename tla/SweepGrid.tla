----------------------------- MODULE SweepGrid -----------------------------
(***************************************************************************)
(* The arithmetic of a parameter sweep, on both sides of the wire: the     *)
(* form's axes (web/components/SweepForm.tsx), the grid the worker fills   *)
(* (backtest/sweep.py) and what the result page derives from it            *)
(* (web/components/SweepResult.tsx).                                       *)
(*                                                                         *)
(* A parameter's value is abstract: the i-th point of an axis is the tuple *)
(* <<range, steps, i>>, a value typed in the form is <<"pinned">>.  Metrics*)
(* are integers; a metric JavaScript reads as null is Null.                *)
(***************************************************************************)
EXTENDS Integers, FiniteSetsExt

CONSTANT Null

(* ------------------------------ the form ------------------------------ *)

(* The numeric knobs a sweep may vary, first the default x, then the y.    *)
Sweepable == [threshold_entry        |-> <<"threshold", "size_usd">>,
              mean_reversion         |-> <<"lookback", "z_threshold", "size_usd">>,
              time_before_resolution |-> <<"minutes_before", "minutes_window", "size_usd">>]

StrategyTypes == DOMAIN Sweepable
ParamsOf(t) == {Sweepable[t][i] : i \in DOMAIN Sweepable[t]}

(* Null is no number and no axis.                                          *)
Axes == [param : UNION {ParamsOf(t) : t \in StrategyTypes}, range : {"default"}, steps : Int]
ASSUME NullAssumption == Null \notin Int /\ Null \notin Axes

DefaultAxis(t, i) == [param |-> Sweepable[t][i], range |-> "default", steps |-> 2]

(* switchStrategy: both axes snap to the new strategy's parameters.        *)
AxesFor(t) == [x |-> DefaultAxis(t, 1), y |-> DefaultAxis(t, 2)]

TotalCells(x, y, yOn) == x.steps * (IF yOn THEN y.steps ELSE 1)

(* buildBaseSpec: the chosen strategy's own fields, every one pinned.      *)
BaseSpec(t) ==
    [p \in ParamsOf(t) \cup {"type"} |-> IF p = "type" THEN t ELSE <<"pinned">>]

(* The menus of the two axes: y does not offer what x sweeps, x offers all.*)
AxisMenu(t, axis, other) ==
    IF axis = "x" THEN ParamsOf(t) ELSE ParamsOf(t) \ {other.param}

(* ----------------------------- the worker ----------------------------- *)

AxisPoint(a, i) == <<a.range, a.steps, i>>

(* A spec with the i-th point of an axis in place of what it had.          *)
Override(spec, a, i) ==
    [p \in DOMAIN spec \cup {a.param} |-> IF p = a.param THEN AxisPoint(a, i) ELSE spec[p]]

(* The spec of one cell: x first, then y over it.                          *)
CellSpec(base, x, y, xi, yi) ==
    LET withX == Override(base, x, xi)
    IN  IF y = Null THEN withX ELSE Override(withX, y, yi)

(* A cell whose replay raised: it is recorded with zeroes, not with nulls. *)
ErrorCell == [err |-> TRUE, net_pnl |-> 0, max_drawdown |-> 0, sharpe |-> Null]
Cells == [err : BOOLEAN, net_pnl : Int, max_drawdown : Int, sharpe : Int \cup {Null}]

(* The grid's best cell: the first, row by row, with the greatest net P&L. *)
Positions(grid) == {<<yi, xi>> : yi \in DOMAIN grid, xi \in DOMAIN grid[1]}
Before(p, q) == p[1] < q[1] \/ (p[1] = q[1] /\ p[2] < q[2])

BestCell(grid) ==
    LET top == {p \in Positions(grid) : \A q \in Positions(grid) :
                    grid[q[1]][q[2]].net_pnl <= grid[p[1]][p[2]].net_pnl}
    IN  CHOOSE p \in top : \A q \in top \ {p} : Before(p, q)

(* --------------------------- the result page --------------------------- *)

HigherIsBetter == [net_pnl |-> TRUE, sharpe |-> TRUE, max_drawdown |-> FALSE]
Metrics == DOMAIN HigherIsBetter

Score(c, m) == IF c[m] = Null THEN Null
               ELSE IF HigherIsBetter[m] THEN c[m] ELSE 0 - c[m]

(* The peak is taken over every cell that has a number, failed ones too.   *)
Numbers(grid, m) ==
    {p \in Positions(grid) : Score(grid[p[1]][p[2]], m) # Null}
Peak(grid, m) == Max({Score(grid[p[1]][p[2]], m) : p \in Numbers(grid, m)})

Passes_CountsFailed(grid, m, p) ==
    /\ p \in Numbers(grid, m)
    /\ 10 * Score(grid[p[1]][p[2]], m) >= 9 * Peak(grid, m)

Passes(grid, m, p) ==
    /\ p \in Numbers(grid, m)
    /\ ~grid[p[1]][p[2]].err
    /\ 10 * Score(grid[p[1]][p[2]], m) >= 9 * Peak(grid, m)

Neighbours(p) == {<<p[1] - 1, p[2]>>, <<p[1] + 1, p[2]>>,
                  <<p[1], p[2] - 1>>, <<p[1], p[2] + 1>>}

Plateau(grid, m) ==
    {p \in Positions(grid) :
        /\ Passes(grid, m, p)
        /\ Quantify(Neighbours(p), LAMBDA q : Passes(grid, m, q)) >= 2}

Magnitude(v) == IF v < 0 THEN 0 - v ELSE v

(* The colour scale: |v| over the greatest |v| of the grid, and its hue.   *)
AbsMax(grid, m) ==
    LET magnitudes == {Magnitude(grid[p[1]][p[2]][m]) : p \in Numbers(grid, m)}
        top == IF magnitudes = {} THEN 0 ELSE Max(magnitudes)
    IN  IF top = 0 THEN 1 ELSE top

Hue(c, m) == CASE c.err \/ c[m] = Null -> "grey"
               [] ~c.err /\ c[m] # Null /\ Score(c, m) >= 0 -> "green"
               [] OTHER -> "red"

(* What one cell of the heat map shows: its face, colour and outline.      *)
CellFace(grid, m, p) ==
    LET c == grid[p[1]][p[2]]
    IN  [text    |-> IF c.err THEN "ERR" ELSE IF c[m] = Null THEN "-" ELSE "number",
         hue     |-> Hue(c, m),
         shade   |-> IF c[m] = Null THEN 0 ELSE (100 * Magnitude(c[m])) \div AbsMax(grid, m),
         outline |-> IF p = BestCell(grid) THEN "best"
                     ELSE IF p \in Plateau(grid, m) THEN "plateau" ELSE "none"]

(* "Run best params": the base spec with the best cell's coordinates.      *)
BestSpec_XLast(params, grid) ==
    LET best   == BestCell(grid)
        merged == IF params.y = Null THEN params.strategy
                  ELSE Override(params.strategy, params.y, best[1])
    IN  Override(merged, params.x, best[2])

BestSpec(params, grid) ==
    LET best   == BestCell(grid)
        merged == Override(params.strategy, params.x, best[2])
    IN  IF params.y = Null THEN merged ELSE Override(merged, params.y, best[1])
=============================================================================
