----------------------------- MODULE PaperPages -----------------------------
(***************************************************************************)
(* The paper trading pages of the dashboard: the list of paper strategies, *)
(* with its pause, resume and delete buttons, and the page of one strategy,*)
(* which polls its record, its positions and its equity curve, each from a *)
(* request of its own, and puts figures from all of them side by side.     *)
(*                                                                         *)
(* The server is one strategy with its ledger of positions, as module      *)
(* PaperTrading keeps it.  The strategy page opens on an existing strategy *)
(* and may outlive it.  The page has a panel for a baseline backtest, but  *)
(* the record the API gives has no baseline_backtest_id (paper_db.py, the  *)
(* columns get_strategy selects): every refresh clears the baseline, and   *)
(* the branches of the page that compare with one are never taken.         *)
(***************************************************************************)
EXTENDS Integers, FiniteSets, SequencesExt

CONSTANTS
    Null,
    MaxPositions, \* bound: positions ever opened
    Nets,         \* the net P&L each position will close with
    PageLimit,    \* positions the API lists at most (1000 in the code)
    TableRows,    \* rows of the table of trades (200 in the code)
    CardRows,     \* and of the card of open positions (8)
    MaxWire,      \* bound: requests of refreshes under way
    MaxPresses,   \* bound: buttons pressed
    MaxMissed     \* bound: failed requests

PaperPagesAssumption ==
    /\ MaxPositions \in Nat /\ Nets \in Seq(Int) /\ MaxPositions <= Len(Nets)
    /\ PageLimit \in Nat \ {0} /\ TableRows \in Nat /\ CardRows \in Nat
    /\ MaxWire \in Nat \ 0..2 /\ MaxPresses \in Nat /\ MaxMissed \in Nat

VARIABLES
    site,      \* the open page: "list" or "strategy"
    strategy,  \* the record: "active", "paused" or "deleted"
    ledger,    \* positions in the order they opened: net, and rank of closing (0: open)
    face,      \* what the open page holds
    refreshes, \* refreshes under way, in the order they started
    actions,   \* PATCH and DELETE requests under way: the state each asks for
    late,      \* history: a refresh came before an earlier one
    presses, missed

paperVars == <<site, strategy, ledger, face, refreshes, actions, late, presses, missed>>

Miss == missed < MaxMissed /\ missed' = missed + 1
Top(x, y) == IF x > y THEN x ELSE y

(* ------------------------- figures of the page ------------------------- *)

IsClosed(p) == p.rank # 0
ClosedAt(ps) == {i \in DOMAIN ps : IsClosed(ps[i])}
NetSum(ps, S) == SumFunctionOnSet([i \in S |-> ps[i].net], S)

(* The API lists positions newest first, and only so many; the equity      *)
(* curve is cumulated by the API over all the closed ones, in the order    *)
(* they closed.                                                            *)
Positions(ps) == [i \in 1..(IF Len(ps) < PageLimit THEN Len(ps) ELSE PageLimit) |-> ps[Len(ps) + 1 - i]]
Equity(ps) ==
    [k \in 1..Cardinality(ClosedAt(ps)) |->
        NetSum(ps, {i \in ClosedAt(ps) : ps[i].rank <= k})]
FinalNet(curve) == IF curve = Null \/ curve = <<>> THEN 0 ELSE curve[Len(curve)]

(* The drawdown of a sequence of running sums: the deepest fall below the  *)
(* highest of them so far, or of 0.                                        *)
Drawdown(sums) ==
    LET step(s, acc) == LET peak == Top(acc.peak, s)
                        IN  [peak |-> peak, depth |-> Top(acc.depth, peak - s)]
    IN  FoldLeft(LAMBDA acc, s : step(s, acc), [peak |-> 0, depth |-> 0], sums).depth

(* Row by row; an open one adds nothing.                                   *)
RunningSums(ps) == [i \in DOMAIN ps |-> NetSum(ps, {j \in ClosedAt(ps) : j <= i})]

TileDrawdown_OfAllRows(ps) ==
    LET nets == [i \in DOMAIN ps |-> IF IsClosed(ps[i]) THEN ps[i].net ELSE 0 - 1]
    IN  Drawdown([i \in DOMAIN ps |-> SumFunctionOnSet(nets, 1..i)])

(* The "Max drawdown" tile is computed over the positions in the order     *)
(* they are listed, the shaded band of the chart over the equity curve.    *)
TileDrawdown(ps) == Drawdown(RunningSums(ps))
BandDrawdown(curve) == Drawdown(curve)

(* The tiles over the closed positions: profit factor (infinite without a  *)
(* loss, none without a gain either) and average trade, by their colour.   *)
WonAt(ps) == {i \in ClosedAt(ps) : ps[i].net > 0}
LostAt(ps) == {i \in ClosedAt(ps) : ps[i].net < 0}
Gains(ps) == NetSum(ps, WonAt(ps))
Losses(ps) == 0 - NetSum(ps, LostAt(ps))
FactorTone(ps) == IF Losses(ps) = 0 THEN "none"
                  ELSE IF Gains(ps) >= Losses(ps) THEN "good" ELSE "bad"
AverageTone(ps) ==
    LET total == NetSum(ps, ClosedAt(ps))
    IN  IF total > 0 THEN "good" ELSE IF total < 0 THEN "bad" ELSE "none"

(* The trades won, and the best and worst of them by their colour: a best  *)
(* trade is never red, a worst one never green.                            *)
Wins(ps) == Cardinality(WonAt(ps))
BestTone(ps) == IF Wins(ps) > 0 THEN "good" ELSE "none"
WorstTone(ps) == IF Losses(ps) > 0 THEN "bad" ELSE "none"

(* The table of all trades, cut: its rows by their colour.                 *)
RowTone(p) == CASE ~IsClosed(p) -> "open"
                [] IsClosed(p) /\ p.net > 0 -> "good"
                [] IsClosed(p) /\ p.net < 0 -> "bad"
                [] OTHER -> "none"
TradesTable(ps) ==
    [i \in 1..(IF Len(ps) < TableRows THEN Len(ps) ELSE TableRows) |-> RowTone(ps[i])]

(* The card of open positions, and how many more there are than it lists.  *)
OpenPositionsCard(ps) ==
    LET open == SelectSeq(ps, LAMBDA p : ~IsClosed(p))
        more == Top(Len(open) - CardRows, 0)
    IN  [listed |-> SubSeq(open, 1, Len(open) - more), more |-> more]

(* The sentence at the top: by the sign of the P&L once trades have closed.*)
HeroTone(f) ==
    LET n   == Cardinality(ClosedAt(f.positions))
        pnl == FinalNet(f.equity)
    IN  CASE n = 0 -> "waiting"
          [] n > 0 /\ pnl > 0 -> "up"
          [] n > 0 /\ pnl < 0 -> "down"
          [] OTHER -> "even"

(* -------------------------------- server ------------------------------- *)

(* The worker opens positions of an active strategy, and settles open ones *)
(* in whatever order their markets resolve, paused or not.                 *)
Trade ==
    /\ \/ /\ strategy = "active" /\ Len(ledger) < MaxPositions
          /\ ledger' = Append(ledger, [net |-> Nets[Len(ledger) + 1], rank |-> 0])
       \/ /\ strategy # "deleted"
          /\ \E i \in DOMAIN ledger :
                /\ ~IsClosed(ledger[i])
                /\ ledger' = [ledger EXCEPT ![i].rank = Cardinality(ClosedAt(ledger)) + 1]
    /\ UNCHANGED <<site, strategy, face, refreshes, actions, late, presses, missed>>

(* ------------------------------- refreshes ----------------------------- *)

(* A refresh: one request on the list, three on the strategy page.  Part   *)
(* by part they are asked, answered - with what the server has then, or a  *)
(* failure - and read.  An answer is a sequence of its one value, or of    *)
(* none when it failed.                                                    *)
Failure == <<>>
Parts == IF site = "list" THEN {"record"} ELSE {"record", "positions", "equity"}
Unanswered == [part \in Parts |-> Null]
Wire(rs) == SumFunctionOnSet([i \in DOMAIN rs |-> Cardinality(DOMAIN rs[i])], DOMAIN rs)
Begin(rs) ==
    /\ refreshes' = Append(rs, Unanswered)
    /\ Wire(rs) + Cardinality(Parts) <= MaxWire

(* The API does not tell another user's strategy from a deleted one, and   *)
(* gives neither positions nor equity an error for it, but an empty list.  *)
Served(part) ==
    CASE part = "record"    -> IF strategy = "deleted" /\ site = "strategy" THEN Failure
                               ELSE <<strategy>>
      [] part = "positions" -> <<IF strategy = "deleted" THEN <<>> ELSE Positions(ledger)>>
      [] part = "equity"    -> <<IF strategy = "deleted" THEN <<>> ELSE Equity(ledger)>>

AnswerPart(i) ==
    /\ i \in DOMAIN refreshes
    /\ \E part \in DOMAIN refreshes[i] :
        /\ refreshes[i][part] = Null
        /\ \/ refreshes' = [refreshes EXCEPT ![i][part] = Served(part)] /\ UNCHANGED missed
           \/ Miss /\ refreshes' = [refreshes EXCEPT ![i][part] = Failure]
    /\ UNCHANGED <<site, strategy, ledger, face, actions, late, presses>>

Complete(r) == \A part \in DOMAIN r : r[part] # Null

(* The page, and in its corner whether the strategy runs and what is open. *)
StrategyFace(f) == IF f.error THEN "error" ELSE IF f.record = Null THEN "loading" ELSE "figures"
StatusPill(f) == [status |-> f.record, open |-> Len(f.positions) - Cardinality(ClosedAt(f.positions))]

Taken(answer, old) == IF answer = Failure THEN old ELSE answer[1]

(* What a complete refresh puts on the page.  Positions and equity are     *)
(* best effort; without the record the page shows only an error.           *)
Apply(i) ==
    /\ i \in DOMAIN refreshes /\ Complete(refreshes[i])
    /\ late' = (late \/ i > 1) /\ refreshes' = RemoveAt(refreshes, i)
    /\ LET r == refreshes[i] IN
       \/ r.record = Failure /\ face' = [face EXCEPT !.error = TRUE]
       \/ /\ r.record # Failure /\ site = "list"
          /\ face' = [face EXCEPT !.record = r.record[1], !.error = FALSE]
       \/ /\ r.record # Failure /\ site = "strategy"
          /\ face' = [face EXCEPT !.record    = r.record[1],
                                  !.positions = Taken(r.positions, @),
                                  !.equity    = Taken(r.equity, @),
                                  !.error     = FALSE]
    /\ UNCHANGED <<site, strategy, ledger, actions, presses, missed>>

(* setInterval on the strategy page; the list has no timer.                *)
PollStrategy ==
    /\ site = "strategy" /\ Begin(refreshes)
    /\ late' = (late /\ refreshes # <<>>)
    /\ UNCHANGED <<site, strategy, ledger, face, actions, presses, missed>>

(* ----------------------------- list buttons ---------------------------- *)

ListFace == IF face.error THEN "error" ELSE IF face.record = Null THEN "loading" ELSE "table"
Listed == ListFace = "table" /\ face.record # "deleted"

(* The button says what the row does not: pause an active, resume a paused *)
(* strategy; delete asks for confirmation first.  No button is disabled    *)
(* while another one's request is under way.                               *)
Press ==
    /\ site = "list" /\ Listed /\ presses < MaxPresses /\ presses' = presses + 1
    /\ \/ actions' = Append(actions, IF face.record = "active" THEN "paused" ELSE "active")
       \/ actions' = Append(actions, "deleted")
    /\ UNCHANGED <<site, strategy, ledger, face, refreshes, late, missed>>

(* The API sets the record, or answers 404 for one that is gone; a failure *)
(* is a toast, a success refreshes the list.  An answer may be lost after  *)
(* the record was set.                                                     *)
Acted(i) ==
    /\ i \in DOMAIN actions /\ actions' = RemoveAt(actions, i)
    /\ strategy' = IF strategy = "deleted" THEN strategy ELSE actions[i]
    /\ \/ /\ strategy # "deleted"
          /\ Begin(refreshes) /\ late' = (late /\ refreshes # <<>>)
          /\ UNCHANGED missed
       \/ strategy # "deleted" /\ Miss /\ UNCHANGED <<refreshes, late>>
       \/ strategy = "deleted" /\ UNCHANGED <<refreshes, late, missed>>
    /\ UNCHANGED <<site, ledger, face, presses>>

(* Another tab pauses, resumes or deletes the strategy on display.         *)
Elsewhere ==
    /\ site = "strategy" /\ strategy # "deleted"
    /\ presses < MaxPresses /\ presses' = presses + 1
    /\ strategy' \in {"active", "paused", "deleted"} \ {strategy}
    /\ UNCHANGED <<site, ledger, face, refreshes, actions, late, missed>>

(* ---------------------------- specification ---------------------------- *)

Init ==
    /\ site \in {"list", "strategy"} /\ strategy \in {"active", "paused"}
    /\ ledger = <<>>
    /\ face = [record |-> Null, positions |-> <<>>, equity |-> Null, error |-> FALSE]
    /\ refreshes = <<Unanswered>> /\ actions = <<>>
    /\ late = FALSE /\ presses = 0 /\ missed = 0

Next ==
    \/ Trade \/ PollStrategy \/ Press \/ Elsewhere
    \/ \E i \in 1..MaxPresses : Acted(i)
    \/ \E i \in 1..MaxWire : AnswerPart(i) \/ Apply(i)

Fairness == WF_paperVars(AnswerPart(1)) /\ WF_paperVars(Apply(1))
            /\ WF_paperVars(PollStrategy) /\ WF_paperVars(Acted(1))

Spec == Init /\ [][Next]_paperVars /\ Fairness

(* ------------------------------ properties ----------------------------- *)

Records == {"active", "paused", "deleted"}
TypeOK ==
    /\ site \in {"list", "strategy"} /\ strategy \in Records
    /\ Len(ledger) <= MaxPositions
    /\ \A i \in DOMAIN ledger : ledger[i].net = Nets[i] /\ ledger[i].rank \in 0..MaxPositions
    /\ face.record \in Records \cup {Null} /\ face.error \in BOOLEAN
    /\ Wire(refreshes) <= MaxWire /\ Len(actions) <= MaxPresses
    /\ presses \in 0..MaxPresses /\ missed \in 0..MaxMissed

Count(seq, x) == Cardinality({i \in DOMAIN seq : seq[i] = x})
(* The steps of the equity curve that go up, or down.                      *)
Moves(curve, up) ==
    {i \in DOMAIN curve : LET before == IF i = 1 THEN 0 ELSE curve[i - 1]
                          IN  IF up THEN curve[i] > before ELSE curve[i] < before}

(* A list that no position is missing from: it is shorter than the API     *)
(* makes them, or there never were more positions.                         *)
Whole(ps) == Len(ps) < PageLimit \/ Len(ledger) <= PageLimit

InOrder(ps) == \A i, j \in ClosedAt(ps) : i < j => ps[i].rank > ps[j].rank

(* The figures of the strategy page agree, though the positions and the    *)
(* equity curve come from requests that the worker and other refreshes     *)
(* interleave with: if the list was not cut, with as many positions closed *)
(* in both, the curve ends at the sum of the rows' net P&L, and if they    *)
(* closed in the order they opened the drawdown tile is the depth of the   *)
(* chart's band: a drawdown is the same read backwards, newest first as    *)
(* the tile does.  The tiles' colours agree with the curve - as many       *)
(* trades won, and as many green rows in the table, as the curve has steps *)
(* up - and the sentence at the top does not contradict them.              *)
PageAgreesWithItself ==
    (/\ face.equity # Null /\ Len(face.equity) = Cardinality(ClosedAt(face.positions))
     /\ Whole(face.positions)) =>
        /\ FinalNet(face.equity) = NetSum(face.positions, ClosedAt(face.positions))
        /\ InOrder(face.positions) =>
                TileDrawdown(face.positions) = BandDrawdown(face.equity)
        /\ Wins(face.positions) = Cardinality(Moves(face.equity, TRUE))
        /\ Len(face.positions) <= TableRows =>
                Count(TradesTable(face.positions), "good") = Cardinality(Moves(face.equity, TRUE))
        /\ (WorstTone(face.positions) = "bad") = (Moves(face.equity, FALSE) # {})
        /\ HeroTone(face) = "up" => BestTone(face.positions) = "good"
        /\ FactorTone(face.positions) = "good" => FinalNet(face.equity) >= 0
        /\ FactorTone(face.positions) = "bad" => AverageTone(face.positions) = "bad"
        /\ AverageTone(face.positions) = "bad" => FinalNet(face.equity) < 0
        /\ HeroTone(face) \in {"up", "down"} =>
                HeroTone(face) = IF AverageTone(face.positions) = "good" THEN "up" ELSE "down"

(* The strategy page ends up with what the server has, or with the error   *)
(* of a deleted strategy, and its corner and its card, if the list is not  *)
(* cut, with the positions that are open; the list with the state of the   *)
(* row once its buttons rest, unless a refresh was overtaken or lost.      *)
Settled ==
    IF site = "strategy"
    THEN IF strategy = "deleted" THEN StrategyFace(face) = "error"
         ELSE /\ StrategyFace(face) = "figures"
              /\ face.positions = Positions(ledger) /\ face.equity = Equity(ledger)
              /\ LET open == Len(ledger) - Cardinality(ClosedAt(ledger))
                     card == OpenPositionsCard(face.positions)
                 IN  Whole(face.positions) =>
                        /\ StatusPill(face) = [status |-> strategy, open |-> open]
                        /\ Len(card.listed) + card.more = open
    ELSE late \/ missed > 0 \/ face.record = strategy
=============================================================================
