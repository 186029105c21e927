------------------------------- MODULE Replay -------------------------------
(***************************************************************************)
(* The replay of one market (backtest/engine.py) with its fill model       *)
(* (backtest/slippage.py).  A snapshot is the book of the token that the   *)
(* strategy buys; a level is a pair <<price, shares>>.  Prices are counted *)
(* in parts of a Dollar, shares in units that make every division below    *)
(* come out even, and money in parts times units.  A price the code        *)
(* computes as an average is kept as the money and the shares it stands    *)
(* for.  What the strategy's conditions say of a snapshot is open: any     *)
(* signal may come at any snapshot.  The amount of a fee is left out, not  *)
(* whether one is due.                                                     *)
(***************************************************************************)
EXTENDS Integers, FiniteSets, SequencesExt

CONSTANTS
    Null,
    Dollar,       \* what a winning share pays
    Books,        \* [bids, asks] a snapshot may hold, best level first
    Length,       \* snapshots of the market
    Rules,        \* execution parameters of the strategies tried
    Stake,        \* the strategy's size_usd
    MaxEntries,   \* max_trades_per_market
    Offset        \* how far below the best ask a limit order is placed

(* A side of a book holds one size for a price, and the collector sorts it *)
(* by price, the best first (MarketBook._sorted_levels).                   *)
BookSide(levels) == levels \in Seq((1..Dollar) \X Nat)
Ascending(levels) ==
    \A j, k \in DOMAIN levels : j < k => levels[j][1] <= levels[k][1]
Descending(levels) ==
    \A j, k \in DOMAIN levels : j < k => levels[k][1] <= levels[j][1]

ReplayAssumption ==
    /\ Dollar \in Nat \ {0} /\ Length \in Nat \ {0} /\ MaxEntries \in Nat
    /\ Stake \in Nat \ {0} /\ Offset \in Nat /\ Null \notin Int
    /\ \A b \in Books : /\ BookSide(b.asks) /\ Ascending(b.asks)
                        /\ BookSide(b.bids) /\ Descending(b.bids)
    /\ \A r \in Rules : /\ r.order \in {"market", "limit"} /\ r.fill \in {"walk_book", "mid"}
                        /\ r.ceiling \in 0..Dollar /\ r.timeout \in Nat
                        /\ {r.queue, r.exits} \subseteq BOOLEAN

VARIABLES
    snaps,      \* the market's snapshots, one per unit of time
    rules,
    payout,     \* what a share of the token is worth at the resolution
    turn,       \* the snapshot under the loop; Length + 1 when it is over
    position,   \* index of the open entry in trades, or Null
    trades

replayVars == <<snaps, rules, payout, turn, position, trades>>

Price(level)  == level[1]
Shares(level) == level[2]
NoFill == Null

(* ------------------------------- fill model ---------------------------- *)

Tradable(levels) == levels # <<>> /\ Price(levels[1]) > 0 /\ Price(levels[1]) < Dollar

(* Spend money down the levels: whole levels first, the last one in part.  *)
(* A book too thin for the order fills what it has.                        *)
WalkBook_AtBest(levels, money) ==
    IF Tradable(levels) THEN [usd |-> money, shares |-> money \div Price(levels[1])] ELSE NoFill

WalkBook(levels, money) ==
    LET take(fill, level) ==
            LET spent == Min({money - fill.usd, Price(level) * Shares(level)})
            IN  [usd |-> fill.usd + spent, shares |-> fill.shares + spent \div Price(level)]
        filled == FoldLeft(take, [usd |-> 0, shares |-> 0], levels)
    IN  IF Tradable(levels) /\ filled.shares > 0 THEN filled ELSE NoFill

(* Sell shares down the levels; the fill's shares are those that found one.*)
WalkBookToSell(levels, shares) ==
    LET take(fill, level) ==
            LET sold == Min({shares - fill.shares, Shares(level)})
            IN  [usd |-> fill.usd + sold * Price(level), shares |-> fill.shares + sold]
        filled == FoldLeft(take, [usd |-> 0, shares |-> 0], levels)
    IN  IF Tradable(levels) /\ shares > 0 /\ filled.shares > 0 THEN filled ELSE NoFill

MidForSide(book) ==
    IF book.bids # <<>> /\ book.asks # <<>>
    THEN (Price(book.bids[1]) + Price(book.asks[1])) \div 2 ELSE Null

(* ------------------------------ limit orders --------------------------- *)

BookCrossed(book, limit) == book.bids # <<>> /\ Price(book.bids[1]) <= limit

SizeAtLevel(book, limit) ==
    LET here == {i \in DOMAIN book.bids : Price(book.bids[i]) = limit}
    IN  IF here = {} THEN 0 ELSE Shares(book.bids[Min(here)])

(* What has left the queue at the limit, from the placement to snapshot j. *)
Depleted(placed, limit, j) ==
    FoldFunctionOnSet(+, 0,
        [i \in DOMAIN snaps |->
            IF i = placed THEN 0
            ELSE Max({0, SizeAtLevel(snaps[i - 1], limit) - SizeAtLevel(snaps[i], limit)})],
        (placed + 1)..j)

QueueGone(placed, limit, j) ==
    LET ahead == SizeAtLevel(snaps[placed], limit)
    IN  rules.queue /\ ahead > 0 /\ Depleted(placed, limit, j) >= ahead

(* The order fills in full at its limit if, within the timeout, the best   *)
(* bid comes down to it or the queue ahead of it is gone.                  *)
LimitFills(placed, limit) ==
    \E j \in placed..Length :
        /\ j - placed <= rules.timeout
        /\ BookCrossed(snaps[j], limit) \/ QueueGone(placed, limit, j)

LimitPrice(book) ==
    LET reference == IF book.asks # <<>> THEN Price(book.asks[1]) ELSE MidForSide(book)
    IN  IF reference = Null THEN Null ELSE Max({1, Min({Dollar - 1, reference - Offset})})

TryLimitFill(placed) ==
    LET limit == LimitPrice(snaps[placed])
    IN  IF limit # Null /\ LimitFills(placed, limit)
        THEN [usd |-> Stake, shares |-> Stake \div limit] ELSE NoFill

(* ------------------------------- the replay ---------------------------- *)

Book == snaps[turn]

AboveCeiling(book) == book.asks # <<>> /\ Price(book.asks[1]) > rules.ceiling

EntryFill ==
    CASE rules.order = "limit" -> TryLimitFill(turn)
      [] rules.order = "market" /\ rules.fill = "mid" ->
            LET mid == MidForSide(Book)
            IN  IF mid = Null THEN NoFill ELSE [usd |-> Stake, shares |-> Stake \div mid]
      [] OTHER -> WalkBook(Book.asks, Stake)

ExitFill(shares) ==
    IF rules.fill = "mid"
    THEN LET mid == MidForSide(Book)
         IN  IF mid = Null THEN NoFill ELSE [usd |-> shares * mid, shares |-> shares]
    ELSE WalkBookToSell(Book.bids, shares)

Entries == {i \in DOMAIN trades : trades[i].side = "buy"}

Init ==
    /\ snaps \in [1..Length -> Books] /\ rules \in Rules
    /\ payout \in {0, Dollar \div 2, Dollar}
    /\ turn = 1 /\ position = Null /\ trades = <<>>

Looping == turn <= Length

(* No signal, or one that cannot be followed.                              *)
Pass ==
    /\ Looping
    /\ turn' = turn + 1
    /\ UNCHANGED <<snaps, rules, payout, position, trades>>

(* Trades are stamped with the snapshot under the loop, limit orders too,  *)
(* which fill at a later one.                                              *)
Enter ==
    /\ Looping /\ position = Null /\ Cardinality(Entries) < MaxEntries
    /\ ~AboveCeiling(Book)
    /\ LET fill == EntryFill
       IN  /\ fill # NoFill
           /\ trades' = Append(trades, [side |-> "buy", at |-> turn, usd |-> fill.usd,
                                        shares |-> fill.shares, pnl |-> Null,
                                        fee |-> rules.order = "market"])
    /\ position' = Len(trades')
    /\ turn' = turn + 1
    /\ UNCHANGED <<snaps, rules, payout>>

(* The round trip's result goes to the exit, and the entry counts for none.*)
ExitTrade(fill) ==
    [side |-> "sell", at |-> turn, usd |-> fill.usd, shares |-> fill.shares,
     pnl |-> fill.usd - trades[position].usd, fee |-> TRUE]

Closed_EntryOpen(fill) == Append(trades, ExitTrade(fill))
Closed(fill) == Append([trades EXCEPT ![position].pnl = 0], ExitTrade(fill))

Exit ==
    /\ Looping /\ position # Null /\ rules.exits
    /\ LET fill == ExitFill(trades[position].shares)
       IN  fill # NoFill /\ trades' = Closed(fill)
    /\ position' = Null
    /\ turn' = turn + 1
    /\ UNCHANGED <<snaps, rules, payout>>

SettleTrade(t) ==
    IF t.pnl = Null THEN [t EXCEPT !.pnl = t.shares * payout - t.usd] ELSE t

Settle ==
    /\ turn = Length + 1
    /\ trades' = [i \in DOMAIN trades |-> SettleTrade(trades[i])]
    /\ turn' = Length + 2
    /\ UNCHANGED <<snaps, rules, payout, position>>

Next == Pass \/ Enter \/ Exit \/ Settle

(* ------------------------------ properties ----------------------------- *)

TradeType == [side : {"buy", "sell"}, at : 1..Length, usd : Nat, shares : Nat,
              pnl : Int \union {Null}, fee : BOOLEAN]

TypeOK ==
    /\ snaps \in [1..Length -> Books] /\ rules \in Rules
    /\ turn \in 1..(Length + 2)
    /\ position \in Entries \union {Null}
    /\ trades \in Seq(TradeType)

Finished == turn = Length + 2
Settled == Finished /\ \A i \in DOMAIN trades : trades[i].pnl # Null

(* What a taker can get from sorted levels is a concave function of what   *)
(* it puts in, so it is the least of the lines that continue each level:   *)
(* shares for money on the asks, money for shares on the bids.             *)
Before(levels, k, f(_)) ==
    FoldFunctionOnSet(+, 0, [i \in 1..(k - 1) |-> f(levels[i])], 1..(k - 1))
Worth(level) == Price(level) * Shares(level)
Depth(levels, f(_)) == Before(levels, Len(levels) + 1, f)

BestBuy(levels, money) ==
    Min({Before(levels, k, Shares) + (money - Before(levels, k, Worth)) \div Price(levels[k])
            : k \in DOMAIN levels})
BestSale(levels, shares) ==
    Min({Before(levels, k, Worth) + (shares - Before(levels, k, Shares)) * Price(levels[k])
            : k \in DOMAIN levels})

(* A taker's trade gives what the book of its snapshot had for it, neither *)
(* more nor less, as far as the book is deep: the money of an entry buys   *)
(* the most shares its levels could give, and an exit gets the most money  *)
(* for the shares that were bought.                                        *)
FillsWalkTheBook ==
    rules.fill = "walk_book" =>
        \A i \in DOMAIN trades :
            LET t == trades[i]
                book == snaps[t.at]
            IN  /\ t.side = "buy" /\ rules.order = "market" =>
                       /\ t.usd = Min({Stake, Depth(book.asks, Worth)})
                       /\ t.shares = BestBuy(book.asks, t.usd)
                /\ t.side = "sell" =>
                       /\ t.shares = Min({trades[i - 1].shares, Depth(book.bids, Shares)})
                       /\ t.usd = BestSale(book.bids, t.shares)

(* The result of the market is the money its trades brought in less the    *)
(* money they took, each counted once, although it is attributed to exits  *)
(* when positions are closed and to entries when they are held; and only   *)
(* the last position can be held.                                          *)
Sum(f(_), S) == FoldFunctionOnSet(+, 0, [i \in S |-> f(trades[i])], S)
Money(t) == t.usd
Result(t) == t.pnl
Held == IF position = Null THEN 0 ELSE trades[position].shares * payout

EachDollarOnce ==
    /\ Cardinality(Entries) <= MaxEntries
    /\ \A i \in DOMAIN trades : trades[i].side = IF i % 2 = 1 THEN "buy" ELSE "sell"
    /\ Finished =>
           Sum(Result, DOMAIN trades) =
               Sum(Money, DOMAIN trades \ Entries) + Held - Sum(Money, Entries)
=============================================================================
