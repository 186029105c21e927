--------------------------- MODULE BackendProofs ---------------------------
(***************************************************************************)
(* Proofs about what is behind the web app's pages, as sections of         *)
(* Platform: the replay of a market, the rate limiter, billing with its    *)
(* webhook, and the outcomes of markets.                                   *)
(*                                                                         *)
(* Each section has an inductive invariant.  It needs no guard on which    *)
(* section is open: one at rest stays in its initial state, where the      *)
(* invariant holds too.                                                    *)
(*                                                                         *)
(* What the replay's trades made and what its fills took from the books    *)
(* are facts about folds, along the trades and along the levels of a book, *)
(* and are proved by induction on the prefixes of a fold.  The inductive   *)
(* invariant of the replay only keeps, for each trade, the walk that made  *)
(* it and the result it was given.                                         *)
(***************************************************************************)
EXTENDS Platform, FoldProofs

(* ------------------------- the replay of a market ---------------------- *)

(* The module's own copies of the operators are the library's.             *)
LEMMA ReplayOperators ==
  /\ \A S : Engine!Cardinality(S) = Cardinality(S)
  /\ \A S : Engine!Max(S) = Max(S)
  /\ \A S : Engine!Min(S) = Min(S)
  <1>1. \A S : Engine!Cardinality(S) = Cardinality(S)
    BY DEF Engine!Cardinality, Cardinality
  <1>2. \A S : Engine!Max(S) = Max(S)
    BY DEF Engine!Max, Max
  <1>3. \A S : Engine!Min(S) = Min(S)
    BY DEF Engine!Min, Min
  <1>4. QED
    BY <1>1, <1>2, <1>3

(* ------------------------------- the fills ----------------------------- *)

Levels == Seq((1 .. Dollar) \X Nat)
LEMMA ReplayConstants ==
  /\ Dollar \in Nat \ {0} /\ Length \in Nat \ {0} /\ MaxEntries \in Nat
  /\ Stake \in Nat \ {0} /\ Offset \in Nat /\ Null \notin Int
  /\ \A b \in Books : /\ b.asks \in Levels /\ b.bids \in Levels
                     /\ Engine!Ascending(b.asks) /\ Engine!Descending(b.bids)
  /\ \A r \in Rules : r.timeout \in Nat /\ r.order \in {"market", "limit"}
  BY PlatformAssumption DEF Engine!ReplayAssumption, Engine!BookSide, Levels

Fill == [usd : Nat, shares : Nat]
Nothing == [usd |-> 0, shares |-> 0]

(* One level of an entry: the money left, or what the level costs.         *)
Spent(money, fill, level) == Min({money - fill.usd, level[1] * level[2]})
Buy(money, fill, level) ==
    [usd |-> fill.usd + Spent(money, fill, level),
     shares |-> fill.shares + Spent(money, fill, level) \div level[1]]
Buying(money) == {f \in Fill : f.usd <= money}

LEMMA BuyTypes ==
  ASSUME NEW money \in Nat, NEW f \in Buying(money), NEW level \in (1 .. Dollar) \X Nat
  PROVE  /\ Buy(money, f, level) \in Buying(money)
         /\ level[1] \in Nat \ {0} /\ level[2] \in Nat
         /\ Spent(money, f, level) \in Nat
  <1>1. f.usd \in Nat /\ f.shares \in Nat /\ f.usd <= money
    BY DEF Buying, Fill
  <1>2. level[1] \in Nat /\ level[2] \in Nat /\ level[1] > 0
    BY ReplayConstants
  <1> DEFINE p == level[1]  q == level[2]  cost == p * q
  <1>3. cost \in Nat
    BY <1>2
  <1> DEFINE t == Spent(money, f, level)
  <1>4. t = IF money - f.usd <= cost THEN money - f.usd ELSE cost
    <2>1. money - f.usd \in Int /\ cost \in Int
      BY <1>1, <1>3
    <2> HIDE DEF cost
    <2>2. Min({money - f.usd, cost}) = IF money - f.usd <= cost THEN money - f.usd ELSE cost
      BY <2>1, MinOfTwo
    <2>3. QED
      BY <2>2 DEF Spent, cost
  <1> HIDE DEF cost, t
  <1>5. t \in Nat /\ f.usd + t <= money
    BY <1>1, <1>3, <1>4
  <1>6. t \div p \in Nat
    BY <1>2, <1>5
  <1>7. Buy(money, f, level) = [usd |-> f.usd + t, shares |-> f.shares + t \div p]
    BY DEF Buy, t
  <1> HIDE DEF p
  <1>8. Buy(money, f, level) \in Buying(money)
    BY <1>1, <1>5, <1>6, <1>7 DEF Buying, Fill
  <1>9. QED
    BY <1>2, <1>5, <1>8 DEF t

BuyRule(it, levels, money) ==
    it = [s \in SUBSET DOMAIN levels |->
             IF s = {} THEN Nothing ELSE Buy(money, it[s \ {Max(s)}], levels[Max(s)])]

(* The fill after each level of an entry.                                  *)
BuyRun(h, levels, money) ==
    /\ h \in [0 .. Len(levels) -> Buying(money)]
    /\ h[0] = Nothing
    /\ \A k \in 1 .. Len(levels) : h[k] = Buy(money, h[k - 1], levels[k])

LEMMA WalkBookIs ==
  \A levels, money :
     Engine!WalkBook(levels, money) =
       LET filled == (CHOOSE it : BuyRule(it, levels, money))[DOMAIN levels]
       IN  IF Engine!Tradable(levels) /\ filled.shares > 0 THEN filled ELSE Null
  BY DEF Engine!Max, Max, Engine!Min, Min, Engine!WalkBook, Engine!FoldLeft, Engine!MapThenFoldSet, BuyRule, Buy, Spent, Nothing,
     Engine!Price, Engine!Shares, Engine!NoFill

LEMMA BuyRuleExists ==
  ASSUME NEW levels \in Levels, NEW money \in Nat
  PROVE  \E it : BuyRule(it, levels, money)
  <1> DEFINE E == (1 .. Dollar) \X Nat
             V == Buying(money)
             G == [p \in V \X E |-> Buy(money, p[1], p[2])]
  <1>1. \A v \in V, e \in E : G[<<v, e>>] = Buy(money, v, e)
    OBVIOUS
  <1>2. Follows(G, V, E)
    <2> SUFFICES ASSUME NEW v \in V, NEW e \in E PROVE G[<<v, e>>] \in V
      BY DEF Follows
    <2>1. Buy(money, v, e) \in V
      BY BuyTypes
    <2>2. QED
      BY <1>1, <2>1
  <1>3. Nothing \in V
    BY DEF Buying, Fill, Nothing
  <1>4. levels \in Seq(E)
    BY DEF Levels
  <1> HIDE DEF G, E, V
  <1>5. PICK it : LeftRule(it, V, Nothing, G, levels)
    BY <1>2, <1>3, <1>4, LeftExists
  <1>6. ASSUME NEW s \in SUBSET DOMAIN levels
        PROVE  it[s] = IF s = {} THEN Nothing ELSE Buy(money, it[s \ {Max(s)}], levels[Max(s)])
    <2>1. CASE s = {}
      BY <1>5, <2>1 DEF LeftRule
    <2>2. CASE s # {}
      <3>1. Max(s) \in DOMAIN levels
        BY <1>4, <2>2, MaxOfSome, LenProperties
      <3>2. levels[Max(s)] \in E
        BY <1>4, <3>1, ElementOfSeq, LenProperties
      <3>3. it[s \ {Max(s)}] \in V
        BY <1>5 DEF LeftRule
      <3>4. it[s] = G[<<it[s \ {Max(s)}], levels[Max(s)]>>]
        BY <1>5, <2>2 DEF LeftRule
      <3>5. QED
        BY <1>1, <2>2, <3>2, <3>3, <3>4
    <2>3. QED
      BY <2>1, <2>2
  <1>7. it = [s \in SUBSET DOMAIN levels |-> it[s]]
    BY <1>5 DEF LeftRule
  <1>8. BuyRule(it, levels, money)
    BY <1>6, <1>7 DEF BuyRule
  <1>9. QED
    BY <1>8

LEMMA BuySteps ==
  ASSUME NEW levels \in Levels, NEW money \in Nat
  PROVE  \E h : /\ BuyRun(h, levels, money)
                /\ Engine!WalkBook(levels, money) =
                     IF Engine!Tradable(levels) /\ h[Len(levels)].shares > 0
                     THEN h[Len(levels)] ELSE Null
  <1> DEFINE n == Len(levels)
             it == CHOOSE it : BuyRule(it, levels, money)
             h == [k \in 0 .. n |-> it[1 .. k]]
             T == {k \in Nat : h[k] \in Buying(money)}
  <1>1. BuyRule(it, levels, money)
    BY BuyRuleExists
  <1>2. DOMAIN levels = 1 .. n /\ n \in Nat /\ \A k \in 1 .. n : levels[k] \in (1 .. Dollar) \X Nat
    BY LenProperties, ElementOfSeq DEF Levels
  <1> HIDE DEF it
  <1>3. \A s \in SUBSET (1 .. n) :
           it[s] = IF s = {} THEN Nothing ELSE Buy(money, it[s \ {Max(s)}], levels[Max(s)])
    BY <1>1, <1>2 DEF BuyRule
  <1>4. h[0] = Nothing
    <2>1. 1 .. 0 = {} /\ 0 \in 0 .. n
      BY <1>2
    <2>2. QED
      BY <1>3, <2>1
  <1>5. ASSUME NEW k \in 1 .. n
        PROVE  h[k] = Buy(money, h[k - 1], levels[k])
    <2>1. k \in Nat \ {0} /\ k \in 0 .. n /\ k - 1 \in 0 .. n /\ 1 .. k \in SUBSET (1 .. n)
      BY <1>2
    <2>2. Max(1 .. k) = k /\ (1 .. k) \ {k} = 1 .. (k - 1) /\ 1 .. k # {}
      BY <2>1, MaxOfInterval
    <2>3. it[1 .. k] = Buy(money, it[1 .. (k - 1)], levels[k])
      BY <1>3, <2>1, <2>2
    <2>4. QED
      BY <2>1, <2>3
  <1>6. h = [k \in 0 .. n |-> h[k]] /\ h[n] = it[DOMAIN levels]
    BY <1>2
  <1> HIDE DEF h
  <1>7. 0 \in T
    BY <1>4 DEF Buying, Fill, Nothing
  <1>8. ASSUME NEW k \in Nat, k < n, k \in T
        PROVE  k + 1 \in T
    <2>1. k + 1 \in 1 .. n /\ (k + 1) - 1 = k
      BY <1>2, <1>8
    <2>2. h[k + 1] = Buy(money, h[k], levels[k + 1])
      BY <1>5, <2>1
    <2>3. h[k] \in Buying(money) /\ levels[k + 1] \in (1 .. Dollar) \X Nat
      BY <1>2, <1>8, <2>1
    <2>4. Buy(money, h[k], levels[k + 1]) \in Buying(money)
      BY <2>3, BuyTypes
    <2>5. QED
      BY <2>2, <2>4
  <1>9. \A k \in 0 .. n : k \in T
    <2> HIDE DEF T, n
    <2>1. QED
      BY <1>2, <1>7, <1>8, BoundedInduction
  <1>10. BuyRun(h, levels, money)
    BY <1>4, <1>5, <1>6, <1>9 DEF BuyRun
  <1>11. QED
    BY <1>6, <1>10, WalkBookIs DEF it
(* One level of an exit: the shares left, or as many as the level takes.   *)
Sold(shares, fill, level) == Min({shares - fill.shares, level[2]})
Sell(shares, fill, level) ==
    [usd |-> fill.usd + Sold(shares, fill, level) * level[1],
     shares |-> fill.shares + Sold(shares, fill, level)]
Selling(shares) == {f \in Fill : f.shares <= shares}

LEMMA SellTypes ==
  ASSUME NEW shares \in Nat, NEW f \in Selling(shares), NEW level \in (1 .. Dollar) \X Nat
  PROVE  /\ Sell(shares, f, level) \in Selling(shares)
         /\ level[1] \in Nat \ {0} /\ level[2] \in Nat
         /\ Sold(shares, f, level) \in Nat
  <1>1. f.usd \in Nat /\ f.shares \in Nat /\ f.shares <= shares
    BY DEF Selling, Fill
  <1>2. level[1] \in Nat /\ level[2] \in Nat /\ level[1] > 0
    BY ReplayConstants
  <1> DEFINE p == level[1]  q == level[2]  t == Sold(shares, f, level)
  <1>3. t = IF shares - f.shares <= q THEN shares - f.shares ELSE q
    <2>1. shares - f.shares \in Int /\ q \in Int
      BY <1>1, <1>2
    <2>2. QED
      BY <2>1, MinOfTwo DEF Sold
  <1> HIDE DEF t
  <1>4. t \in Nat /\ f.shares + t <= shares
    BY <1>1, <1>2, <1>3
  <1>5. t * p \in Nat
    BY <1>2, <1>4
  <1>6. Sell(shares, f, level) = [usd |-> f.usd + t * p, shares |-> f.shares + t]
    BY DEF Sell, t
  <1> HIDE DEF p
  <1>7. Sell(shares, f, level) \in Selling(shares)
    BY <1>1, <1>4, <1>5, <1>6 DEF Selling, Fill
  <1>8. QED
    BY <1>2, <1>4, <1>7 DEF t

SellRule(it, levels, shares) ==
    it = [s \in SUBSET DOMAIN levels |->
             IF s = {} THEN Nothing ELSE Sell(shares, it[s \ {Max(s)}], levels[Max(s)])]

(* The fill after each level of an exit.                                  *)
SellRun(h, levels, shares) ==
    /\ h \in [0 .. Len(levels) -> Selling(shares)]
    /\ h[0] = Nothing
    /\ \A k \in 1 .. Len(levels) : h[k] = Sell(shares, h[k - 1], levels[k])

LEMMA WalkBookToSellIs ==
  \A levels, shares :
     Engine!WalkBookToSell(levels, shares) =
       LET filled == (CHOOSE it : SellRule(it, levels, shares))[DOMAIN levels]
       IN  IF Engine!Tradable(levels) /\ shares > 0 /\ filled.shares > 0 THEN filled ELSE Null
  BY DEF Engine!Max, Max, Engine!Min, Min, Engine!WalkBookToSell, Engine!FoldLeft, Engine!MapThenFoldSet, SellRule, Sell, Sold, Nothing,
     Engine!Price, Engine!Shares, Engine!NoFill

LEMMA SellRuleExists ==
  ASSUME NEW levels \in Levels, NEW shares \in Nat
  PROVE  \E it : SellRule(it, levels, shares)
  <1> DEFINE E == (1 .. Dollar) \X Nat
             V == Selling(shares)
             G == [p \in V \X E |-> Sell(shares, p[1], p[2])]
  <1>1. \A v \in V, e \in E : G[<<v, e>>] = Sell(shares, v, e)
    OBVIOUS
  <1>2. Follows(G, V, E)
    <2> SUFFICES ASSUME NEW v \in V, NEW e \in E PROVE G[<<v, e>>] \in V
      BY DEF Follows
    <2>1. Sell(shares, v, e) \in V
      BY SellTypes
    <2>2. QED
      BY <1>1, <2>1
  <1>3. Nothing \in V
    BY DEF Selling, Fill, Nothing
  <1>4. levels \in Seq(E)
    BY DEF Levels
  <1> HIDE DEF G, E, V
  <1>5. PICK it : LeftRule(it, V, Nothing, G, levels)
    BY <1>2, <1>3, <1>4, LeftExists
  <1>6. ASSUME NEW s \in SUBSET DOMAIN levels
        PROVE  it[s] = IF s = {} THEN Nothing ELSE Sell(shares, it[s \ {Max(s)}], levels[Max(s)])
    <2>1. CASE s = {}
      BY <1>5, <2>1 DEF LeftRule
    <2>2. CASE s # {}
      <3>1. Max(s) \in DOMAIN levels
        BY <1>4, <2>2, MaxOfSome, LenProperties
      <3>2. levels[Max(s)] \in E
        BY <1>4, <3>1, ElementOfSeq, LenProperties
      <3>3. it[s \ {Max(s)}] \in V
        BY <1>5 DEF LeftRule
      <3>4. it[s] = G[<<it[s \ {Max(s)}], levels[Max(s)]>>]
        BY <1>5, <2>2 DEF LeftRule
      <3>5. QED
        BY <1>1, <2>2, <3>2, <3>3, <3>4
    <2>3. QED
      BY <2>1, <2>2
  <1>7. it = [s \in SUBSET DOMAIN levels |-> it[s]]
    BY <1>5 DEF LeftRule
  <1>8. SellRule(it, levels, shares)
    BY <1>6, <1>7 DEF SellRule
  <1>9. QED
    BY <1>8

LEMMA SellSteps ==
  ASSUME NEW levels \in Levels, NEW shares \in Nat
  PROVE  \E h : /\ SellRun(h, levels, shares)
                /\ Engine!WalkBookToSell(levels, shares) =
                     IF Engine!Tradable(levels) /\ shares > 0 /\ h[Len(levels)].shares > 0
                     THEN h[Len(levels)] ELSE Null
  <1> DEFINE n == Len(levels)
             it == CHOOSE it : SellRule(it, levels, shares)
             h == [k \in 0 .. n |-> it[1 .. k]]
             T == {k \in Nat : h[k] \in Selling(shares)}
  <1>1. SellRule(it, levels, shares)
    BY SellRuleExists
  <1>2. DOMAIN levels = 1 .. n /\ n \in Nat /\ \A k \in 1 .. n : levels[k] \in (1 .. Dollar) \X Nat
    BY LenProperties, ElementOfSeq DEF Levels
  <1> HIDE DEF it
  <1>3. \A s \in SUBSET (1 .. n) :
           it[s] = IF s = {} THEN Nothing ELSE Sell(shares, it[s \ {Max(s)}], levels[Max(s)])
    BY <1>1, <1>2 DEF SellRule
  <1>4. h[0] = Nothing
    <2>1. 1 .. 0 = {} /\ 0 \in 0 .. n
      BY <1>2
    <2>2. QED
      BY <1>3, <2>1
  <1>5. ASSUME NEW k \in 1 .. n
        PROVE  h[k] = Sell(shares, h[k - 1], levels[k])
    <2>1. k \in Nat \ {0} /\ k \in 0 .. n /\ k - 1 \in 0 .. n /\ 1 .. k \in SUBSET (1 .. n)
      BY <1>2
    <2>2. Max(1 .. k) = k /\ (1 .. k) \ {k} = 1 .. (k - 1) /\ 1 .. k # {}
      BY <2>1, MaxOfInterval
    <2>3. it[1 .. k] = Sell(shares, it[1 .. (k - 1)], levels[k])
      BY <1>3, <2>1, <2>2
    <2>4. QED
      BY <2>1, <2>3
  <1>6. h = [k \in 0 .. n |-> h[k]] /\ h[n] = it[DOMAIN levels]
    BY <1>2
  <1> HIDE DEF h
  <1>7. 0 \in T
    BY <1>4 DEF Selling, Fill, Nothing
  <1>8. ASSUME NEW k \in Nat, k < n, k \in T
        PROVE  k + 1 \in T
    <2>1. k + 1 \in 1 .. n /\ (k + 1) - 1 = k
      BY <1>2, <1>8
    <2>2. h[k + 1] = Sell(shares, h[k], levels[k + 1])
      BY <1>5, <2>1
    <2>3. h[k] \in Selling(shares) /\ levels[k + 1] \in (1 .. Dollar) \X Nat
      BY <1>2, <1>8, <2>1
    <2>4. Sell(shares, h[k], levels[k + 1]) \in Selling(shares)
      BY <2>3, SellTypes
    <2>5. QED
      BY <2>2, <2>4
  <1>9. \A k \in 0 .. n : k \in T
    <2> HIDE DEF T, n
    <2>1. QED
      BY <1>2, <1>7, <1>8, BoundedInduction
  <1>10. SellRun(h, levels, shares)
    BY <1>4, <1>5, <1>6, <1>9 DEF SellRun
  <1>11. QED
    BY <1>6, <1>10, WalkBookToSellIs DEF it
MarketTypes ==
    /\ snaps \in [1 .. Length -> Books] /\ rules \in Rules /\ payout \in Nat
    /\ turn \in 1 .. (Length + 2)

LEMMA BestLevel ==
  ASSUME NEW levels \in Levels, levels # <<>>
  PROVE  /\ levels[1] \in (1 .. Dollar) \X Nat
         /\ Engine!Price(levels[1]) \in Nat \ {0}
  <1>1. Len(levels) \in Nat /\ DOMAIN levels = 1 .. Len(levels) /\ Len(levels) # 0
    BY LenProperties, EmptySeq DEF Levels
  <1>2. levels[1] \in (1 .. Dollar) \X Nat
    BY <1>1, ElementOfSeq DEF Levels
  <1>3. QED
    BY <1>2, ReplayConstants DEF Engine!Price

LEMMA MidTypes ==
  ASSUME NEW b \in Books, Engine!MidForSide(b) # Null
  PROVE  Engine!MidForSide(b) \in Nat \ {0}
  <1>1. b.asks \in Levels /\ b.bids \in Levels
    BY ReplayConstants
  <1>2. b.asks # <<>> /\ b.bids # <<>>
    BY DEF Engine!MidForSide
  <1> DEFINE x == Engine!Price(b.bids[1])  y == Engine!Price(b.asks[1])
  <1>3. x \in Nat \ {0} /\ y \in Nat \ {0}
    BY <1>1, <1>2, BestLevel
  <1>4. Engine!MidForSide(b) = (x + y) \div 2
    BY <1>2 DEF Engine!MidForSide
  <1> HIDE DEF x, y
  <1>5. (x + y) \div 2 \in Nat \ {0}
    BY <1>3
  <1>6. QED
    BY <1>4, <1>5

LEMMA LimitTypes ==
  ASSUME NEW b \in Books, Engine!LimitPrice(b) # Null
  PROVE  Engine!LimitPrice(b) \in Nat \ {0}
  <1> DEFINE reference == IF b.asks # <<>> THEN Engine!Price(b.asks[1]) ELSE Engine!MidForSide(b)
             below == Min({Dollar - 1, reference - Offset})
  <1>1. Engine!LimitPrice(b) =
          IF reference = Null THEN Null ELSE Max({1, below})
    BY ReplayOperators DEF Engine!LimitPrice
  <1>2. reference # Null
    BY <1>1
  <1>3. reference \in Nat
    <2>1. CASE b.asks # <<>>
      BY <2>1, BestLevel, ReplayConstants
    <2>2. CASE b.asks = <<>>
      BY <1>2, <2>2, MidTypes
    <2>3. QED
      BY <2>1, <2>2
  <1> HIDE DEF reference
  <1>4. Dollar - 1 \in Int /\ reference - Offset \in Int
    BY <1>3, ReplayConstants
  <1>5. below \in Int
    BY <1>4, MinOfTwo
  <1> HIDE DEF below
  <1>6. Max({1, below}) = IF 1 <= below THEN below ELSE 1
    BY <1>5, MaxOfTwo
  <1>7. QED
    BY <1>1, <1>2, <1>5, <1>6

LEMMA EntryFillTypes ==
  ASSUME MarketTypes, turn <= Length, Engine!EntryFill # Null
  PROVE  Engine!EntryFill \in Fill
  <1>1. snaps[turn] \in Books /\ rules \in Rules /\ rules.order \in {"market", "limit"}
    BY ReplayConstants DEF MarketTypes
  <1> DEFINE limit == Engine!LimitPrice(snaps[turn])
             mid == Engine!MidForSide(snaps[turn])
  <1>2. Stake \in Nat /\ \A p \in Nat \ {0} : Stake \div p \in Nat
    <2>1. Stake \in Nat
      BY ReplayConstants
    <2>2. ASSUME NEW p \in Nat \ {0} PROVE Stake \div p \in Nat
      BY <2>1
    <2>3. QED
      BY <2>1, <2>2
  <1>3. CASE rules.order = "limit"
    <2>1. Engine!EntryFill = Engine!TryLimitFill(turn)
      BY <1>3 DEF Engine!EntryFill
    <2>2. limit # Null /\ Engine!TryLimitFill(turn) = [usd |-> Stake, shares |-> Stake \div limit]
      BY <2>1, Zenon DEF Engine!TryLimitFill, Engine!NoFill
    <2>3. limit \in Nat \ {0}
      BY <1>1, <2>2, LimitTypes
    <2> HIDE DEF limit
    <2>4. QED
      BY <1>2, <2>1, <2>2, <2>3 DEF Fill
  <1>4. CASE rules.order = "market" /\ rules.fill = "mid"
    <2>1. Engine!EntryFill = IF mid = Null THEN Null ELSE [usd |-> Stake, shares |-> Stake \div mid]
      BY <1>4 DEF Engine!EntryFill, Engine!NoFill, Engine!Book
    <2>2. mid # Null
      BY <2>1
    <2>3. mid \in Nat \ {0}
      BY <1>1, <2>2, MidTypes
    <2> HIDE DEF mid
    <2>4. QED
      BY <1>2, <2>1, <2>2, <2>3 DEF Fill
  <1>5. CASE rules.order = "market" /\ rules.fill # "mid"
    <2> DEFINE levels == snaps[turn].asks
    <2>1. Engine!EntryFill = Engine!WalkBook(levels, Stake)
      BY <1>5 DEF Engine!EntryFill, Engine!Book
    <2>2. levels \in Levels
      BY <1>1, ReplayConstants
    <2> HIDE DEF levels
    <2>3. PICK h : /\ BuyRun(h, levels, Stake)
                   /\ Engine!WalkBook(levels, Stake) =
                        IF Engine!Tradable(levels) /\ h[Len(levels)].shares > 0
                        THEN h[Len(levels)] ELSE Null
      BY <1>2, <2>2, BuySteps
    <2>4. h[Len(levels)] \in Fill
      <3>1. Len(levels) \in 0 .. Len(levels)
        BY <2>2, LenProperties DEF Levels
      <3>2. QED
        BY <2>3, <3>1 DEF BuyRun, Buying
    <2>5. QED
      BY <2>1, <2>3, <2>4
  <1>6. QED
    BY <1>1, <1>3, <1>4, <1>5

LEMMA ExitFillTypes ==
  ASSUME MarketTypes, turn <= Length, NEW shares \in Nat, Engine!ExitFill(shares) # Null
  PROVE  Engine!ExitFill(shares) \in Fill
  <1>1. snaps[turn] \in Books /\ rules \in Rules
    BY DEF MarketTypes
  <1> DEFINE mid == Engine!MidForSide(snaps[turn])
  <1>2. CASE rules.fill = "mid"
    <2>1. Engine!ExitFill(shares) = IF mid = Null THEN Null ELSE [usd |-> shares * mid, shares |-> shares]
      BY <1>2 DEF Engine!ExitFill, Engine!NoFill, Engine!Book
    <2>2. mid # Null
      BY <2>1
    <2>3. mid \in Nat
      BY <1>1, <2>2, MidTypes
    <2> HIDE DEF mid
    <2>4. shares * mid \in Nat
      BY <2>3
    <2>5. QED
      BY <2>1, <2>2, <2>4 DEF Fill
  <1>3. CASE rules.fill # "mid"
    <2> DEFINE levels == snaps[turn].bids
    <2>1. Engine!ExitFill(shares) = Engine!WalkBookToSell(levels, shares)
      BY <1>3 DEF Engine!ExitFill, Engine!Book
    <2>2. levels \in Levels
      BY <1>1, ReplayConstants
    <2> HIDE DEF levels
    <2>3. PICK h : /\ SellRun(h, levels, shares)
                   /\ Engine!WalkBookToSell(levels, shares) =
                        IF Engine!Tradable(levels) /\ shares > 0 /\ h[Len(levels)].shares > 0
                        THEN h[Len(levels)] ELSE Null
      BY <2>2, SellSteps
    <2>4. h[Len(levels)] \in Fill
      <3>1. Len(levels) \in 0 .. Len(levels)
        BY <2>2, LenProperties DEF Levels
      <3>2. QED
        BY <2>3, <3>1 DEF SellRun, Selling
    <2>5. QED
      BY <2>1, <2>3, <2>4
  <1>4. QED
    BY <1>2, <1>3
(* ----------------------------- the invariant --------------------------- *)

(* Trades come in pairs, an entry and its exit; only the last can be open. *)
Alternates == \A i \in DOMAIN trades : trades[i].side = IF i % 2 = 1 THEN "buy" ELSE "sell"
OneOpen == position = IF Len(trades) % 2 = 1 THEN Len(trades) ELSE Null

(* The result of a pair is its exit's; that of an open entry is left open  *)
(* until the settlement.                                                   *)
ResultOf(i) ==
    IF trades[i].side = "sell" THEN trades[i].usd - trades[i - 1].usd
    ELSE IF i # Len(trades) THEN 0
    ELSE IF turn = Length + 2 THEN trades[i].shares * payout - trades[i].usd ELSE Null
Attributed == \A i \in DOMAIN trades : trades[i].pnl = ResultOf(i)

(* A taker's trade is the walk of its snapshot's book.                     *)
WalkOf(i) ==
    IF trades[i].side = "buy" THEN Engine!WalkBook(snaps[trades[i].at].asks, Stake)
    ELSE Engine!WalkBookToSell(snaps[trades[i].at].bids, trades[i - 1].shares)
FillOf(t) == [usd |-> t.usd, shares |-> t.shares]
Taken(i) == rules.fill = "walk_book" /\ (trades[i].side = "buy" => rules.order = "market")
Walked == \A i \in DOMAIN trades :
              Taken(i) => WalkOf(i) = FillOf(trades[i]) /\ WalkOf(i) # Null

EngineInv ==
    /\ MarketTypes /\ trades \in Seq(Engine!TradeType)
    /\ Alternates /\ OneOpen /\ Attributed /\ Walked
    /\ Cardinality(Engine!Entries) <= MaxEntries

LEMMA TradesShape ==
  ASSUME trades \in Seq(Engine!TradeType)
  PROVE  /\ Len(trades) \in Nat /\ DOMAIN trades = 1 .. Len(trades)
         /\ \A i \in DOMAIN trades :
               /\ trades[i] \in Engine!TradeType
               /\ trades[i].usd \in Nat /\ trades[i].shares \in Nat
               /\ trades[i].at \in 1 .. Length /\ trades[i].side \in {"buy", "sell"}
         /\ IsFiniteSet(DOMAIN trades) /\ IsFiniteSet(Engine!Entries)
         /\ Cardinality(Engine!Entries) \in Nat
  <1>1. Len(trades) \in Nat /\ DOMAIN trades = 1 .. Len(trades)
    BY LenProperties
  <1>2. \A i \in DOMAIN trades : trades[i] \in Engine!TradeType
    BY <1>1, ElementOfSeq
  <1>3. IsFiniteSet(1 .. Len(trades))
    BY <1>1, FS_Interval
  <1>4. IsFiniteSet(Engine!Entries)
    <2>1. Engine!Entries \subseteq 1 .. Len(trades)
      BY <1>1 DEF Engine!Entries
    <2>2. QED
      BY <1>3, <2>1, FS_Subset
  <1>5. Cardinality(Engine!Entries) \in Nat
    BY <1>4, FS_CardinalityType
  <1>6. QED
    BY <1>1, <1>2, <1>3, <1>4, <1>5 DEF Engine!TradeType

LEMMA ReplayStarts ==
  ASSUME Engine!Init
  PROVE  EngineInv
  <1>1. MarketTypes
    <2>1. payout \in Nat
      <3>1. Dollar \in Nat
        BY ReplayConstants
      <3>2. Dollar \div 2 \in Nat
        BY <3>1
      <3>3. QED
        BY <3>1, <3>2 DEF Engine!Init
    <2>2. turn \in 1 .. (Length + 2)
      BY ReplayConstants DEF Engine!Init
    <2>3. QED
      BY <2>1, <2>2 DEF Engine!Init, MarketTypes
  <1>2. trades = <<>> /\ position = Null
    BY DEF Engine!Init
  <1>3. trades \in Seq(Engine!TradeType) /\ Len(trades) = 0 /\ DOMAIN trades = {}
    BY <1>2, EmptySeq
  <1>4. Alternates /\ OneOpen /\ Attributed /\ Walked
    BY <1>2, <1>3 DEF Alternates, OneOpen, Attributed, Walked
  <1>5. Cardinality(Engine!Entries) = 0
    <2>1. Engine!Entries = {}
      BY <1>3 DEF Engine!Entries
    <2>2. QED
      BY <2>1, FS_EmptySet
  <1>6. QED
    BY <1>1, <1>3, <1>4, <1>5, ReplayConstants DEF EngineInv

LEMMA ReplayPass ==
  ASSUME EngineInv, Engine!Pass
  PROVE  EngineInv'
  <1>1. /\ turn' = turn + 1 /\ turn <= Length
        /\ UNCHANGED <<snaps, rules, payout, position, trades>>
    BY DEF Engine!Pass, Engine!Looping
  <1>2. MarketTypes'
    BY <1>1, ReplayConstants DEF EngineInv, MarketTypes
  <1>3. turn' # Length + 2 /\ turn # Length + 2
    BY <1>1, ReplayConstants DEF EngineInv, MarketTypes
  <1>4. Attributed'
    BY <1>1, <1>3 DEF EngineInv, Attributed, ResultOf
  <1>5. QED
    BY <1>1, <1>2, <1>4 DEF EngineInv, Alternates, OneOpen, Walked, Taken, WalkOf, FillOf, Engine!Entries

LEMMA ReplayEnter ==
  ASSUME EngineInv, Engine!Enter
  PROVE  EngineInv'
  <1> DEFINE n == Len(trades)
             fill == Engine!EntryFill
             new == [side |-> "buy", at |-> turn, usd |-> fill.usd, shares |-> fill.shares,
                     pnl |-> Null, fee |-> rules.order = "market"]
  <1>1. /\ turn <= Length /\ position = Null /\ fill # Null
        /\ Cardinality(Engine!Entries) < MaxEntries
        /\ trades' = Append(trades, new) /\ position' = Len(trades')
        /\ turn' = turn + 1 /\ UNCHANGED <<snaps, rules, payout>>
    BY ReplayOperators DEF Engine!Enter, Engine!Looping, Engine!NoFill
  <1>2. /\ n \in Nat /\ DOMAIN trades = 1 .. n
        /\ IsFiniteSet(Engine!Entries) /\ Cardinality(Engine!Entries) \in Nat
        /\ \A i \in 1 .. n : trades[i] \in Engine!TradeType
    BY TradesShape DEF EngineInv
  <1>3. MarketTypes /\ turn \in 1 .. Length
    BY <1>1, ReplayConstants DEF EngineInv, MarketTypes
  <1>4. fill \in Fill
    BY <1>1, <1>3, EntryFillTypes
  <1>5. new \in Engine!TradeType
    BY <1>3, <1>4 DEF Fill, Engine!TradeType
  <1>6. /\ trades' \in Seq(Engine!TradeType) /\ Len(trades') = n + 1 /\ DOMAIN trades' = 1 .. (n + 1)
        /\ \A i \in 1 .. n : trades'[i] = trades[i]
        /\ trades'[n + 1] = new
    BY <1>1, <1>2, <1>5, AppendProperties DEF EngineInv
  <1>7. n % 2 = 0 /\ (n + 1) % 2 = 1
    <2>1. n % 2 # 1
      BY <1>1, <1>2, ReplayConstants DEF EngineInv, OneOpen
    <2>2. QED
      BY <1>2, <2>1
  <1>8. MarketTypes'
    BY <1>1, <1>3, ReplayConstants DEF MarketTypes
  <1>9. new.side = "buy" /\ new.pnl = Null /\ FillOf(new) = fill /\ new.at = turn
    BY <1>4 DEF FillOf, Fill
  <1>10. turn # Length + 2 /\ turn' # Length + 2
    BY <1>1, <1>3, ReplayConstants
  <1>11. rules.fill = "walk_book" /\ rules.order = "market" =>
           Engine!WalkBook(snaps[turn].asks, Stake) = fill
    BY DEF Engine!EntryFill, Engine!Book
  <1> HIDE DEF new, fill, n
  <1>12. Alternates'
    <2> SUFFICES ASSUME NEW i \in 1 .. (n + 1)
                 PROVE  trades'[i].side = IF i % 2 = 1 THEN "buy" ELSE "sell"
      BY <1>6 DEF Alternates
    <2>1. CASE i = n + 1
      BY <1>6, <1>7, <1>9, <2>1
    <2>2. CASE i # n + 1
      <3>1. i \in 1 .. n
        BY <1>2, <2>2
      <3>2. QED
        BY <1>2, <1>6, <3>1 DEF EngineInv, Alternates
    <2>3. QED
      BY <2>1, <2>2
  <1>13. OneOpen'
    BY <1>1, <1>6, <1>7 DEF OneOpen
  <1>14. Attributed'
    <2> SUFFICES ASSUME NEW i \in 1 .. (n + 1)
                 PROVE  trades'[i].pnl = ResultOf(i)'
      BY <1>6 DEF Attributed
    <2>1. CASE i = n + 1
      BY <1>6, <1>9, <1>10, <2>1 DEF ResultOf
    <2>2. CASE i # n + 1
      <3>1. i \in 1 .. n
        BY <1>2, <2>2
      <3>2. trades[i].side = "sell" => i - 1 \in 1 .. n
        <4>1. trades[i].side = "sell" => i % 2 # 1
          BY <1>2, <3>1 DEF EngineInv, Alternates
        <4>2. QED
          BY <1>2, <3>1, <4>1
      <3>3. trades[i].side # "sell" => i # n
        <4>1. trades[n].side = "sell" \/ n = 0
          BY <1>2, <1>7 DEF EngineInv, Alternates
        <4>2. QED
          BY <3>1, <4>1
      <3>4. trades[i].pnl = ResultOf(i)
        BY <1>2, <3>1 DEF EngineInv, Attributed
      <3>5. QED
        BY <1>6, <2>2, <3>1, <3>2, <3>3, <3>4 DEF ResultOf, n
    <2>3. QED
      BY <2>1, <2>2
  <1>15. Walked'
    <2> SUFFICES ASSUME NEW i \in 1 .. (n + 1), Taken(i)'
                 PROVE  WalkOf(i)' = FillOf(trades'[i]) /\ WalkOf(i)' # Null
      BY <1>6 DEF Walked
    <2>1. CASE i = n + 1
      <3>1. trades'[i].side = "buy" /\ trades'[i].at = turn /\ FillOf(trades'[i]) = fill
        BY <1>6, <1>9, <2>1
      <3>2. rules.fill = "walk_book" /\ rules.order = "market"
        BY <1>1, <3>1 DEF Taken
      <3>3. WalkOf(i)' = Engine!WalkBook(snaps[turn].asks, Stake)
        BY <1>1, <3>1 DEF WalkOf
      <3>4. QED
        BY <1>1, <1>11, <3>1, <3>2, <3>3
    <2>2. CASE i # n + 1
      <3>1. i \in 1 .. n
        BY <1>2, <2>2
      <3>2. trades[i].side = "sell" => i - 1 \in 1 .. n
        <4>1. trades[i].side = "sell" => i % 2 # 1
          BY <1>2, <3>1 DEF EngineInv, Alternates
        <4>2. QED
          BY <1>2, <3>1, <4>1
      <3>3. trades[i].side \in {"buy", "sell"}
        BY <1>2, <3>1 DEF Engine!TradeType
      <3>4. Taken(i)
        BY <1>1, <1>6, <3>1 DEF Taken
      <3>5. WalkOf(i) = FillOf(trades[i]) /\ WalkOf(i) # Null
        BY <1>2, <3>1, <3>4 DEF EngineInv, Walked
      <3>6. QED
        BY <1>1, <1>6, <3>1, <3>2, <3>3, <3>5 DEF WalkOf
    <2>3. QED
      BY <2>1, <2>2
  <1>16. Cardinality(Engine!Entries') <= MaxEntries
    <2>1. Engine!Entries' = Engine!Entries \cup {n + 1}
      <3>1. 1 .. (n + 1) = (1 .. n) \cup {n + 1}
        BY <1>2
      <3>2. Engine!Entries' = {i \in 1 .. (n + 1) : trades'[i].side = "buy"}
        BY <1>6 DEF Engine!Entries
      <3>3. Engine!Entries = {i \in 1 .. n : trades[i].side = "buy"}
        BY <1>2 DEF Engine!Entries
      <3>4. trades'[n + 1].side = "buy" /\ \A i \in 1 .. n : trades'[i] = trades[i]
        BY <1>6, <1>9
      <3>5. QED
        BY <3>1, <3>2, <3>3, <3>4
    <2>2. Cardinality(Engine!Entries \cup {n + 1}) <= Cardinality(Engine!Entries) + 1
      <3> DEFINE S == Engine!Entries
      <3>1. Cardinality(S \cup {n + 1}) =
              IF n + 1 \in S THEN Cardinality(S) ELSE Cardinality(S) + 1
        BY <1>2, FS_AddElement, Zenon
      <3> HIDE DEF S
      <3>2. Cardinality(S) \in Nat
        BY <1>2 DEF S
      <3>3. QED
        BY <3>1, <3>2 DEF S
    <2>3. IsFiniteSet(Engine!Entries \cup {n + 1})
      BY <1>2, FS_AddElement
    <2>4. Cardinality(Engine!Entries \cup {n + 1}) \in Nat
      BY <2>3, FS_CardinalityType
    <2>5. QED
      BY <1>1, <1>2, <2>1, <2>2, <2>4, ReplayConstants
  <1>17. QED
    BY <1>6, <1>8, <1>12, <1>13, <1>14, <1>15, <1>16 DEF EngineInv

LEMMA ReplayExit ==
  ASSUME EngineInv, Engine!Exit
  PROVE  EngineInv'
  <1> DEFINE n == Len(trades)
             shares == trades[position].shares
             fill == Engine!ExitFill(shares)
             zeroed == [trades EXCEPT ![position].pnl = 0]
             new == [side |-> "sell", at |-> turn, usd |-> fill.usd, shares |-> fill.shares,
                     pnl |-> fill.usd - trades[position].usd, fee |-> TRUE]
  <1>1. /\ turn <= Length /\ position # Null /\ fill # Null
        /\ trades' = Append(zeroed, new) /\ position' = Null
        /\ turn' = turn + 1 /\ UNCHANGED <<snaps, rules, payout>>
    BY DEF Engine!Exit, Engine!Looping, Engine!NoFill, Engine!Closed, Engine!ExitTrade
  <1>2. /\ n \in Nat /\ DOMAIN trades = 1 .. n
        /\ \A i \in 1 .. n : /\ trades[i] \in Engine!TradeType
                             /\ trades[i].usd \in Nat /\ trades[i].shares \in Nat
                             /\ trades[i].side \in {"buy", "sell"}
    BY TradesShape DEF EngineInv
  <1>3. MarketTypes /\ turn \in 1 .. Length
    BY <1>1, ReplayConstants DEF EngineInv, MarketTypes
  <1>4. n % 2 = 1 /\ position = n /\ n \in 1 .. n /\ (n + 1) % 2 # 1
    <2>1. n % 2 = 1 /\ position = n
      BY <1>1 DEF EngineInv, OneOpen
    <2>2. QED
      BY <1>2, <2>1
  <1>5. fill \in Fill
    <2>1. shares \in Nat
      BY <1>2, <1>4
    <2> HIDE DEF shares
    <2>2. QED
      BY <1>1, <1>3, <2>1, ExitFillTypes
  <1>6. new \in Engine!TradeType
    <2>1. trades[position].usd \in Nat /\ fill.usd \in Nat /\ fill.shares \in Nat
      BY <1>2, <1>4, <1>5 DEF Fill
    <2> HIDE DEF fill
    <2>2. fill.usd - trades[position].usd \in Int
      BY <2>1
    <2>3. QED
      BY <1>3, <2>1, <2>2 DEF Engine!TradeType
  <1>7. /\ zeroed \in Seq(Engine!TradeType) /\ Len(zeroed) = n
        /\ \A i \in 1 .. n : i # n => zeroed[i] = trades[i]
        /\ zeroed[n] = [trades[n] EXCEPT !.pnl = 0]
    <2> DEFINE z == [trades[n] EXCEPT !.pnl = 0]
    <2>1. zeroed = [trades EXCEPT ![n] = z]
      BY <1>4
    <2>2. z \in Engine!TradeType
      BY <1>2, <1>4 DEF Engine!TradeType
    <2> HIDE DEF z, zeroed
    <2>3. zeroed \in Seq(Engine!TradeType) /\ Len(zeroed) = n
      BY <1>2, <1>4, <2>1, <2>2, ExceptSeq DEF EngineInv
    <2>4. \A i \in 1 .. n : zeroed[i] = IF i = n THEN z ELSE trades[i]
      BY <1>2, <2>1
    <2>5. QED
      BY <1>4, <2>3, <2>4 DEF z
  <1> HIDE DEF zeroed
  <1>8. /\ trades' \in Seq(Engine!TradeType) /\ Len(trades') = n + 1 /\ DOMAIN trades' = 1 .. (n + 1)
        /\ \A i \in 1 .. n : trades'[i] = zeroed[i]
        /\ trades'[n + 1] = new
    BY <1>1, <1>2, <1>6, <1>7, AppendProperties
  <1>9. /\ new.side = "sell" /\ new.pnl = fill.usd - trades[n].usd
        /\ FillOf(new) = fill /\ new.at = turn /\ new.usd = fill.usd
    BY <1>4, <1>5 DEF FillOf, Fill
  <1>10. rules.fill = "walk_book" =>
           Engine!WalkBookToSell(snaps[turn].bids, trades[n].shares) = fill
    BY <1>4 DEF Engine!ExitFill, Engine!Book
  <1>11. turn # Length + 2 /\ turn' # Length + 2
    BY <1>1, <1>3, ReplayConstants
  <1>12. MarketTypes'
    BY <1>1, <1>3, ReplayConstants DEF MarketTypes
  <1> HIDE DEF new, fill, shares, n
  <1>13. \A i \in 1 .. n : /\ trades'[i].side = trades[i].side /\ trades'[i].usd = trades[i].usd
                           /\ trades'[i].shares = trades[i].shares /\ trades'[i].at = trades[i].at
                           /\ trades'[i].pnl = IF i = n THEN 0 ELSE trades[i].pnl
    <2>1. trades[n] \in Engine!TradeType
      BY <1>2, <1>4
    <2> DEFINE z == [trades[n] EXCEPT !.pnl = 0]
    <2>2. /\ z.side = trades[n].side /\ z.usd = trades[n].usd /\ z.shares = trades[n].shares
          /\ z.at = trades[n].at /\ z.pnl = 0
      BY <2>1 DEF Engine!TradeType
    <2>3. \A i \in 1 .. n : trades'[i] = IF i = n THEN z ELSE trades[i]
      BY <1>7, <1>8
    <2> HIDE DEF z
    <2>4. QED
      BY <2>2, <2>3
  <1>14. \A i \in 1 .. n : trades[i].side = "sell" => i - 1 \in 1 .. n /\ i # n
    <2> SUFFICES ASSUME NEW i \in 1 .. n, trades[i].side = "sell"
                 PROVE  i - 1 \in 1 .. n /\ i # n
      OBVIOUS
    <2>1. i % 2 # 1
      BY <1>2 DEF EngineInv, Alternates
    <2>2. QED
      BY <1>2, <1>4, <2>1
  <1>15. \A i \in 1 .. (n + 1) : i = n + 1 \/ i \in 1 .. n
    BY <1>2
  <1>16. Alternates'
    <2> SUFFICES ASSUME NEW i \in 1 .. (n + 1)
                 PROVE  trades'[i].side = IF i % 2 = 1 THEN "buy" ELSE "sell"
      BY <1>8 DEF Alternates
    <2>1. CASE i = n + 1
      BY <1>4, <1>8, <1>9, <2>1
    <2>2. CASE i \in 1 .. n
      BY <1>2, <1>13, <2>2 DEF EngineInv, Alternates
    <2>3. QED
      BY <1>15, <2>1, <2>2
  <1>17. OneOpen'
    BY <1>1, <1>4, <1>8 DEF OneOpen
  <1>18. Attributed'
    <2> SUFFICES ASSUME NEW i \in 1 .. (n + 1)
                 PROVE  trades'[i].pnl = ResultOf(i)'
      BY <1>8 DEF Attributed
    <2>1. CASE i = n + 1
      <3>1. i - 1 = n /\ trades'[n].usd = trades[n].usd
        BY <1>2, <1>4, <1>13, <2>1
      <3>2. ResultOf(i)' = trades'[i].usd - trades'[i - 1].usd
        BY <1>8, <1>9, <2>1 DEF ResultOf
      <3>3. QED
        BY <1>8, <1>9, <2>1, <3>1, <3>2
    <2>2. CASE i \in 1 .. n
      <3>1. trades[i].pnl = ResultOf(i) /\ i # Len(trades')
        BY <1>2, <1>8, <2>2 DEF EngineInv, Attributed
      <3>2. CASE trades[i].side = "sell"
        <4>1. i - 1 \in 1 .. n /\ i # n
          BY <1>14, <2>2, <3>2
        <4>2. ResultOf(i)' = trades'[i].usd - trades'[i - 1].usd
          BY <1>13, <2>2, <3>2 DEF ResultOf
        <4>3. QED
          BY <1>13, <2>2, <3>1, <3>2, <4>1, <4>2 DEF ResultOf
      <3>3. CASE trades[i].side # "sell"
        <4>1. ResultOf(i)' = 0
          BY <1>13, <2>2, <3>1, <3>3 DEF ResultOf
        <4>2. i # n => trades[i].pnl = 0
          BY <3>1, <3>3 DEF ResultOf, n
        <4>3. QED
          BY <1>13, <2>2, <4>1, <4>2
      <3>4. QED
        BY <3>2, <3>3
    <2>3. QED
      BY <1>15, <2>1, <2>2
  <1>19. Walked'
    <2> SUFFICES ASSUME NEW i \in 1 .. (n + 1), Taken(i)'
                 PROVE  WalkOf(i)' = FillOf(trades'[i]) /\ WalkOf(i)' # Null
      BY <1>8 DEF Walked
    <2>1. CASE i = n + 1
      <3>1. trades'[i].side = "sell" /\ trades'[i].at = turn /\ FillOf(trades'[i]) = fill
        BY <1>8, <1>9, <2>1
      <3>2. i - 1 = n /\ trades'[n].shares = trades[n].shares
        BY <1>2, <1>4, <1>13, <2>1
      <3>3. rules.fill = "walk_book"
        BY <1>1 DEF Taken
      <3>4. WalkOf(i)' = Engine!WalkBookToSell(snaps[turn].bids, trades[n].shares)
        BY <1>1, <3>1, <3>2 DEF WalkOf
      <3>5. QED
        BY <1>1, <1>10, <3>1, <3>3, <3>4
    <2>2. CASE i \in 1 .. n
      <3>1. Taken(i)
        BY <1>1, <1>13, <2>2 DEF Taken
      <3>2. WalkOf(i) = FillOf(trades[i]) /\ WalkOf(i) # Null
        BY <1>2, <2>2, <3>1 DEF EngineInv, Walked
      <3>3. FillOf(trades'[i]) = FillOf(trades[i])
        BY <1>13, <2>2 DEF FillOf
      <3>4. trades[i].side \in {"buy", "sell"} /\ (trades[i].side = "sell" => i - 1 \in 1 .. n)
        BY <1>2, <1>14, <2>2
      <3>5. WalkOf(i)' = WalkOf(i)
        BY <1>1, <1>13, <2>2, <3>4 DEF WalkOf
      <3>6. QED
        BY <3>2, <3>3, <3>5
    <2>3. QED
      BY <1>15, <2>1, <2>2
  <1>20. Engine!Entries' = Engine!Entries
    <2>1. Engine!Entries' = {i \in 1 .. (n + 1) : trades'[i].side = "buy"}
      BY <1>8 DEF Engine!Entries
    <2>2. Engine!Entries = {i \in 1 .. n : trades[i].side = "buy"}
      BY <1>2 DEF Engine!Entries
    <2>3. trades'[n + 1].side # "buy" /\ 1 .. n \subseteq 1 .. (n + 1)
      BY <1>2, <1>8, <1>9
    <2>4. QED
      BY <1>13, <1>15, <2>1, <2>2, <2>3
  <1>21. QED
    BY <1>8, <1>12, <1>16, <1>17, <1>18, <1>19, <1>20 DEF EngineInv

LEMMA ReplaySettle ==
  ASSUME EngineInv, Engine!Settle
  PROVE  EngineInv'
  <1> DEFINE n == Len(trades)
             settled(i) == Engine!SettleTrade(trades[i])
  <1>1. /\ turn = Length + 1 /\ turn' = Length + 2
        /\ trades' = [i \in DOMAIN trades |-> settled(i)]
        /\ UNCHANGED <<snaps, rules, payout, position>>
    BY DEF Engine!Settle
  <1>2. /\ n \in Nat /\ DOMAIN trades = 1 .. n
        /\ \A i \in 1 .. n : /\ trades[i] \in Engine!TradeType
                             /\ trades[i].usd \in Nat /\ trades[i].shares \in Nat
                             /\ trades[i].side \in {"buy", "sell"}
    BY TradesShape DEF EngineInv
  <1>3. payout \in Nat /\ MarketTypes
    BY DEF EngineInv, MarketTypes
  <1>4. ASSUME NEW i \in 1 .. n
        PROVE  /\ settled(i) \in Engine!TradeType
               /\ settled(i).side = trades[i].side /\ settled(i).usd = trades[i].usd
               /\ settled(i).shares = trades[i].shares /\ settled(i).at = trades[i].at
               /\ settled(i).pnl = IF trades[i].pnl = Null
                                   THEN trades[i].shares * payout - trades[i].usd ELSE trades[i].pnl
    <2> DEFINE t == trades[i]  r == t.shares * payout - t.usd
    <2>1. t \in Engine!TradeType
      BY <1>2
    <2>2. r \in Int
      <3>1. t.shares \in Nat /\ t.usd \in Nat
        BY <1>2
      <3> HIDE DEF t
      <3>2. t.shares * payout \in Nat
        BY <1>3, <3>1
      <3>3. QED
        BY <3>1, <3>2
    <2>3. settled(i) = IF t.pnl = Null THEN [t EXCEPT !.pnl = r] ELSE t
      BY DEF Engine!SettleTrade
    <2> HIDE DEF t, r, settled
    <2>4. /\ settled(i) \in Engine!TradeType
          /\ settled(i).side = t.side /\ settled(i).usd = t.usd
          /\ settled(i).shares = t.shares /\ settled(i).at = t.at
          /\ settled(i).pnl = IF t.pnl = Null THEN r ELSE t.pnl
      BY <2>1, <2>2, <2>3 DEF Engine!TradeType
    <2>5. QED
      BY <2>4 DEF t, r
  <1>5. /\ trades' \in Seq(Engine!TradeType) /\ Len(trades') = n /\ DOMAIN trades' = 1 .. n
        /\ \A i \in 1 .. n : trades'[i] = settled(i)
    <2>1. trades' \in [1 .. n -> Engine!TradeType] /\ \A i \in 1 .. n : trades'[i] = settled(i)
      BY <1>1, <1>2, <1>4
    <2> HIDE DEF settled
    <2>2. QED
      BY <1>2, <2>1
  <1>6. \A i \in 1 .. n :
           /\ trades'[i].side = trades[i].side /\ trades'[i].usd = trades[i].usd
           /\ trades'[i].shares = trades[i].shares /\ trades'[i].at = trades[i].at
           /\ trades'[i].pnl = IF trades[i].pnl = Null
                               THEN trades[i].shares * payout - trades[i].usd ELSE trades[i].pnl
    BY <1>4, <1>5
  <1> HIDE DEF settled, n
  <1>7. \A i \in 1 .. n : trades[i].side = "sell" => i - 1 \in 1 .. n
    <2> SUFFICES ASSUME NEW i \in 1 .. n, trades[i].side = "sell"
                 PROVE  i - 1 \in 1 .. n
      OBVIOUS
    <2>1. i % 2 # 1
      BY <1>2 DEF EngineInv, Alternates
    <2>2. QED
      BY <1>2, <2>1
  <1>8. MarketTypes'
    BY <1>1, <1>3, ReplayConstants DEF MarketTypes
  <1>9. Alternates' /\ OneOpen'
    BY <1>1, <1>2, <1>5, <1>6 DEF EngineInv, Alternates, OneOpen, n
  <1>10. Attributed'
    <2> SUFFICES ASSUME NEW i \in 1 .. n
                 PROVE  trades'[i].pnl = ResultOf(i)'
      BY <1>5 DEF Attributed
    <2>1. trades[i].pnl = ResultOf(i) /\ turn # Length + 2 /\ Length \in Nat
      BY <1>1, <1>2, ReplayConstants DEF EngineInv, Attributed
    <2>2. Null \notin Int
      BY ReplayConstants
    <2>3. CASE trades[i].side = "sell"
      <3>1. i - 1 \in 1 .. n
        BY <1>7, <2>3
      <3>2. trades[i].pnl = trades[i].usd - trades[i - 1].usd
        BY <2>1, <2>3 DEF ResultOf
      <3>3. trades[i].pnl \in Int
        BY <1>2, <3>1, <3>2
      <3>4. ResultOf(i)' = trades[i].usd - trades[i - 1].usd
        BY <1>6, <2>3, <3>1 DEF ResultOf
      <3>5. QED
        BY <1>6, <2>2, <3>2, <3>3, <3>4
    <2>4. CASE trades[i].side # "sell" /\ i # n
      <3>1. trades[i].pnl = 0
        BY <2>1, <2>4 DEF ResultOf, n
      <3>2. ResultOf(i)' = 0
        BY <1>5, <1>6, <2>4 DEF ResultOf
      <3>3. QED
        BY <1>6, <2>2, <3>1, <3>2
    <2>5. CASE trades[i].side # "sell" /\ i = n
      <3>1. trades[i].pnl = Null
        BY <2>1, <2>5 DEF ResultOf, n
      <3>2. ResultOf(i)' = trades[i].shares * payout - trades[i].usd
        BY <1>1, <1>5, <1>6, <2>5 DEF ResultOf
      <3>3. QED
        BY <1>6, <3>1, <3>2
    <2>6. QED
      BY <2>3, <2>4, <2>5
  <1>11. Walked'
    <2> SUFFICES ASSUME NEW i \in 1 .. n, Taken(i)'
                 PROVE  WalkOf(i)' = FillOf(trades'[i]) /\ WalkOf(i)' # Null
      BY <1>5 DEF Walked
    <2>1. Taken(i)
      BY <1>1, <1>6 DEF Taken
    <2>2. WalkOf(i) = FillOf(trades[i]) /\ WalkOf(i) # Null
      BY <1>2, <2>1 DEF EngineInv, Walked
    <2>3. FillOf(trades'[i]) = FillOf(trades[i])
      BY <1>6 DEF FillOf
    <2>4. trades[i].side \in {"buy", "sell"} /\ (trades[i].side = "sell" => i - 1 \in 1 .. n)
      BY <1>2, <1>7
    <2>5. WalkOf(i)' = WalkOf(i)
      BY <1>1, <1>6, <2>4 DEF WalkOf
    <2>6. QED
      BY <2>2, <2>3, <2>5
  <1>12. Engine!Entries' = Engine!Entries
    BY <1>2, <1>5, <1>6 DEF Engine!Entries
  <1>13. QED
    BY <1>5, <1>8, <1>9, <1>10, <1>11, <1>12 DEF EngineInv

(* --------------------------- each dollar once -------------------------- *)

LEMMA SumsAre ==
  ASSUME NEW S \in SUBSET DOMAIN trades
  PROVE  /\ Engine!Sum(Engine!Result, S) = SumOver([i \in DOMAIN trades |-> trades[i].pnl], S)
         /\ Engine!Sum(Engine!Money, S) = SumOver([i \in DOMAIN trades |-> trades[i].usd], S)
  <1>1. /\ [i \in S |-> [j \in DOMAIN trades |-> trades[j].pnl][i]] = [i \in S |-> trades[i].pnl]
        /\ [i \in S |-> [j \in DOMAIN trades |-> trades[j].usd][i]] = [i \in S |-> trades[i].usd]
    OBVIOUS
  <1>2. Engine!Sum(Engine!Result, S) = SumFunctionOnSet([i \in S |-> trades[i].pnl], S)
    BY DEF Engine!Sum, Engine!Result, Engine!FoldFunctionOnSet, Engine!MapThenFoldSet,
           SumFunctionOnSet, FoldFunctionOnSet, MapThenFoldSet
  <1>3. Engine!Sum(Engine!Money, S) = SumFunctionOnSet([i \in S |-> trades[i].usd], S)
    BY DEF Engine!Sum, Engine!Money, Engine!FoldFunctionOnSet, Engine!MapThenFoldSet,
           SumFunctionOnSet, FoldFunctionOnSet, MapThenFoldSet
  <1>4. QED
    BY <1>1, <1>2, <1>3 DEF SumOver

(* An entry holds its cost until its exit takes it over.                   *)
Paired(n, E, usd, pnl) ==
    \A i \in 1 .. n : /\ usd[i] \in Int /\ pnl[i] \in Int
                      /\ i \in E <=> i % 2 = 1
                      /\ i \notin E => pnl[i] = usd[i] - usd[i - 1]
                      /\ i \in E /\ i # n => pnl[i] = 0

(* Up to any trade, the results are the money that came in less the money  *)
(* that went out, but for what an entry still holds.                       *)
LEMMA PairByPair ==
  ASSUME NEW n \in Nat, NEW E \in SUBSET (1 .. n), NEW usd, NEW pnl,
         Paired(n, E, usd, pnl)
  PROVE  SumOver(pnl, 1 .. n) =
           SumOver(usd, (1 .. n) \ E) - SumOver(usd, (1 .. n) \cap E)
             + (IF n % 2 = 1 THEN usd[n] + pnl[n] ELSE 0)
  <1> DEFINE R(k) == SumOver(pnl, 1 .. k)
             O(k) == SumOver(usd, (1 .. k) \ E)
             I(k) == SumOver(usd, (1 .. k) \cap E)
             left(k) == IF k % 2 = 1 THEN usd[k] + pnl[k] ELSE 0
             T == {k \in Nat : R(k) = O(k) - I(k) + left(k)}
  <1>1. 0 \in T
    <2>1. 1 .. 0 = {} /\ (1 .. 0) \ E = {} /\ (1 .. 0) \cap E = {} /\ 0 % 2 # 1
      OBVIOUS
    <2>2. R(0) = 0 /\ O(0) = 0 /\ I(0) = 0 /\ left(0) = 0
      BY <2>1, SumOverNone
    <2> HIDE DEF R, O, I, left
    <2>3. QED
      BY <2>2
  <1>2. ASSUME NEW k \in Nat, k < n, k \in T
        PROVE  k + 1 \in T
    <2>1. /\ IsFiniteSet(1 .. k) /\ IsFiniteSet((1 .. k) \ E) /\ IsFiniteSet((1 .. k) \cap E)
          /\ 1 .. (k + 1) = (1 .. k) \cup {k + 1} /\ k + 1 \notin 1 .. k
          /\ k + 1 \in 1 .. n /\ 1 .. k \subseteq 1 .. n
      <3>1. IsFiniteSet(1 .. k)
        BY FS_Interval
      <3>2. (1 .. k) \ E \subseteq 1 .. k /\ (1 .. k) \cap E \subseteq 1 .. k
        OBVIOUS
      <3>3. IsFiniteSet((1 .. k) \ E) /\ IsFiniteSet((1 .. k) \cap E)
        BY <3>1, <3>2, FS_Subset
      <3>4. 1 .. (k + 1) = (1 .. k) \cup {k + 1} /\ k + 1 \notin 1 .. k
        OBVIOUS
      <3>5. k + 1 \in 1 .. n /\ 1 .. k \subseteq 1 .. n
        BY <1>2
      <3>6. QED
        BY <3>1, <3>3, <3>4, <3>5
    <2>2. R(k + 1) = R(k) + pnl[k + 1]
      <3>1. Integral(pnl, (1 .. k) \cup {k + 1})
        BY <2>1 DEF Integral, Paired
      <3>2. SumOver(pnl, (1 .. k) \cup {k + 1}) = SumOver(pnl, 1 .. k) + pnl[k + 1]
        <4> DEFINE S == 1 .. k  a == k + 1
        <4>1. IsFiniteSet(S) /\ a \notin S /\ Integral(pnl, S \cup {a})
          BY <2>1, <3>1
        <4> HIDE DEF S, a
        <4>2. SumOver(pnl, S \cup {a}) = SumOver(pnl, S) + pnl[a]
          BY <4>1, SumOverMore
        <4>3. QED
          BY <4>2 DEF S, a
      <3>3. QED
        BY <2>1, <3>2
    <2>3. R(k) \in Int /\ O(k) \in Int /\ I(k) \in Int
      <3>1. /\ Integral(pnl, 1 .. k) /\ Integral(usd, (1 .. k) \ E)
            /\ Integral(usd, (1 .. k) \cap E)
        BY <2>1 DEF Integral, Paired
      <3>2. QED
        BY <2>1, <3>1, SumOverInt, Zenon
    <2>4. R(k) = O(k) - I(k) + left(k)
      BY <1>2
    <2>5. usd[k + 1] \in Int /\ pnl[k + 1] \in Int
      BY <2>1 DEF Paired
    <2>6. CASE k + 1 \in E
      <3>1. (k + 1) % 2 = 1 /\ k % 2 # 1
        <4>1. (k + 1) % 2 = 1
          BY <2>1, <2>6 DEF Paired
        <4>2. QED
          BY <4>1
      <3>2. (1 .. (k + 1)) \ E = (1 .. k) \ E /\ (1 .. (k + 1)) \cap E = ((1 .. k) \cap E) \cup {k + 1}
        BY <2>1, <2>6
      <3>3. O(k + 1) = O(k)
        BY <3>2
      <3>4. I(k + 1) = I(k) + usd[k + 1]
        <4>1. k + 1 \notin (1 .. k) \cap E /\ Integral(usd, ((1 .. k) \cap E) \cup {k + 1})
          BY <2>1, <2>5 DEF Integral, Paired
        <4>2. SumOver(usd, ((1 .. k) \cap E) \cup {k + 1}) = SumOver(usd, (1 .. k) \cap E) + usd[k + 1]
          <5> DEFINE S == (1 .. k) \cap E  a == k + 1
          <5>1. IsFiniteSet(S) /\ a \notin S /\ Integral(usd, S \cup {a})
            BY <2>1, <4>1
          <5> HIDE DEF S, a
          <5>2. SumOver(usd, S \cup {a}) = SumOver(usd, S) + usd[a]
            BY <5>1, SumOverMore
          <5>3. QED
            BY <5>2 DEF S, a
        <4>3. QED
          BY <3>2, <4>2
      <3>5. left(k) = 0 /\ left(k + 1) = usd[k + 1] + pnl[k + 1]
        BY <3>1
      <3> HIDE DEF R, O, I, left
      <3>6. QED
        BY <2>2, <2>3, <2>4, <2>5, <3>3, <3>4, <3>5
    <2>7. CASE k + 1 \notin E
      <3>1. (k + 1) % 2 # 1 /\ k % 2 = 1
        <4>1. (k + 1) % 2 # 1
          BY <2>1, <2>7 DEF Paired
        <4>2. QED
          BY <4>1
      <3>2. k \in 1 .. n /\ k # n /\ k \in E
        <4>1. k \in 1 .. n /\ k # n
          BY <1>2, <3>1
        <4>2. QED
          BY <3>1, <4>1 DEF Paired
      <3>3. pnl[k] = 0 /\ usd[k] \in Int /\ pnl[k + 1] = usd[k + 1] - usd[k]
        <4>1. (k + 1) - 1 = k
          OBVIOUS
        <4>2. pnl[k + 1] = usd[k + 1] - usd[(k + 1) - 1]
          BY <2>1, <2>7 DEF Paired
        <4>3. QED
          BY <3>2, <4>1, <4>2 DEF Paired
      <3>4. (1 .. (k + 1)) \cap E = (1 .. k) \cap E /\ (1 .. (k + 1)) \ E = ((1 .. k) \ E) \cup {k + 1}
        BY <2>1, <2>7
      <3>5. I(k + 1) = I(k)
        BY <3>4
      <3>6. O(k + 1) = O(k) + usd[k + 1]
        <4>1. k + 1 \notin (1 .. k) \ E /\ Integral(usd, ((1 .. k) \ E) \cup {k + 1})
          BY <2>1, <2>5 DEF Integral, Paired
        <4>2. SumOver(usd, ((1 .. k) \ E) \cup {k + 1}) = SumOver(usd, (1 .. k) \ E) + usd[k + 1]
          <5> DEFINE S == (1 .. k) \ E  a == k + 1
          <5>1. IsFiniteSet(S) /\ a \notin S /\ Integral(usd, S \cup {a})
            BY <2>1, <4>1
          <5> HIDE DEF S, a
          <5>2. SumOver(usd, S \cup {a}) = SumOver(usd, S) + usd[a]
            BY <5>1, SumOverMore
          <5>3. QED
            BY <5>2 DEF S, a
        <4>3. QED
          BY <3>4, <4>2
      <3>7. left(k) = usd[k] + pnl[k] /\ left(k + 1) = 0
        BY <3>1
      <3> HIDE DEF R, O, I, left
      <3>8. QED
        BY <2>2, <2>3, <2>4, <2>5, <3>3, <3>5, <3>6, <3>7
    <2>8. QED
      BY <2>6, <2>7
  <1> HIDE DEF T
  <1>3. \A k \in 0 .. n : k \in T
    BY <1>1, <1>2, BoundedInduction
  <1>4. n \in T
    BY <1>3
  <1>5. QED
    BY <1>4 DEF T

LEMMA DollarsCounted ==
  ASSUME EngineInv, Engine!Finished
  PROVE  Engine!Sum(Engine!Result, DOMAIN trades) =
           Engine!Sum(Engine!Money, DOMAIN trades \ Engine!Entries) + Engine!Held
             - Engine!Sum(Engine!Money, Engine!Entries)
  <1> DEFINE n == Len(trades)
             E == Engine!Entries
             usd == [i \in DOMAIN trades |-> trades[i].usd]
             pnl == [i \in DOMAIN trades |-> trades[i].pnl]
             out == SumOver(usd, E)
             in == SumOver(usd, (1 .. n) \ E)
  <1>1. /\ n \in Nat /\ DOMAIN trades = 1 .. n /\ IsFiniteSet(1 .. n) /\ IsFiniteSet(E)
        /\ \A i \in 1 .. n : /\ trades[i].usd \in Nat /\ trades[i].shares \in Nat
                             /\ trades[i].side \in {"buy", "sell"}
    BY TradesShape DEF EngineInv
  <1>2. E \in SUBSET (1 .. n) /\ \A i \in 1 .. n : i \in E <=> i % 2 = 1
    BY <1>1 DEF EngineInv, Alternates, Engine!Entries
  <1>3. payout \in Nat /\ turn = Length + 2
    BY DEF EngineInv, MarketTypes, Engine!Finished
  <1>4. ASSUME NEW i \in 1 .. n
        PROVE  /\ usd[i] \in Int /\ pnl[i] \in Int
               /\ i \notin E => pnl[i] = usd[i] - usd[i - 1]
               /\ i \in E /\ i # n => pnl[i] = 0
               /\ i \in E /\ i = n => usd[i] + pnl[i] = trades[i].shares * payout
    <2>1. usd[i] = trades[i].usd /\ pnl[i] = ResultOf(i) /\ usd[i] \in Nat
      BY <1>1 DEF EngineInv, Attributed
    <2>2. CASE i \notin E
      <3>1. trades[i].side = "sell" /\ i - 1 \in 1 .. n
        <4>1. trades[i].side = "sell" /\ i % 2 # 1
          BY <1>1, <1>2, <2>2 DEF Engine!Entries
        <4>2. QED
          BY <1>1, <4>1
      <3>2. pnl[i] = trades[i].usd - trades[i - 1].usd
        BY <2>1, <3>1 DEF ResultOf
      <3>3. usd[i - 1] = trades[i - 1].usd /\ usd[i - 1] \in Nat
        BY <1>1, <3>1
      <3> HIDE DEF usd, pnl, E
      <3>4. QED
        BY <2>1, <2>2, <3>2, <3>3
    <2>3. CASE i \in E
      <3>1. trades[i].side # "sell"
        BY <2>3 DEF Engine!Entries
      <3>2. i # n => pnl[i] = 0
        BY <2>1, <3>1 DEF ResultOf
      <3>3. i = n => pnl[i] = trades[i].shares * payout - trades[i].usd
        BY <1>3, <2>1, <3>1 DEF ResultOf
      <3> DEFINE worth == trades[i].shares * payout
      <3>4. worth \in Nat
        BY <1>1, <1>3
      <3> HIDE DEF usd, pnl, E, worth, n
      <3>5. QED
        BY <2>1, <2>3, <3>2, <3>3, <3>4 DEF worth
    <2>4. QED
      BY <2>2, <2>3
  <1>5. Engine!Held = IF n % 2 = 1 THEN trades[n].shares * payout ELSE 0
    <2>1. n # Null
      BY <1>1, ReplayConstants
    <2>2. QED
      BY <2>1 DEF EngineInv, OneOpen, Engine!Held
  <1>6. /\ Engine!Sum(Engine!Result, DOMAIN trades) = SumOver(pnl, 1 .. n)
        /\ Engine!Sum(Engine!Money, DOMAIN trades \ Engine!Entries) = in
        /\ Engine!Sum(Engine!Money, Engine!Entries) = out
    <2>1. DOMAIN trades \in SUBSET DOMAIN trades /\ E \in SUBSET DOMAIN trades
      BY <1>1, <1>2
    <2>2. DOMAIN trades \ E \in SUBSET DOMAIN trades
      OBVIOUS
    <2>3. QED
      BY <1>1, <2>1, <2>2, SumsAre
  <1> HIDE DEF usd, pnl, E, n
  <1>7. Paired(n, E, usd, pnl)
    BY <1>2, <1>4 DEF Paired
  <1>8. SumOver(pnl, 1 .. n) =
          SumOver(usd, (1 .. n) \ E) - SumOver(usd, (1 .. n) \cap E)
            + (IF n % 2 = 1 THEN usd[n] + pnl[n] ELSE 0)
    BY <1>1, <1>2, <1>7, PairByPair
  <1>9. (1 .. n) \cap E = E
    BY <1>2
  <1>10. in \in Int /\ out \in Int
    <2>1. IsFiniteSet((1 .. n) \ E)
      BY <1>1, FS_Difference
    <2>2. Integral(usd, (1 .. n) \ E) /\ Integral(usd, E)
      BY <1>2, <1>4 DEF Integral
    <2>3. QED
      BY <1>1, <2>1, <2>2, SumOverInt
  <1>11. n % 2 = 1 => n \in E /\ n \in 1 .. n
    BY <1>1, <1>2
  <1> DEFINE held == IF n % 2 = 1 THEN usd[n] + pnl[n] ELSE 0
  <1>12. Engine!Held = held /\ held \in Int
    BY <1>4, <1>5, <1>11
  <1> HIDE DEF in, out, held
  <1>13. SumOver(pnl, 1 .. n) = in - out + held
    BY <1>8, <1>9 DEF in, out, held
  <1>14. QED
    BY <1>6, <1>10, <1>12, <1>13 DEF E, in, out

LEMMA ReplayAlone ==
  [Next]_vars => Engine!Next \/ UNCHANGED replayVars
  BY DEF Next, InWeb, InBackend, vars, backVars, webVars

LEMMA ReplayMoves ==
  ASSUME EngineInv, [Next]_vars
  PROVE  EngineInv'
  <1>1. CASE Engine!Next
    BY <1>1, ReplayPass, ReplayEnter, ReplayExit, ReplaySettle DEF Engine!Next
  <1>2. CASE UNCHANGED replayVars
    <2>1. /\ snaps' = snaps /\ rules' = rules /\ payout' = payout
          /\ turn' = turn /\ position' = position /\ trades' = trades
      BY <1>2 DEF replayVars
    <2>2. MarketTypes' /\ Alternates' /\ OneOpen' /\ Attributed'
      BY <2>1 DEF EngineInv, MarketTypes, Alternates, OneOpen, Attributed, ResultOf
    <2>3. Walked'
      BY <2>1 DEF EngineInv, Walked, Taken, WalkOf, FillOf
    <2>4. QED
      BY <2>1, <2>2, <2>3 DEF EngineInv, Engine!Entries
  <1>3. QED
    BY <1>1, <1>2, ReplayAlone

LEMMA ReplayInvariant == Spec => []EngineInv
  <1>1. Init => EngineInv
    BY ReplayStarts DEF Init
  <1>2. EngineInv /\ [Next]_vars => EngineInv'
    BY ReplayMoves
  <1>3. QED
    BY <1>1, <1>2, PTL DEF Spec

(* A market's result is the money its trades brought in less the money     *)
(* they took, each counted once: for any books, rules and number of trades.*)
THEOREM ResultIsTheMoney == Spec => []EachDollarOnce
  <1>1. EngineInv => EachDollarOnce
    <2>1. SUFFICES ASSUME EngineInv
                   PROVE  Engine!EachDollarOnce
      BY DEF EachDollarOnce
    <2>2. Engine!Cardinality(Engine!Entries) <= MaxEntries
      BY <2>1, ReplayOperators DEF EngineInv
    <2>3. QED
      BY <2>1, <2>2, DollarsCounted DEF EngineInv, Alternates, Engine!EachDollarOnce
  <1>2. QED
    BY <1>1, ReplayInvariant, PTL

(* ------------------------- fills walk the book ------------------------- *)

Worths(levels) == [i \in DOMAIN levels |-> levels[i][1] * levels[i][2]]
Sizes(levels) == [i \in DOMAIN levels |-> levels[i][2]]

(* What the first k levels cost, and the shares they hold.                 *)
CostOf(levels, k) == SumOver(Worths(levels), 1 .. k)
SizeOf(levels, k) == SumOver(Sizes(levels), 1 .. k)

LEMMA LevelTypes ==
  ASSUME NEW levels \in Levels
  PROVE  /\ Len(levels) \in Nat /\ DOMAIN levels = 1 .. Len(levels)
         /\ \A i \in 1 .. Len(levels) :
               /\ levels[i] \in (1 .. Dollar) \X Nat
               /\ levels[i][1] \in Nat \ {0} /\ levels[i][2] \in Nat
               /\ levels[i][1] * levels[i][2] \in Nat
  <1>1. Len(levels) \in Nat /\ DOMAIN levels = 1 .. Len(levels)
    BY LenProperties DEF Levels
  <1>2. ASSUME NEW i \in 1 .. Len(levels)
        PROVE  /\ levels[i] \in (1 .. Dollar) \X Nat
               /\ levels[i][1] \in Nat \ {0} /\ levels[i][2] \in Nat
               /\ levels[i][1] * levels[i][2] \in Nat
    <2>1. levels[i] \in (1 .. Dollar) \X Nat
      BY ElementOfSeq DEF Levels
    <2>2. levels[i][1] \in Nat \ {0} /\ levels[i][2] \in Nat
      BY <2>1, ReplayConstants
    <2> DEFINE x == levels[i][1]  y == levels[i][2]
    <2>3. x * y \in Nat
      <3>1. x \in Nat /\ y \in Nat
        BY <2>2
      <3> HIDE DEF x, y
      <3>2. QED
        BY <3>1
    <2>4. QED
      BY <2>1, <2>2, <2>3
  <1>3. QED
    BY <1>1, <1>2

LEMMA PrefixSums ==
  ASSUME NEW levels \in Levels
  PROVE  /\ CostOf(levels, 0) = 0 /\ SizeOf(levels, 0) = 0
         /\ \A k \in 0 .. Len(levels) : CostOf(levels, k) \in Int /\ SizeOf(levels, k) \in Int
         /\ \A k \in 1 .. Len(levels) :
               /\ CostOf(levels, k) = CostOf(levels, k - 1) + levels[k][1] * levels[k][2]
               /\ SizeOf(levels, k) = SizeOf(levels, k - 1) + levels[k][2]
  <1> DEFINE n == Len(levels)  W == Worths(levels)  Q == Sizes(levels)
  <1>1. /\ n \in Nat /\ DOMAIN levels = 1 .. n
        /\ \A i \in 1 .. n : /\ levels[i][2] \in Nat /\ levels[i][1] * levels[i][2] \in Nat
    BY LevelTypes
  <1>2. \A i \in 1 .. n : /\ W[i] = levels[i][1] * levels[i][2] /\ Q[i] = levels[i][2]
                          /\ W[i] \in Int /\ Q[i] \in Int
    BY <1>1 DEF Worths, Sizes
  <1> HIDE DEF n, W, Q
  <1>3. ASSUME NEW v, \A i \in 1 .. n : v[i] \in Int
        PROVE  /\ SumOver(v, 1 .. 0) = 0
               /\ \A k \in 0 .. n : SumOver(v, 1 .. k) \in Int
               /\ \A k \in 1 .. n : SumOver(v, 1 .. k) = SumOver(v, 1 .. (k - 1)) + v[k]
    <2>1. 1 .. 0 = {}
      OBVIOUS
    <2>2. SumOver(v, {}) = 0
      BY SumOverNone
    <2>3. ASSUME NEW k \in 0 .. n
          PROVE  SumOver(v, 1 .. k) \in Int
      <3>1. k \in Nat /\ IsFiniteSet(1 .. k)
        BY <1>1, FS_Interval
      <3>2. Integral(v, 1 .. k)
        BY <1>1, <1>3 DEF Integral
      <3>3. QED
        BY <3>1, <3>2, SumOverInt
    <2>4. ASSUME NEW k \in 1 .. n
          PROVE  SumOver(v, 1 .. k) = SumOver(v, 1 .. (k - 1)) + v[k]
      <3> DEFINE S == 1 .. (k - 1)
      <3>1. k - 1 \in Int /\ 1 \in Int /\ k \notin S /\ 1 .. k = S \cup {k}
        BY <1>1
      <3>2. IsFiniteSet(S)
        BY <3>1, FS_Interval
      <3>3. Integral(v, S \cup {k})
        BY <1>1, <1>3 DEF Integral
      <3> HIDE DEF S
      <3>4. SumOver(v, S \cup {k}) = SumOver(v, S) + v[k]
        BY <3>1, <3>2, <3>3, SumOverMore
      <3>5. QED
        BY <3>1, <3>4 DEF S
    <2>5. QED
      BY <2>1, <2>2, <2>3, <2>4
  <1>4. QED
    BY <1>2, <1>3 DEF CostOf, SizeOf, n, W, Q

LEMMA BeforeIs ==
  ASSUME NEW levels \in Levels, NEW k \in 1 .. (Len(levels) + 1)
  PROVE  /\ Engine!Before(levels, k, Engine!Worth) = CostOf(levels, k - 1)
         /\ Engine!Before(levels, k, Engine!Shares) = SizeOf(levels, k - 1)
  <1> DEFINE S == 1 .. (k - 1)
  <1>1. S \subseteq DOMAIN levels
    BY LevelTypes
  <1>2. Engine!Before(levels, k, Engine!Worth) = SumFunctionOnSet([i \in S |-> levels[i][1] * levels[i][2]], S)
    BY DEF Engine!Before, Engine!Worth, Engine!Price, Engine!Shares, Engine!FoldFunctionOnSet,
           Engine!MapThenFoldSet, SumFunctionOnSet, FoldFunctionOnSet, MapThenFoldSet
  <1>3. Engine!Before(levels, k, Engine!Shares) = SumFunctionOnSet([i \in S |-> levels[i][2]], S)
    BY DEF Engine!Before, Engine!Shares, Engine!FoldFunctionOnSet,
           Engine!MapThenFoldSet, SumFunctionOnSet, FoldFunctionOnSet, MapThenFoldSet
  <1> HIDE DEF S
  <1>4. [i \in S |-> Worths(levels)[i]] = [i \in S |-> levels[i][1] * levels[i][2]]
    BY <1>1 DEF Worths
  <1>5. [i \in S |-> Sizes(levels)[i]] = [i \in S |-> levels[i][2]]
    BY <1>1 DEF Sizes
  <1>6. QED
    BY <1>2, <1>3, <1>4, <1>5 DEF CostOf, SizeOf, SumOver, S

(* The line that continues level k: the shares x dollars would buy if the  *)
(* level had no end.                                                       *)
BuyLine(levels, x, k) ==
    SizeOf(levels, k - 1) + (x - CostOf(levels, k - 1)) \div levels[k][1]

(* A fill is the least of the lines so far, and spends what there is.      *)
BoughtBest(fill, levels, money, k) ==
    /\ fill.usd = IF CostOf(levels, k) <= money THEN CostOf(levels, k) ELSE money
    /\ CostOf(levels, k) <= money => fill.shares = SizeOf(levels, k)
    /\ k # 0 => \E i \in 1 .. k : fill.shares = BuyLine(levels, fill.usd, i)
    /\ \A i \in 1 .. k : fill.shares <= BuyLine(levels, fill.usd, i)

LEMMA BuyOneMore ==
  ASSUME NEW levels \in Levels, Engine!Ascending(levels), NEW money \in Nat,
         NEW k \in Nat, k < Len(levels), NEW f \in Buying(money),
         BoughtBest(f, levels, money, k)
  PROVE  BoughtBest(Buy(money, f, levels[k + 1]), levels, money, k + 1)
  <1> DEFINE n == Len(levels)
             p == levels[k + 1][1]
             q == levels[k + 1][2]
             C == CostOf(levels, k)
             Z == SizeOf(levels, k)
             t == Spent(money, f, levels[k + 1])
             more == Buy(money, f, levels[k + 1])
  <1>1. /\ n \in Nat /\ DOMAIN levels = 1 .. n
        /\ \A i \in 1 .. n : levels[i][1] \in Nat \ {0} /\ levels[i][2] \in Nat
                             /\ levels[i][1] * levels[i][2] \in Nat
    BY LevelTypes
  <1>2. k + 1 \in 1 .. n /\ k \in 0 .. n /\ (k + 1) - 1 = k /\ 1 .. (k + 1) = 1 .. k \cup {k + 1}
    BY <1>1
  <1>3. p \in Nat \ {0} /\ q \in Nat /\ p * q \in Nat
    BY <1>1, <1>2
  <1>4. /\ \A i \in 0 .. n : CostOf(levels, i) \in Int /\ SizeOf(levels, i) \in Int
        /\ CostOf(levels, k + 1) = C + p * q /\ SizeOf(levels, k + 1) = Z + q
        /\ C \in Int /\ Z \in Int
    BY <1>2, PrefixSums
  <1>5. f.usd \in Nat /\ f.shares \in Nat
    BY DEF Buying, Fill
  <1>6. t = IF money - f.usd <= p * q THEN money - f.usd ELSE p * q
    <2>1. money - f.usd \in Int /\ p * q \in Int
      BY <1>3, <1>5
    <2>2. QED
      BY <2>1, MinOfTwo DEF Spent
  <1>7. more.usd = f.usd + t /\ more.shares = f.shares + t \div p /\ t \in Nat
    <2>1. levels[k + 1] \in (1 .. Dollar) \X Nat
      BY <1>2, LevelTypes
    <2>2. t \in Nat
      BY <2>1, BuyTypes
    <2>3. more = [usd |-> f.usd + t, shares |-> f.shares + t \div p]
      BY DEF Buy
    <2> HIDE DEF more, t, p
    <2>4. QED
      BY <2>2, <2>3
  <1>8. BuyLine(levels, more.usd, k + 1) = Z + (more.usd - C) \div p
    BY <1>2 DEF BuyLine
  <1>9. /\ f.usd = IF C <= money THEN C ELSE money
        /\ C <= money => f.shares = Z
        /\ k # 0 => \E i \in 1 .. k : f.shares = BuyLine(levels, f.usd, i)
        /\ \A i \in 1 .. k : f.shares <= BuyLine(levels, f.usd, i)
    BY DEF BoughtBest
  <1>10. \A i \in 1 .. k : i \in 1 .. n /\ levels[i][1] <= p /\ levels[i][1] \in Nat \ {0}
    <2> SUFFICES ASSUME NEW i \in 1 .. k
                 PROVE  i \in 1 .. n /\ levels[i][1] <= p
      BY <1>1
    <2>1. i \in 1 .. n /\ i < k + 1
      BY <1>1, <1>2
    <2>2. QED
      BY <1>1, <1>2, <2>1 DEF Engine!Ascending
  <1> HIDE DEF p, q, C, Z, t, more, n
  <1>11. CASE C <= money
    <2>1. f.usd = C /\ f.shares = Z
      BY <1>9, <1>11
    <2>2. more.usd = IF C + p * q <= money THEN C + p * q ELSE money
      BY <1>3, <1>4, <1>6, <1>7, <2>1
    <2>3. C + p * q <= money => more.shares = Z + q
      <3>1. SUFFICES ASSUME C + p * q <= money
                     PROVE  more.shares = Z + q
        OBVIOUS
      <3>2. t = p * q
        BY <1>3, <1>4, <1>6, <2>1, <3>1
      <3>3. (p * q) \div p = q
        BY <1>3, DivExact
      <3>4. QED
        BY <1>7, <2>1, <3>2, <3>3
    <2>4. more.shares = BuyLine(levels, more.usd, k + 1)
      <3>1. more.usd - C = t
        BY <1>4, <1>7, <2>1
      <3>2. QED
        BY <1>7, <1>8, <2>1, <3>1
    <2>5. ASSUME NEW i \in 1 .. k
          PROVE  more.shares <= BuyLine(levels, more.usd, i)
      <3> DEFINE r == levels[i][1]  S == SizeOf(levels, i - 1)  y == C - CostOf(levels, i - 1)
      <3>1. r \in Nat \ {0} /\ r <= p /\ i - 1 \in 0 .. n
        BY <1>1, <1>10 DEF n
      <3>2. S \in Int /\ y \in Int
        BY <1>4, <3>1
      <3>3. BuyLine(levels, f.usd, i) = S + y \div r
        BY <2>1 DEF BuyLine
      <3>4. BuyLine(levels, more.usd, i) = S + (y + t) \div r
        <4>1. more.usd - CostOf(levels, i - 1) = y + t
          BY <1>4, <1>7, <2>1, <3>1
        <4>2. QED
          BY <4>1 DEF BuyLine
      <3> HIDE DEF r, S, y
      <3>5. y \div r + t \div r <= (y + t) \div r
        <4>1. t \in Int
          BY <1>7
        <4>2. QED
          BY <3>1, <3>2, <4>1, DivOfSum, Zenon
      <3>6. t \div p <= t \div r
        BY <1>3, <1>7, <3>1, DivByLess
      <3>7. Z <= S + y \div r
        BY <1>9, <2>1, <3>3
      <3>8. /\ y \div r \in Int /\ t \div r \in Int /\ t \div p \in Int
            /\ (y + t) \div r \in Int
        BY <1>3, <1>7, <3>1, <3>2, DivRule
      <3>9. QED
        BY <1>4, <1>7, <2>1, <3>2, <3>4, <3>5, <3>6, <3>7, <3>8, SMTT(30)
    <2>6. more.shares \in Int
      BY <1>3, <1>5, <1>7, DivRule
    <2>7. QED
      BY <1>2, <1>4, <2>2, <2>3, <2>4, <2>5, <2>6 DEF BoughtBest, more
  <1>12. CASE ~(C <= money)
    <2>1. f.usd = money /\ t = 0 /\ 0 \div p = 0 /\ more.usd = f.usd /\ more.shares = f.shares
      <3>1. f.usd = money
        BY <1>9, <1>12
      <3>2. t = 0 /\ 0 \div p = 0
        BY <1>3, <1>6, <3>1
      <3>3. QED
        BY <1>5, <1>7, <3>1, <3>2
    <2>2. ~(C + p * q <= money)
      BY <1>3, <1>4, <1>12
    <2>3. k # 0
      <3>1. CostOf(levels, 0) = 0
        BY PrefixSums
      <3>2. QED
        BY <1>12, <3>1 DEF C
    <2>4. PICK j \in 1 .. k : f.shares = BuyLine(levels, f.usd, j)
      BY <1>9, <2>3
    <2>5. f.shares <= BuyLine(levels, f.usd, k + 1)
      <3> DEFINE r == levels[k][1]  z == levels[k][2]  y == f.usd - C
      <3>1. k \in 1 .. k /\ k \in 1 .. n
        BY <1>10, <2>3
      <3>2. r \in Nat \ {0} /\ r <= p /\ z \in Nat /\ y \in Int /\ y <= 0
        BY <1>1, <1>4, <1>5, <1>10, <1>12, <2>1, <3>1, SMTT(30) DEF n
      <3>3. /\ C = CostOf(levels, k - 1) + r * z /\ Z = SizeOf(levels, k - 1) + z
            /\ CostOf(levels, k - 1) \in Int /\ SizeOf(levels, k - 1) \in Int
        <4>1. k - 1 \in 0 .. n
          BY <1>1, <3>1 DEF n
        <4>2. QED
          BY <3>1, <4>1, PrefixSums DEF C, Z, n
      <3>4. f.usd - CostOf(levels, k - 1) = y + r * z
        <4> DEFINE w == r * z
        <4>1. w \in Int
          BY <3>2
        <4> HIDE DEF w
        <4>2. C = CostOf(levels, k - 1) + w
          BY <3>3 DEF w
        <4>3. f.usd - CostOf(levels, k - 1) = y + w
          BY <1>4, <1>5, <3>3, <4>1, <4>2, SMTT(30)
        <4>4. QED
          BY <4>3 DEF w
      <3>5. BuyLine(levels, f.usd, k) = SizeOf(levels, k - 1) + (y + r * z) \div r
        BY <3>4 DEF BuyLine
      <3>6. BuyLine(levels, f.usd, k + 1) = Z + y \div p
        BY <1>8, <2>1
      <3> HIDE DEF r, z, y
      <3>7. (y + r * z) \div r = z + y \div r
        BY <3>2, DivOfMore
      <3>8. y \div r <= y \div p
        BY <1>3, <3>2, DivOfDebt
      <3>9. y \div r \in Int /\ y \div p \in Int
        BY <1>3, <3>2, DivRule
      <3>10. f.shares <= BuyLine(levels, f.usd, k)
        BY <1>9, <3>1
      <3> DEFINE a == y \div r  b == y \div p  before == SizeOf(levels, k - 1)
      <3>11. /\ a \in Int /\ b \in Int /\ a <= b /\ before \in Int
             /\ Z = before + z /\ BuyLine(levels, f.usd, k) = before + (z + a)
             /\ BuyLine(levels, f.usd, k + 1) = Z + b
        BY <3>3, <3>5, <3>6, <3>7, <3>8, <3>9
      <3> HIDE DEF a, b, before
      <3>12. QED
        BY <1>4, <1>5, <3>2, <3>10, <3>11
    <2>6. QED
      BY <1>2, <1>4, <1>9, <2>1, <2>2, <2>4, <2>5 DEF BoughtBest, more
  <1>13. QED
    BY <1>11, <1>12

LEMMA BuyIsBest ==
  ASSUME NEW levels \in Levels, Engine!Ascending(levels), NEW money \in Nat,
         NEW h, BuyRun(h, levels, money)
  PROVE  BoughtBest(h[Len(levels)], levels, money, Len(levels))
  <1> DEFINE n == Len(levels)
             T == {k \in Nat : BoughtBest(h[k], levels, money, k)}
  <1>1. n \in Nat
    BY LevelTypes
  <1>2. 0 \in T
    <2>1. CostOf(levels, 0) = 0 /\ SizeOf(levels, 0) = 0 /\ h[0] = Nothing /\ 1 .. 0 = {}
      BY PrefixSums DEF BuyRun
    <2>2. QED
      BY <2>1 DEF BoughtBest, Nothing
  <1>3. ASSUME NEW k \in Nat, k < n, k \in T
        PROVE  k + 1 \in T
    <2>1. k + 1 \in 1 .. n /\ (k + 1) - 1 = k /\ k \in 0 .. n
      BY <1>1, <1>3
    <2>2. h[k + 1] = Buy(money, h[k], levels[k + 1]) /\ h[k] \in Buying(money)
      BY <2>1 DEF BuyRun
    <2>3. BoughtBest(Buy(money, h[k], levels[k + 1]), levels, money, k + 1)
      BY <1>3, <2>2, BuyOneMore
    <2>4. QED
      BY <2>2, <2>3
  <1> HIDE DEF T
  <1>4. \A k \in 0 .. n : k \in T
    BY <1>1, <1>2, <1>3, BoundedInduction
  <1>5. QED
    BY <1>1, <1>4 DEF T

(* The same for an exit: the dollars that x shares would give if level k   *)
(* had no end.                                                             *)
SellLine(levels, x, k) ==
    CostOf(levels, k - 1) + (x - SizeOf(levels, k - 1)) * levels[k][1]

SoldBest(fill, levels, shares, k) ==
    /\ fill.shares = IF SizeOf(levels, k) <= shares THEN SizeOf(levels, k) ELSE shares
    /\ SizeOf(levels, k) <= shares => fill.usd = CostOf(levels, k)
    /\ k # 0 => \E i \in 1 .. k : fill.usd = SellLine(levels, fill.shares, i)
    /\ \A i \in 1 .. k : fill.usd <= SellLine(levels, fill.shares, i)

LEMMA SellOneMore ==
  ASSUME NEW levels \in Levels, Engine!Descending(levels), NEW shares \in Nat,
         NEW k \in Nat, k < Len(levels), NEW f \in Selling(shares),
         SoldBest(f, levels, shares, k)
  PROVE  SoldBest(Sell(shares, f, levels[k + 1]), levels, shares, k + 1)
  <1> DEFINE n == Len(levels)
             p == levels[k + 1][1]
             q == levels[k + 1][2]
             C == CostOf(levels, k)
             Z == SizeOf(levels, k)
             t == Sold(shares, f, levels[k + 1])
             more == Sell(shares, f, levels[k + 1])
  <1>1. /\ n \in Nat /\ DOMAIN levels = 1 .. n
        /\ \A i \in 1 .. n : levels[i][1] \in Nat \ {0} /\ levels[i][2] \in Nat
                             /\ levels[i][1] * levels[i][2] \in Nat
    BY LevelTypes
  <1>2. k + 1 \in 1 .. n /\ k \in 0 .. n /\ (k + 1) - 1 = k /\ 1 .. (k + 1) = 1 .. k \cup {k + 1}
    BY <1>1
  <1>3. p \in Nat \ {0} /\ q \in Nat /\ p * q \in Nat
    BY <1>1, <1>2
  <1>4. /\ \A i \in 0 .. n : CostOf(levels, i) \in Int /\ SizeOf(levels, i) \in Int
        /\ CostOf(levels, k + 1) = C + p * q /\ SizeOf(levels, k + 1) = Z + q
        /\ C \in Int /\ Z \in Int
    BY <1>2, PrefixSums
  <1>5. f.usd \in Nat /\ f.shares \in Nat
    BY DEF Selling, Fill
  <1>6. t = IF shares - f.shares <= q THEN shares - f.shares ELSE q
    <2>1. shares - f.shares \in Int /\ q \in Int
      BY <1>3, <1>5, SMTT(30)
    <2>2. QED
      BY <2>1, MinOfTwo DEF Sold
  <1>7. more.shares = f.shares + t /\ more.usd = f.usd + t * p /\ t \in Nat
    <2>1. levels[k + 1] \in (1 .. Dollar) \X Nat
      BY <1>2, LevelTypes
    <2>2. t \in Nat
      BY <2>1, SellTypes
    <2>3. more = [usd |-> f.usd + t * p, shares |-> f.shares + t]
      BY DEF Sell
    <2> HIDE DEF more, t, p
    <2>4. QED
      BY <2>2, <2>3
  <1>8. SellLine(levels, more.shares, k + 1) = C + (more.shares - Z) * p
    BY <1>2 DEF SellLine
  <1>9. /\ f.shares = IF Z <= shares THEN Z ELSE shares
        /\ Z <= shares => f.usd = C
        /\ k # 0 => \E i \in 1 .. k : f.usd = SellLine(levels, f.shares, i)
        /\ \A i \in 1 .. k : f.usd <= SellLine(levels, f.shares, i)
    BY DEF SoldBest
  <1>10. \A i \in 1 .. k : i \in 1 .. n /\ p <= levels[i][1] /\ levels[i][1] \in Nat \ {0}
    <2> SUFFICES ASSUME NEW i \in 1 .. k
                 PROVE  i \in 1 .. n /\ p <= levels[i][1]
      BY <1>1
    <2>1. i \in 1 .. n /\ i < k + 1
      BY <1>1, <1>2
    <2>2. QED
      BY <1>1, <1>2, <2>1 DEF Engine!Descending
  <1> HIDE DEF p, q, C, Z, t, more, n
  <1>11. CASE Z <= shares
    <2>1. f.shares = Z /\ f.usd = C
      BY <1>9, <1>11
    <2>2. more.shares = IF Z + q <= shares THEN Z + q ELSE shares
      BY <1>3, <1>4, <1>6, <1>7, <2>1
    <2>3. Z + q <= shares => more.usd = C + p * q
      <3>1. SUFFICES ASSUME Z + q <= shares
                     PROVE  more.usd = C + p * q
        OBVIOUS
      <3>2. t = q
        BY <1>3, <1>4, <1>6, <2>1, <3>1
      <3>3. q * p = p * q
        BY <1>3
      <3>4. QED
        BY <1>7, <2>1, <3>2, <3>3
    <2>4. more.usd = SellLine(levels, more.shares, k + 1)
      <3>1. more.shares - Z = t
        BY <1>4, <1>7, <2>1
      <3>2. QED
        BY <1>7, <1>8, <2>1, <3>1
    <2>5. ASSUME NEW i \in 1 .. k
          PROVE  more.usd <= SellLine(levels, more.shares, i)
      <3> DEFINE r == levels[i][1]  S == CostOf(levels, i - 1)  y == Z - SizeOf(levels, i - 1)
      <3>1. r \in Nat \ {0} /\ p <= r /\ i - 1 \in 0 .. n
        BY <1>1, <1>10 DEF n
      <3>2. S \in Int /\ y \in Int
        BY <1>4, <3>1
      <3>3. SellLine(levels, f.shares, i) = S + y * r
        BY <2>1 DEF SellLine
      <3>4. SellLine(levels, more.shares, i) = S + (y + t) * r
        <4>1. more.shares - SizeOf(levels, i - 1) = y + t
          BY <1>4, <1>7, <2>1, <3>1
        <4>2. QED
          BY <4>1 DEF SellLine
      <3> HIDE DEF r, S, y
      <3>5. (y + t) * r = y * r + t * r
        BY <1>7, <3>1, <3>2
      <3>6. t * p <= t * r
        BY <1>3, <1>7, <3>1, Products
      <3>7. C <= S + y * r
        BY <1>9, <2>1, <3>3
      <3> DEFINE a == y * r  b == t * r  c == t * p
      <3>8. /\ a \in Int /\ b \in Int /\ c \in Int /\ c <= b /\ C <= S + a
            /\ more.usd = C + c /\ SellLine(levels, more.shares, i) = S + (a + b)
        <4>1. a \in Int /\ b \in Int /\ c \in Int
          BY <1>3, <1>7, <3>1, <3>2
        <4>2. QED
          BY <1>7, <2>1, <3>4, <3>5, <3>6, <3>7, <4>1
      <3> HIDE DEF a, b, c
      <3>9. QED
        BY <1>4, <3>2, <3>8
    <2>6. more.usd \in Int
      <3>1. t * p \in Int
        BY <1>3, <1>7
      <3>2. QED
        BY <1>5, <1>7, <3>1
    <2>7. QED
      BY <1>2, <1>4, <2>2, <2>3, <2>4, <2>5, <2>6 DEF SoldBest, more
  <1>12. CASE ~(Z <= shares)
    <2>1. f.shares = shares /\ more.usd = f.usd /\ more.shares = f.shares
      <3>1. f.shares = shares
        BY <1>9, <1>12
      <3>2. t = 0 /\ 0 * p = 0
        BY <1>3, <1>6, <3>1
      <3>3. QED
        BY <1>5, <1>7, <3>1, <3>2
    <2>2. ~(Z + q <= shares)
      BY <1>3, <1>4, <1>12
    <2>3. k # 0
      <3>1. SizeOf(levels, 0) = 0
        BY PrefixSums
      <3>2. QED
        BY <1>12, <3>1 DEF Z
    <2>4. PICK j \in 1 .. k : f.usd = SellLine(levels, f.shares, j)
      BY <1>9, <2>3
    <2>5. f.usd <= SellLine(levels, f.shares, k + 1)
      <3> DEFINE r == levels[k][1]  z == levels[k][2]  y == f.shares - Z
                 before == CostOf(levels, k - 1)
      <3>1. k \in 1 .. k /\ k \in 1 .. n
        BY <1>10, <2>3
      <3>2. r \in Nat \ {0} /\ p <= r /\ z \in Nat /\ y \in Int /\ 0 - y \in Nat
        BY <1>1, <1>4, <1>5, <1>10, <1>12, <2>1, <3>1, SMTT(30) DEF n
      <3>3. /\ C = before + r * z /\ Z = SizeOf(levels, k - 1) + z
            /\ before \in Int /\ SizeOf(levels, k - 1) \in Int
        <4>1. k - 1 \in 0 .. n
          BY <1>1, <3>1 DEF n
        <4>2. QED
          BY <3>1, <4>1, PrefixSums DEF C, Z, n
      <3>4. f.shares - SizeOf(levels, k - 1) = y + z
        <4> DEFINE S == SizeOf(levels, k - 1)
        <4>1. S \in Int /\ Z = S + z /\ z \in Int
          BY <3>2, <3>3, SMTT(30)
        <4> HIDE DEF S, z
        <4>2. QED
          BY <1>4, <1>5, <4>1 DEF S
      <3>5. SellLine(levels, f.shares, k) = before + (y + z) * r
        BY <3>4 DEF SellLine
      <3>6. SellLine(levels, f.shares, k + 1) = C + y * p
        BY <1>8, <2>1
      <3>7. f.usd <= SellLine(levels, f.shares, k)
        BY <1>9, <3>1
      <3> HIDE DEF r, z, y, before
      <3> DEFINE a == y * r  b == y * p  c == r * z
      <3>8. (y + z) * r = a + c
        BY <3>2
      <3>9. a <= b
        <4>1. (0 - y) * p <= (0 - y) * r
          BY <1>3, <3>2, Products
        <4>2. (0 - y) * p = 0 - b /\ (0 - y) * r = 0 - a /\ a \in Int /\ b \in Int
          BY <1>3, <3>2
        <4> HIDE DEF a, b
        <4>3. QED
          BY <4>1, <4>2
      <3>10. a \in Int /\ b \in Int /\ c \in Int
        BY <1>3, <3>2
      <3>11. /\ C = before + c /\ SellLine(levels, f.shares, k) = before + (a + c)
             /\ SellLine(levels, f.shares, k + 1) = C + b
        BY <3>3, <3>5, <3>6, <3>8
      <3> HIDE DEF a, b, c
      <3>12. QED
        BY <1>4, <1>5, <3>3, <3>7, <3>9, <3>10, <3>11, SMTT(30)
    <2>6. QED
      BY <1>2, <1>4, <1>9, <2>1, <2>2, <2>4, <2>5 DEF SoldBest, more
  <1>13. QED
    BY <1>11, <1>12

LEMMA SellIsBest ==
  ASSUME NEW levels \in Levels, Engine!Descending(levels), NEW shares \in Nat,
         NEW h, SellRun(h, levels, shares)
  PROVE  SoldBest(h[Len(levels)], levels, shares, Len(levels))
  <1> DEFINE n == Len(levels)
             T == {k \in Nat : SoldBest(h[k], levels, shares, k)}
  <1>1. n \in Nat
    BY LevelTypes
  <1>2. 0 \in T
    <2>1. CostOf(levels, 0) = 0 /\ SizeOf(levels, 0) = 0 /\ h[0] = Nothing /\ 1 .. 0 = {}
      BY PrefixSums DEF SellRun
    <2>2. QED
      BY <2>1 DEF SoldBest, Nothing
  <1>3. ASSUME NEW k \in Nat, k < n, k \in T
        PROVE  k + 1 \in T
    <2>1. k + 1 \in 1 .. n /\ (k + 1) - 1 = k /\ k \in 0 .. n
      BY <1>1, <1>3
    <2>2. h[k + 1] = Sell(shares, h[k], levels[k + 1]) /\ h[k] \in Selling(shares)
      BY <2>1 DEF SellRun
    <2>3. SoldBest(Sell(shares, h[k], levels[k + 1]), levels, shares, k + 1)
      BY <1>3, <2>2, SellOneMore, SMTT(30)
    <2>4. QED
      BY <2>2, <2>3
  <1> HIDE DEF T
  <1>4. \A k \in 0 .. n : k \in T
    BY <1>1, <1>2, <1>3, BoundedInduction
  <1>5. QED
    BY <1>1, <1>4 DEF T

LEMMA LeastOfLines ==
  ASSUME NEW n \in Nat, NEW line, NEW v \in Int, \A k \in 1 .. n : line[k] \in Int /\ v <= line[k],
         NEW j \in 1 .. n, v = line[j]
  PROVE  Min({line[k] : k \in 1 .. n}) = v
  <1> DEFINE S == {line[k] : k \in 1 .. n}
  <1>1. v \in S /\ \A z \in S : z \in Int /\ v <= z
    OBVIOUS
  <1> HIDE DEF S
  <1>2. Min(S) \in S /\ \A z \in S : Min(S) <= z
    <2>1. \E m \in S : \A z \in S : m <= z
      BY <1>1
    <2>2. QED
      BY <2>1 DEF Min
  <1>3. Min(S) = v
    <2>1. Min(S) \in Int /\ v <= Min(S) /\ Min(S) <= v
      BY <1>1, <1>2, Zenon
    <2>2. QED
      BY <2>1
  <1>4. QED
    BY <1>3 DEF S

LEMMA BestBuyIs ==
  ASSUME NEW levels \in Levels, NEW x \in Int
  PROVE  /\ \A k \in 1 .. Len(levels) : BuyLine(levels, x, k) \in Int
         /\ Engine!BestBuy(levels, x) =
               Min({[j \in 1 .. Len(levels) |-> BuyLine(levels, x, j)][k] : k \in 1 .. Len(levels)})
  <1> DEFINE n == Len(levels)
             line == [k \in 1 .. n |-> BuyLine(levels, x, k)]
             own(k) == Engine!Before(levels, k, Engine!Shares)
                         + (x - Engine!Before(levels, k, Engine!Worth)) \div Engine!Price(levels[k])
  <1>1. /\ n \in Nat /\ DOMAIN levels = 1 .. n
        /\ \A k \in 1 .. n : levels[k][1] \in Nat \ {0}
    BY LevelTypes
  <1>2. ASSUME NEW k \in 1 .. n PROVE BuyLine(levels, x, k) \in Int
    <2>1. k - 1 \in 0 .. n
      BY <1>1
    <2>2. CostOf(levels, k - 1) \in Int /\ SizeOf(levels, k - 1) \in Int
      BY <2>1, PrefixSums
    <2> DEFINE y == x - CostOf(levels, k - 1)
    <2>3. y \in Int
      BY <2>2
    <2> HIDE DEF y
    <2>4. y \div levels[k][1] \in Int
      BY <1>1, <2>3, DivRule
    <2>5. QED
      BY <2>2, <2>4 DEF BuyLine, y
  <1>3. \A k \in 1 .. n : own(k) = line[k]
    <2> SUFFICES ASSUME NEW k \in 1 .. n PROVE own(k) = BuyLine(levels, x, k)
      OBVIOUS
    <2>1. k \in 1 .. (Len(levels) + 1)
      BY <1>1
    <2>2. QED
      BY <2>1, BeforeIs DEF BuyLine, Engine!Price
  <1>4. Engine!BestBuy(levels, x) = Min({own(k) : k \in 1 .. n})
    BY <1>1, ReplayOperators DEF Engine!BestBuy
  <1> HIDE DEF own, line
  <1>5. {own(k) : k \in 1 .. n} = {line[k] : k \in 1 .. n}
    BY <1>3
  <1>6. QED
    BY <1>2, <1>4, <1>5 DEF line

LEMMA BestSaleIs ==
  ASSUME NEW levels \in Levels, NEW x \in Int
  PROVE  /\ \A k \in 1 .. Len(levels) : SellLine(levels, x, k) \in Int
         /\ Engine!BestSale(levels, x) =
               Min({[j \in 1 .. Len(levels) |-> SellLine(levels, x, j)][k] : k \in 1 .. Len(levels)})
  <1> DEFINE n == Len(levels)
             line == [k \in 1 .. n |-> SellLine(levels, x, k)]
             own(k) == Engine!Before(levels, k, Engine!Worth)
                         + (x - Engine!Before(levels, k, Engine!Shares)) * Engine!Price(levels[k])
  <1>1. /\ n \in Nat /\ DOMAIN levels = 1 .. n
        /\ \A k \in 1 .. n : levels[k][1] \in Nat \ {0}
    BY LevelTypes
  <1>2. ASSUME NEW k \in 1 .. n PROVE SellLine(levels, x, k) \in Int
    <2>1. k - 1 \in 0 .. n
      BY <1>1
    <2>2. CostOf(levels, k - 1) \in Int /\ SizeOf(levels, k - 1) \in Int
      BY <2>1, PrefixSums
    <2> DEFINE y == x - SizeOf(levels, k - 1)
    <2>3. y \in Int
      BY <2>2
    <2> HIDE DEF y
    <2>4. y * levels[k][1] \in Int
      BY <1>1, <2>3
    <2>5. QED
      BY <2>2, <2>4 DEF SellLine, y
  <1>3. \A k \in 1 .. n : own(k) = line[k]
    <2> SUFFICES ASSUME NEW k \in 1 .. n PROVE own(k) = SellLine(levels, x, k)
      OBVIOUS
    <2>1. k \in 1 .. (Len(levels) + 1)
      BY <1>1
    <2>2. QED
      BY <2>1, BeforeIs DEF SellLine, Engine!Price
  <1>4. Engine!BestSale(levels, x) = Min({own(k) : k \in 1 .. n})
    BY <1>1, ReplayOperators DEF Engine!BestSale
  <1> HIDE DEF own, line
  <1>5. {own(k) : k \in 1 .. n} = {line[k] : k \in 1 .. n}
    BY <1>3
  <1>6. QED
    BY <1>2, <1>4, <1>5 DEF line

LEMMA WalkedEntry ==
  ASSUME NEW levels \in Levels, Engine!Ascending(levels), NEW money \in Nat,
         NEW fill, fill = Engine!WalkBook(levels, money), fill # Null
  PROVE  /\ fill.usd = Engine!Min({money, Engine!Depth(levels, Engine!Worth)})
         /\ fill.shares = Engine!BestBuy(levels, fill.usd)
  <1> DEFINE n == Len(levels)
  <1>1. PICK h : /\ BuyRun(h, levels, money)
                 /\ Engine!WalkBook(levels, money) =
                      IF Engine!Tradable(levels) /\ h[Len(levels)].shares > 0
                      THEN h[Len(levels)] ELSE Null
    BY BuySteps
  <1>2. fill = h[n] /\ levels # <<>>
    BY <1>1 DEF Engine!Tradable
  <1>3. n \in Nat /\ n # 0 /\ n \in 0 .. n
    <2>1. n # 0
      BY <1>2, EmptySeq DEF Levels
    <2>2. QED
      BY <2>1, LevelTypes
  <1>4. fill.usd \in Nat /\ fill.shares \in Nat
    <2>1. h[n] \in Buying(money)
      BY <1>1, <1>3 DEF BuyRun
    <2>2. QED
      BY <1>2, <2>1 DEF Buying, Fill
  <1>5. BoughtBest(fill, levels, money, n)
    BY <1>1, <1>2, BuyIsBest
  <1>6. Engine!Depth(levels, Engine!Worth) = CostOf(levels, n) /\ CostOf(levels, n) \in Int
    <2>1. n + 1 \in 1 .. (Len(levels) + 1) /\ (n + 1) - 1 = n
      BY <1>3
    <2>2. Engine!Before(levels, n + 1, Engine!Worth) = CostOf(levels, (n + 1) - 1)
      BY <2>1, BeforeIs
    <2>3. QED
      BY <1>3, <2>1, <2>2, PrefixSums DEF Engine!Depth
  <1>7. fill.usd = Engine!Min({money, Engine!Depth(levels, Engine!Worth)})
    <2>1. Min({money, CostOf(levels, n)}) = IF money <= CostOf(levels, n) THEN money ELSE CostOf(levels, n)
      BY <1>6, MinOfTwo
    <2>2. fill.usd = IF CostOf(levels, n) <= money THEN CostOf(levels, n) ELSE money
      BY <1>5 DEF BoughtBest
    <2>3. fill.usd = Min({money, CostOf(levels, n)})
      BY <1>6, <2>1, <2>2
    <2>4. QED
      BY <1>6, <2>3, ReplayOperators
  <1>8. fill.shares = Engine!BestBuy(levels, fill.usd)
    <2> DEFINE line == [k \in 1 .. n |-> BuyLine(levels, fill.usd, k)]
    <2>1. \A k \in 1 .. n : line[k] \in Int /\ fill.shares <= line[k]
      <3>1. \A k \in 1 .. n : BuyLine(levels, fill.usd, k) \in Int
        <4>1. fill.usd \in Int
          BY <1>4
        <4>2. QED
          BY <4>1, BestBuyIs, Zenon
      <3>2. \A k \in 1 .. n : fill.shares <= BuyLine(levels, fill.usd, k)
        BY <1>5 DEF BoughtBest
      <3>3. QED
        BY <3>1, <3>2
    <2>2. PICK j \in 1 .. n : fill.shares = line[j]
      BY <1>3, <1>5 DEF BoughtBest
    <2>3. Engine!BestBuy(levels, fill.usd) = Min({line[k] : k \in 1 .. n})
      BY <1>4, BestBuyIs
    <2> HIDE DEF line
    <2>4. Min({line[k] : k \in 1 .. n}) = fill.shares
      BY <1>3, <1>4, <2>1, <2>2, LeastOfLines
    <2>5. QED
      BY <2>3, <2>4
  <1>9. QED
    BY <1>7, <1>8

LEMMA WalkedExit ==
  ASSUME NEW levels \in Levels, Engine!Descending(levels), NEW shares \in Nat,
         NEW fill, fill = Engine!WalkBookToSell(levels, shares), fill # Null
  PROVE  /\ fill.shares = Engine!Min({shares, Engine!Depth(levels, Engine!Shares)})
         /\ fill.usd = Engine!BestSale(levels, fill.shares)
  <1> DEFINE n == Len(levels)
  <1>1. PICK h : /\ SellRun(h, levels, shares)
                 /\ Engine!WalkBookToSell(levels, shares) =
                      IF Engine!Tradable(levels) /\ shares > 0 /\ h[Len(levels)].shares > 0
                      THEN h[Len(levels)] ELSE Null
    BY SellSteps
  <1>2. fill = h[n] /\ levels # <<>>
    BY <1>1 DEF Engine!Tradable
  <1>3. n \in Nat /\ n # 0 /\ n \in 0 .. n
    <2>1. n # 0
      BY <1>2, EmptySeq DEF Levels
    <2>2. QED
      BY <2>1, LevelTypes
  <1>4. fill.usd \in Nat /\ fill.shares \in Nat
    <2>1. h[n] \in Selling(shares)
      BY <1>1, <1>3 DEF SellRun
    <2>2. QED
      BY <1>2, <2>1 DEF Selling, Fill
  <1>5. SoldBest(fill, levels, shares, n)
    BY <1>1, <1>2, SellIsBest
  <1>6. Engine!Depth(levels, Engine!Shares) = SizeOf(levels, n) /\ SizeOf(levels, n) \in Int
    <2>1. n + 1 \in 1 .. (Len(levels) + 1) /\ (n + 1) - 1 = n
      BY <1>3
    <2>2. Engine!Before(levels, n + 1, Engine!Shares) = SizeOf(levels, (n + 1) - 1)
      BY <2>1, BeforeIs
    <2>3. QED
      BY <1>3, <2>1, <2>2, PrefixSums DEF Engine!Depth
  <1>7. fill.shares = Engine!Min({shares, Engine!Depth(levels, Engine!Shares)})
    <2>1. Min({shares, SizeOf(levels, n)}) = IF shares <= SizeOf(levels, n) THEN shares ELSE SizeOf(levels, n)
      BY <1>6, MinOfTwo
    <2>2. fill.shares = IF SizeOf(levels, n) <= shares THEN SizeOf(levels, n) ELSE shares
      BY <1>5 DEF SoldBest
    <2>3. fill.shares = Min({shares, SizeOf(levels, n)})
      BY <1>6, <2>1, <2>2
    <2>4. QED
      BY <1>6, <2>3, ReplayOperators
  <1>8. fill.usd = Engine!BestSale(levels, fill.shares)
    <2> DEFINE line == [k \in 1 .. n |-> SellLine(levels, fill.shares, k)]
    <2>1. \A k \in 1 .. n : line[k] \in Int /\ fill.usd <= line[k]
      <3>1. \A k \in 1 .. n : SellLine(levels, fill.shares, k) \in Int
        <4>1. fill.shares \in Int
          BY <1>4
        <4>2. QED
          BY <4>1, BestSaleIs, Zenon
      <3>2. \A k \in 1 .. n : fill.usd <= SellLine(levels, fill.shares, k)
        BY <1>5 DEF SoldBest
      <3>3. QED
        BY <3>1, <3>2
    <2>2. PICK j \in 1 .. n : fill.usd = line[j]
      BY <1>3, <1>5 DEF SoldBest
    <2>3. Engine!BestSale(levels, fill.shares) = Min({line[k] : k \in 1 .. n})
      BY <1>4, BestSaleIs
    <2> HIDE DEF line
    <2>4. Min({line[k] : k \in 1 .. n}) = fill.usd
      BY <1>3, <1>4, <2>1, <2>2, LeastOfLines
    <2>5. QED
      BY <2>3, <2>4
  <1>9. QED
    BY <1>7, <1>8

(* A taker's fill gives what the book of its snapshot had for the money or *)
(* the shares, neither more nor less: for any number of levels, prices and *)
(* sizes, however the divisions round.                                     *)
THEOREM FillsAreTheBooks == Spec => []FillsWalkTheBook
  <1>1. EngineInv => FillsWalkTheBook
    <2>1. SUFFICES ASSUME EngineInv, rules.fill = "walk_book", NEW i \in DOMAIN trades
                   PROVE  LET t == trades[i]
                              book == snaps[t.at]
                          IN  /\ t.side = "buy" /\ rules.order = "market" =>
                                    /\ t.usd = Engine!Min({Stake, Engine!Depth(book.asks, Engine!Worth)})
                                    /\ t.shares = Engine!BestBuy(book.asks, t.usd)
                              /\ t.side = "sell" =>
                                    /\ t.shares = Engine!Min({trades[i - 1].shares,
                                                             Engine!Depth(book.bids, Engine!Shares)})
                                    /\ t.usd = Engine!BestSale(book.bids, t.shares)
      BY Zenon DEF FillsWalkTheBook, Engine!FillsWalkTheBook
    <2> DEFINE t == trades[i]  book == snaps[t.at]
    <2>2. /\ Len(trades) \in Nat /\ DOMAIN trades = 1 .. Len(trades) /\ t.at \in 1 .. Length
          /\ \A j \in DOMAIN trades : trades[j].shares \in Nat
      BY <2>1, TradesShape DEF EngineInv
    <2>3. book \in Books
      BY <2>1, <2>2 DEF EngineInv, MarketTypes
    <2>4. /\ book.asks \in Levels /\ book.bids \in Levels /\ Stake \in Nat
          /\ Engine!Ascending(book.asks) /\ Engine!Descending(book.bids)
      BY <2>3, ReplayConstants
    <2>5. FillOf(t).usd = t.usd /\ FillOf(t).shares = t.shares
      BY DEF FillOf
    <2>6. ASSUME t.side = "buy", rules.order = "market"
          PROVE  /\ t.usd = Engine!Min({Stake, Engine!Depth(book.asks, Engine!Worth)})
                 /\ t.shares = Engine!BestBuy(book.asks, t.usd)
      <3>1. FillOf(t) = Engine!WalkBook(book.asks, Stake) /\ FillOf(t) # Null
        BY <2>1, <2>6 DEF EngineInv, Walked, WalkOf, Taken
      <3> HIDE DEF t, book
      <3>2. QED
        BY <2>4, <2>5, <3>1, WalkedEntry
    <2>7. ASSUME t.side = "sell"
          PROVE  /\ t.shares = Engine!Min({trades[i - 1].shares, Engine!Depth(book.bids, Engine!Shares)})
                 /\ t.usd = Engine!BestSale(book.bids, t.shares)
      <3>1. FillOf(t) = Engine!WalkBookToSell(book.bids, trades[i - 1].shares) /\ FillOf(t) # Null
        BY <2>1, <2>7 DEF EngineInv, Walked, WalkOf, Taken
      <3>2. i - 1 \in DOMAIN trades
        <4>1. i % 2 # 1
          BY <2>1, <2>7 DEF EngineInv, Alternates
        <4>2. QED
          BY <2>1, <2>2, <4>1
      <3>3. trades[i - 1].shares \in Nat
        BY <2>2, <3>2
      <3> HIDE DEF t, book
      <3>4. QED
        BY <2>4, <2>5, <3>1, <3>3, WalkedExit
    <2>8. QED
      BY <2>6, <2>7
  <1>2. QED
    BY <1>1, ReplayInvariant, PTL

(* ---------------------------- the rate limiter ------------------------- *)

(* Tokens of the bucket there is now, and those of the one before: a token *)
(* is the bucket's own if it is no older than the bucket.                  *)
Current(b) ==
    {t \in granted[b] : bucket[b] # Null /\ t.age <= Window[b] - bucket[b].left}
Earlier(b) == granted[b] \ Current(b)

(* A bucket accounts for the tokens of its window: those it gave and those *)
(* it has left make the limit, and of the earlier bucket's fewer than the  *)
(* limit are in the window, for its first token, given when it was made,   *)
(* has left the window by the time it expired.                             *)
BucketOK(b) ==
    /\ granted[b] \subseteq [age : 0 .. (Window[b] - 1), nth : Nat \ {0}]
    /\ IsFiniteSet(granted[b])
    /\ \A t \in Limiter!GivenNow(b) : t.nth <= Cardinality(Limiter!GivenNow(b))
    /\ bucket[b] = Null =>
          /\ Limiter!GivenNow(b) = {}
          /\ Cardinality(granted[b]) < Limit[b]
    /\ bucket[b] # Null =>
          /\ bucket[b] \in [tokens : 0 .. (Limit[b] - 1), left : 1 .. Window[b]]
          /\ Cardinality(Current(b)) + bucket[b].tokens = Limit[b]
          /\ \E t \in Current(b) : t.age = Window[b] - bucket[b].left
          /\ Cardinality(Earlier(b)) < Limit[b]

(* A bucket that refused stays empty for the rest of the tick.             *)
RefusedOK(b) == b \in refused => bucket[b] # Null /\ bucket[b].tokens = 0

(* A caller's wait runs down with the bucket that refused it; when it is   *)
(* over, at most a new bucket is there.                                    *)
PromisedOK(b) ==
    \A w \in promised[b] :
        /\ w \in Nat
        /\ bucket[b] = Null => w = 0
        /\ bucket[b] # Null => w = bucket[b].left \/ (w = 0 /\ bucket[b].left = Window[b])

LimiterShape ==
    /\ DOMAIN bucket = Limiter!Buckets /\ bucket = [b \in Limiter!Buckets |-> bucket[b]]
    /\ DOMAIN granted = Limiter!Buckets /\ granted = [b \in Limiter!Buckets |-> granted[b]]
    /\ DOMAIN promised = Limiter!Buckets /\ promised = [b \in Limiter!Buckets |-> promised[b]]
    /\ refused \subseteq Limiter!Buckets
    /\ waiting \in [Limiter!Buckets -> Nat] /\ waiting["rps"] + waiting["rpm"] <= MaxWaiting

LimiterInv ==
    /\ LimiterShape
    /\ \A b \in Limiter!Buckets : BucketOK(b) /\ RefusedOK(b) /\ PromisedOK(b)

LEMMA LimiterConstants ==
  /\ \A b \in Limiter!Buckets : Limit[b] \in Nat \ {0} /\ Window[b] \in Nat \ {0}
  /\ MaxWaiting \in Nat /\ Null \notin [tokens : Int, left : Int]
  BY PlatformAssumption DEF Limiter!RateLimitAssumption

(* The module's own copy of the operator is the library's.                 *)
LEMMA LimiterCardinality ==
  \A S : Limiter!Cardinality(S) = Cardinality(S)
  BY DEF Limiter!Cardinality, Cardinality

(* What a step may be for one bucket.                                      *)
Takes(b) ==
    /\ Limiter!Grants(b)
    /\ bucket'[b] = Limiter!Taken(b)
    /\ granted'[b] = granted[b] \union {Limiter!NewToken(b)}

Ages(b) ==
    /\ bucket'[b] = IF bucket[b] = Null \/ bucket[b].left = 1 THEN Null
                    ELSE [bucket[b] EXCEPT !.left = @ - 1]
    /\ granted'[b] = Limiter!Aged({t \in granted[b] : t.age < Window[b] - 1})

LEMMA TakeKeepsBucket ==
  ASSUME NEW b \in Limiter!Buckets, BucketOK(b), Takes(b)
  PROVE  BucketOK(b)'
  <1> DEFINE new == Limiter!NewToken(b)
             g == granted[b]
             now == Limiter!GivenNow(b)
  <1>1. Limit[b] \in Nat \ {0} /\ Window[b] \in Nat \ {0} /\ Null \notin [tokens : Int, left : Int]
    BY LimiterConstants
  <1>2. /\ g \subseteq [age : 0 .. (Window[b] - 1), nth : Nat \ {0}]
        /\ IsFiniteSet(g)
        /\ \A t \in now : t.nth <= Cardinality(now)
    BY DEF BucketOK
  <1>3. IsFiniteSet(now) /\ Cardinality(now) \in Nat
    BY <1>2, FS_Subset, FS_CardinalityType DEF Limiter!GivenNow
  <1>4. /\ new \in [age : 0 .. (Window[b] - 1), nth : Nat \ {0}]
        /\ new.age = 0 /\ new.nth = Cardinality(now) + 1
    BY <1>1, <1>3, LimiterCardinality DEF Limiter!NewToken
  <1>5. new \notin g
    <2>1. SUFFICES ASSUME new \in g
                   PROVE  FALSE
      OBVIOUS
    <2>2. new \in now
      BY <1>4, <2>1 DEF Limiter!GivenNow
    <2>3. QED
      BY <1>2, <1>3, <1>4, <2>2
  <1>6. granted'[b] = g \cup {new}
    BY DEF Takes
  <1> HIDE DEF new, g
  <1>7. Limiter!GivenNow(b)' = now \cup {new}
    BY <1>4, <1>6 DEF Limiter!GivenNow, g
  <1> HIDE DEF now
  <1>8. new \notin now
    BY <1>5 DEF now, g, Limiter!GivenNow
  <1>9. Cardinality(now \cup {new}) = Cardinality(now) + 1
    BY <1>3, <1>8, FS_AddElement
  <1>10. /\ granted'[b] \subseteq [age : 0 .. (Window[b] - 1), nth : Nat \ {0}]
         /\ IsFiniteSet(granted'[b])
         /\ \A t \in Limiter!GivenNow(b)' : t.nth <= Cardinality(Limiter!GivenNow(b)')
    <2>1. IsFiniteSet(g \cup {new})
      BY <1>2, FS_AddElement
    <2>2. ASSUME NEW t \in now \cup {new}
          PROVE  t.nth <= Cardinality(now) + 1
      <3>1. CASE t = new
        BY <1>3, <1>4, <3>1
      <3>2. CASE t \in now
        <4>1. t.nth <= Cardinality(now) /\ t.nth \in Nat
          BY <1>2, <3>2 DEF now, g, Limiter!GivenNow
        <4>2. QED
          BY <1>3, <4>1
      <3>3. QED
        BY <2>2, <3>1, <3>2
    <2>3. QED
      BY <1>2, <1>4, <1>6, <1>7, <1>9, <2>1, <2>2
  <1>11. CASE bucket[b] = Null
    <2>1. now = {} /\ Cardinality(g) < Limit[b]
      BY <1>11 DEF BucketOK, now, g
    <2>2. bucket'[b] = [tokens |-> Limit[b] - 1, left |-> Window[b]]
      BY <1>11 DEF Takes, Limiter!Taken, Limiter!Fresh
    <2>3. /\ bucket'[b] \in [tokens : 0 .. (Limit[b] - 1), left : 1 .. Window[b]]
          /\ bucket'[b] # Null
          /\ bucket'[b].tokens = Limit[b] - 1 /\ bucket'[b].left = Window[b]
      BY <1>1, <2>2
    <2>4. Current(b)' = {new}
      <3>1. Current(b)' = {t \in g \cup {new} : t.age <= 0}
        BY <1>1, <1>6, <2>3 DEF Current
      <3>2. \A t \in g : t.age \in Nat /\ t.age # 0
        BY <1>1, <1>2, <2>1 DEF now, g, Limiter!GivenNow
      <3>3. QED
        BY <1>4, <3>1, <3>2
    <2>5. Earlier(b)' = g
      BY <1>5, <1>6, <2>4 DEF Earlier
    <2>6. Cardinality(Current(b)') = 1
      BY <2>4, FS_Singleton
    <2>7. Cardinality(Current(b)') + bucket'[b].tokens = Limit[b]
      BY <1>1, <2>3, <2>6
    <2>8. \E t \in Current(b)' : t.age = Window[b] - bucket'[b].left
      BY <1>1, <1>4, <2>3, <2>4
    <2>9. QED
      BY <1>10, <2>1, <2>3, <2>5, <2>7, <2>8 DEF BucketOK
  <1>12. CASE bucket[b] # Null
    <2>1. /\ bucket[b] \in [tokens : 0 .. (Limit[b] - 1), left : 1 .. Window[b]]
          /\ Cardinality(Current(b)) + bucket[b].tokens = Limit[b]
          /\ \E t \in Current(b) : t.age = Window[b] - bucket[b].left
          /\ Cardinality(Earlier(b)) < Limit[b]
      BY <1>12 DEF BucketOK
    <2>2. bucket[b].tokens > 0
      BY <1>12 DEF Takes, Limiter!Grants
    <2>3. bucket'[b] = [bucket[b] EXCEPT !.tokens = @ - 1]
      BY <1>12 DEF Takes, Limiter!Taken
    <2>4. /\ bucket'[b] \in [tokens : 0 .. (Limit[b] - 1), left : 1 .. Window[b]]
          /\ bucket'[b] # Null
          /\ bucket'[b].tokens = bucket[b].tokens - 1 /\ bucket'[b].left = bucket[b].left
      BY <1>1, <2>1, <2>2, <2>3
    <2>5. Current(b)' = Current(b) \cup {new}
      <3>1. Current(b)' = {t \in g \cup {new} : t.age <= Window[b] - bucket[b].left}
        BY <1>6, <2>4 DEF Current
      <3>2. Current(b) = {t \in g : t.age <= Window[b] - bucket[b].left}
        BY <1>12 DEF Current, g
      <3>3. 0 <= Window[b] - bucket[b].left
        BY <1>1, <2>1
      <3>4. QED
        BY <1>4, <3>1, <3>2, <3>3
    <2>6. Earlier(b)' = Earlier(b)
      BY <1>5, <1>6, <2>5 DEF Earlier, g
    <2>7. IsFiniteSet(Current(b)) /\ Cardinality(Current(b)) \in Nat /\ new \notin Current(b)
      BY <1>2, <1>5, FS_Subset, FS_CardinalityType DEF Current, g
    <2>8. Cardinality(Current(b)') = Cardinality(Current(b)) + 1
      BY <2>5, <2>7, FS_AddElement
    <2>9. Cardinality(Current(b)') + bucket'[b].tokens = Limit[b]
      BY <1>1, <2>1, <2>4, <2>7, <2>8
    <2>10. \E t \in Current(b)' : t.age = Window[b] - bucket'[b].left
      BY <2>1, <2>4, <2>5
    <2>11. QED
      BY <1>10, <2>1, <2>4, <2>6, <2>9, <2>10 DEF BucketOK
  <1>13. QED
    BY <1>11, <1>12

(* Growing older keeps tokens apart.                                       *)
LEMMA AgedKeepsNumber ==
  ASSUME NEW S, S \subseteq [age : Nat, nth : Nat], IsFiniteSet(S)
  PROVE  IsFiniteSet(Limiter!Aged(S)) /\ Cardinality(Limiter!Aged(S)) = Cardinality(S)
  <1> DEFINE older(t) == [t EXCEPT !.age = @ + 1]
             f == [t \in S |-> older(t)]
  <1>1. Limiter!Aged(S) = {older(t) : t \in S}
    BY DEF Limiter!Aged
  <1>2. \A t, u \in S : older(t) = older(u) => t = u
    <2>1. SUFFICES ASSUME NEW t \in S, NEW u \in S, older(t) = older(u)
                   PROVE  t = u
      OBVIOUS
    <2>2. t \in [age : Nat, nth : Nat] /\ u \in [age : Nat, nth : Nat]
      OBVIOUS
    <2>3. t.age + 1 = u.age + 1 /\ t.nth = u.nth
      BY <2>1, <2>2
    <2>4. QED
      BY <2>2, <2>3
  <1> HIDE DEF older
  <1>3. f \in Bijection(S, {older(t) : t \in S})
    BY <1>2 DEF Bijection, Injection, Surjection, IsInjective
  <1>4. ExistsBijection(S, Limiter!Aged(S))
    BY <1>1, <1>3 DEF ExistsBijection
  <1>5. QED
    BY <1>4, FS_Bijection

LEMMA AgeKeepsBucket ==
  ASSUME NEW b \in Limiter!Buckets, BucketOK(b), Ages(b)
  PROVE  BucketOK(b)'
  <1> DEFINE g == granted[b]
             kept == {t \in g : t.age < Window[b] - 1}
             w == Window[b]
  <1>1. /\ Limit[b] \in Nat \ {0} /\ w \in Nat \ {0} /\ w \in Int
        /\ Null \notin [tokens : Int, left : Int]
    BY LimiterConstants
  <1>2. /\ g \subseteq [age : 0 .. (w - 1), nth : Nat \ {0}]
        /\ IsFiniteSet(g)
    BY DEF BucketOK
  <1>3. granted'[b] = Limiter!Aged(kept)
    BY DEF Ages
  <1>4. /\ kept \subseteq g /\ IsFiniteSet(kept) /\ Cardinality(kept) \in Nat
        /\ Cardinality(g) \in Nat /\ Cardinality(kept) <= Cardinality(g)
    BY <1>2, FS_Subset, FS_CardinalityType
  <1>5. \A t \in kept : /\ t \in [age : Nat, nth : Nat \ {0}] /\ t.age + 1 \in 0 .. (w - 1)
                        /\ t.age \in Nat
    BY <1>1, <1>2
  <1> HIDE DEF g, kept, w
  <1>6. IsFiniteSet(granted'[b]) /\ Cardinality(granted'[b]) = Cardinality(kept)
    <2>1. kept \subseteq [age : Nat, nth : Nat]
      BY <1>5
    <2>2. QED
      BY <1>3, <1>4, <2>1, AgedKeepsNumber
  <1>7. \A u \in granted'[b] :
           \E t \in kept : u = [age |-> t.age + 1, nth |-> t.nth]
    <2>1. SUFFICES ASSUME NEW t \in kept
                   PROVE  [t EXCEPT !.age = @ + 1] = [age |-> t.age + 1, nth |-> t.nth]
      BY <1>3 DEF Limiter!Aged
    <2>2. QED
      BY <1>5, <2>1
  <1>8. /\ granted'[b] \subseteq [age : 0 .. (w - 1), nth : Nat \ {0}]
        /\ \A u \in granted'[b] : u.age # 0
    <2>1. SUFFICES ASSUME NEW u \in granted'[b]
                   PROVE  u \in [age : 0 .. (w - 1), nth : Nat \ {0}] /\ u.age # 0
      OBVIOUS
    <2>2. PICK t \in kept : u = [age |-> t.age + 1, nth |-> t.nth]
      BY <1>7
    <2>3. QED
      BY <1>5, <2>2
  <1>9. Limiter!GivenNow(b)' = {}
    BY <1>8 DEF Limiter!GivenNow
  <1>10. CASE bucket[b] = Null
    <2>1. bucket'[b] = Null /\ Cardinality(g) < Limit[b]
      BY <1>10 DEF Ages, BucketOK, g
    <2>2. Cardinality(granted'[b]) < Limit[b]
      BY <1>1, <1>4, <1>6, <2>1
    <2>3. QED
      BY <1>6, <1>8, <1>9, <2>1, <2>2 DEF BucketOK, w
  <1>11. CASE bucket[b] # Null
    <2>1. /\ bucket[b] \in [tokens : 0 .. (Limit[b] - 1), left : 1 .. w]
          /\ Cardinality(Current(b)) + bucket[b].tokens = Limit[b]
          /\ \E t \in Current(b) : t.age = w - bucket[b].left
          /\ Cardinality(Earlier(b)) < Limit[b]
          /\ Current(b) = {t \in g : t.age <= w - bucket[b].left}
          /\ Earlier(b) = {t \in g : ~(t.age <= w - bucket[b].left)}
      BY <1>11 DEF BucketOK, Current, Earlier, g, w
    <2>2. /\ bucket[b].left \in 1 .. w /\ bucket[b].tokens \in 0 .. (Limit[b] - 1)
          /\ bucket[b].left \in Int /\ bucket[b].tokens \in Int
      BY <1>1, <2>1
    <2>3. CASE bucket[b].left = 1
      <3>1. bucket'[b] = Null
        BY <2>3 DEF Ages
      <3>2. PICK t \in g : t.age = w - 1
        BY <2>1, <2>3
      <3>3. Current(b) = g
        <4>1. \A u \in g : u.age <= w - 1
          BY <1>1, <1>2
        <4>2. QED
          BY <2>1, <2>3, <4>1
      <3>4. Cardinality(g) <= Limit[b]
        BY <1>1, <1>4, <2>1, <2>2, <3>3
      <3>5. kept \subseteq g \ {t}
        <4>1. t \notin kept
          BY <1>1, <3>2 DEF kept, w
        <4>2. QED
          BY <1>4, <4>1
      <3>6. IsFiniteSet(g \ {t}) /\ Cardinality(g \ {t}) = Cardinality(g) - 1
        BY <1>2, <3>2, FS_RemoveElement
      <3>7. Cardinality(kept) <= Cardinality(g) - 1
        BY <3>5, <3>6, FS_Subset
      <3>8. Cardinality(granted'[b]) < Limit[b]
        BY <1>1, <1>4, <1>6, <3>4, <3>7
      <3>9. QED
        BY <1>6, <1>8, <1>9, <3>1, <3>8 DEF BucketOK, w
    <2>4. CASE bucket[b].left # 1
      <3>1. bucket'[b] = [bucket[b] EXCEPT !.left = @ - 1]
        BY <1>11, <2>4 DEF Ages
      <3>2. /\ bucket'[b] \in [tokens : 0 .. (Limit[b] - 1), left : 1 .. w]
            /\ bucket'[b] # Null
            /\ bucket'[b].tokens = bucket[b].tokens /\ bucket'[b].left = bucket[b].left - 1
        BY <1>1, <2>1, <2>2, <2>4, <3>1
      <3>3. Current(b) \subseteq kept
        BY <1>1, <1>2, <2>1, <2>2, <2>4 DEF kept, w
      <3>4. \A t \in Current(b) : t.age \in Nat /\ t.age <= w - bucket[b].left
        BY <1>5, <2>1, <3>3
      <3>5. Current(b)' = Limiter!Aged(Current(b))
        <4>1. Current(b)' = {u \in granted'[b] : u.age <= w - (bucket[b].left - 1)}
          BY <3>2 DEF Current, w
        <4>2. \A t \in kept : /\ [t EXCEPT !.age = @ + 1].age = t.age + 1
                              /\ t \in g
          BY <1>4, <1>5
        <4>3. \A t \in kept : t.age + 1 <= w - (bucket[b].left - 1) <=> t.age <= w - bucket[b].left
          BY <1>1, <1>5, <2>2
        <4>4. granted'[b] = {[t EXCEPT !.age = @ + 1] : t \in kept}
          BY <1>3 DEF Limiter!Aged
        <4>5. Limiter!Aged(Current(b)) = {[t EXCEPT !.age = @ + 1] : t \in Current(b)}
          BY DEF Limiter!Aged
        <4>6. \A t \in kept : t \in Current(b) <=> t.age <= w - bucket[b].left
          BY <2>1, <4>2
        <4>7. ASSUME NEW u \in Current(b)'
              PROVE  u \in Limiter!Aged(Current(b))
          <5>1. PICK t \in kept : u = [t EXCEPT !.age = @ + 1]
            BY <4>1, <4>4, <4>7
          <5>2. t \in Current(b)
            BY <4>1, <4>2, <4>3, <4>6, <4>7, <5>1
          <5>3. QED
            BY <4>5, <5>1, <5>2
        <4>8. ASSUME NEW u \in Limiter!Aged(Current(b))
              PROVE  u \in Current(b)'
          <5>1. PICK t \in Current(b) : u = [t EXCEPT !.age = @ + 1]
            BY <4>5, <4>8
          <5>2. t \in kept /\ u \in granted'[b]
            BY <3>3, <4>4, <5>1
          <5>3. QED
            BY <4>1, <4>2, <4>3, <4>6, <5>1, <5>2
        <4>9. QED
          BY <4>7, <4>8
      <3>6. IsFiniteSet(Current(b)) /\ Current(b) \subseteq [age : Nat, nth : Nat]
        BY <1>4, <1>5, <3>3, FS_Subset
      <3>7. Cardinality(Current(b)') = Cardinality(Current(b))
        BY <3>5, <3>6, AgedKeepsNumber
      <3>8. \E u \in Current(b)' : u.age = w - bucket'[b].left
        <4>1. PICK t \in Current(b) : t.age = w - bucket[b].left
          BY <2>1
        <4>2. [t EXCEPT !.age = @ + 1] \in Current(b)'
          BY <3>5 DEF Limiter!Aged
        <4>3. [t EXCEPT !.age = @ + 1].age = t.age + 1
          BY <1>5, <3>3
        <4>4. t.age + 1 = w - bucket'[b].left
          BY <1>1, <2>2, <3>2, <4>1
        <4>5. QED
          BY <4>2, <4>3, <4>4
      <3>9. Cardinality(Earlier(b)') < Limit[b]
        <4>1. IsFiniteSet(Earlier(b)) /\ Cardinality(Earlier(b)) \in Nat
          BY <1>2, FS_Subset, FS_CardinalityType DEF Earlier, g
        <4>2. kept \ Current(b) \subseteq Earlier(b)
          BY <1>4 DEF Earlier, g
        <4>3. /\ IsFiniteSet(kept \ Current(b))
              /\ Cardinality(kept \ Current(b)) <= Cardinality(Earlier(b))
          BY <4>1, <4>2, FS_Subset
        <4>4. kept \ Current(b) \subseteq [age : Nat, nth : Nat]
          BY <1>5
        <4>5. /\ IsFiniteSet(Limiter!Aged(kept \ Current(b)))
              /\ Cardinality(Limiter!Aged(kept \ Current(b))) = Cardinality(kept \ Current(b))
          BY <4>3, <4>4, AgedKeepsNumber
        <4>6. Earlier(b)' \subseteq Limiter!Aged(kept \ Current(b))
          BY <1>3, <3>5 DEF Earlier, Limiter!Aged
        <4>7. Cardinality(Earlier(b)') <= Cardinality(Limiter!Aged(kept \ Current(b)))
          BY <4>5, <4>6, FS_Subset
        <4>8. Cardinality(Earlier(b)') \in Nat /\ Cardinality(kept \ Current(b)) \in Nat
          BY <4>3, <4>5, <4>6, FS_Subset, FS_CardinalityType
        <4>9. QED
          BY <1>1, <2>1, <4>1, <4>3, <4>5, <4>7, <4>8
      <3>10. QED
        BY <1>6, <1>8, <1>9, <2>1, <3>2, <3>7, <3>8, <3>9 DEF BucketOK, w
    <2>5. QED
      BY <2>3, <2>4
  <1>12. QED
    BY <1>10, <1>11

LEMMA TakeStep ==
  ASSUME LimiterInv, NEW b \in Limiter!Buckets, Limiter!TakeToken(b),
         UNCHANGED <<refused, promised>>
  PROVE  /\ DOMAIN bucket' = Limiter!Buckets
         /\ bucket' = [c \in Limiter!Buckets |-> bucket'[c]]
         /\ DOMAIN granted' = Limiter!Buckets
         /\ granted' = [c \in Limiter!Buckets |-> granted'[c]]
         /\ \A c \in Limiter!Buckets : BucketOK(c)' /\ RefusedOK(c)' /\ PromisedOK(c)'
  <1>1. /\ bucket' = [bucket EXCEPT ![b] = Limiter!Taken(b)]
        /\ granted' = [granted EXCEPT ![b] = @ \union {Limiter!NewToken(b)}]
        /\ Limiter!Grants(b)
    BY DEF Limiter!TakeToken
  <1>2. /\ DOMAIN bucket = Limiter!Buckets /\ bucket = [c \in Limiter!Buckets |-> bucket[c]]
        /\ DOMAIN granted = Limiter!Buckets /\ granted = [c \in Limiter!Buckets |-> granted[c]]
    BY DEF LimiterInv, LimiterShape
  <1>3. /\ DOMAIN bucket' = Limiter!Buckets
        /\ bucket' = [c \in Limiter!Buckets |-> bucket'[c]]
        /\ DOMAIN granted' = Limiter!Buckets
        /\ granted' = [c \in Limiter!Buckets |-> granted'[c]]
        /\ bucket'[b] = Limiter!Taken(b)
        /\ granted'[b] = granted[b] \union {Limiter!NewToken(b)}
        /\ \A c \in Limiter!Buckets \ {b} : bucket'[c] = bucket[c] /\ granted'[c] = granted[c]
    BY <1>1, <1>2
  <1>4. ASSUME NEW c \in Limiter!Buckets, c # b
        PROVE  BucketOK(c)' /\ RefusedOK(c)' /\ PromisedOK(c)'
    <2>1. BucketOK(c) /\ RefusedOK(c) /\ PromisedOK(c)
      BY DEF LimiterInv
    <2>2. bucket'[c] = bucket[c] /\ granted'[c] = granted[c]
      BY <1>3, <1>4
    <2>3. QED
      BY <2>1, <2>2 DEF BucketOK, RefusedOK, PromisedOK, Limiter!GivenNow, Current, Earlier
  <1>5. BucketOK(b)'
    BY <1>1, <1>3, TakeKeepsBucket DEF LimiterInv, Takes
  <1>6. /\ Limit[b] \in Nat \ {0} /\ Window[b] \in Nat \ {0}
        /\ Null \notin [tokens : Int, left : Int]
    BY LimiterConstants
  <1>7. RefusedOK(b)'
    BY <1>1 DEF LimiterInv, RefusedOK, Limiter!Grants
  <1>8. PromisedOK(b)'
    <2>1. CASE bucket[b] = Null
      <3>1. bucket'[b].left = Window[b]
        BY <1>3, <2>1 DEF Limiter!Taken, Limiter!Fresh
      <3>2. QED
        BY <1>5, <2>1, <3>1 DEF LimiterInv, PromisedOK, BucketOK
    <2>2. CASE bucket[b] # Null
      <3>1. bucket'[b].left = bucket[b].left
        BY <1>3, <2>2 DEF Limiter!Taken, LimiterInv, BucketOK
      <3>2. bucket'[b] # Null
        BY <1>3, <1>6, <2>2 DEF Limiter!Taken, LimiterInv, BucketOK
      <3>3. QED
        BY <2>2, <3>1, <3>2 DEF LimiterInv, PromisedOK
    <2>3. QED
      BY <2>1, <2>2
  <1>9. QED
    BY <1>3, <1>4, <1>5, <1>7, <1>8

LEMMA WaitingMoves ==
  ASSUME LimiterInv, NEW b \in Limiter!Buckets, waiting[b] > 0,
         \/ Limiter!MoveOn(b)
         \/ waiting' = [waiting EXCEPT ![b] = @ - 1]
         \/ waiting' = waiting
  PROVE  /\ waiting' \in [Limiter!Buckets -> Nat]
         /\ waiting'["rps"] + waiting'["rpm"] <= MaxWaiting
  BY LimiterConstants DEF LimiterInv, LimiterShape, Limiter!MoveOn, Limiter!Buckets

LEMMA LimiterTick ==
  ASSUME LimiterInv, Limiter!Tick
  PROVE  LimiterInv'
  <1>1. LimiterShape'
    BY DEF LimiterInv, LimiterShape, Limiter!Tick
  <1>2. ASSUME NEW b \in Limiter!Buckets
        PROVE  BucketOK(b)' /\ RefusedOK(b)' /\ PromisedOK(b)'
    <2>1. Ages(b)
      BY <1>2 DEF Limiter!Tick, Ages
    <2>2. BucketOK(b)'
      BY <2>1, AgeKeepsBucket DEF LimiterInv
    <2>3. RefusedOK(b)'
      BY DEF RefusedOK, Limiter!Tick
    <2>4. promised'[b] = {w - 1 : w \in promised[b] \ {0}}
      BY <1>2 DEF Limiter!Tick
    <2>5. PromisedOK(b)'
      <3>1. SUFFICES ASSUME NEW w \in promised[b], w # 0
                     PROVE  /\ w - 1 \in Nat
                            /\ bucket'[b] = Null => w - 1 = 0
                            /\ bucket'[b] # Null => w - 1 = bucket'[b].left
        BY <2>4 DEF PromisedOK
      <3>2. w \in Nat /\ bucket[b] # Null /\ w = bucket[b].left
        BY <3>1 DEF LimiterInv, PromisedOK
      <3>3. bucket[b] \in [tokens : 0 .. (Limit[b] - 1), left : 1 .. Window[b]]
        BY <3>2 DEF LimiterInv, BucketOK
      <3>4. CASE w = 1
        BY <2>1, <3>2, <3>4 DEF Ages
      <3>5. CASE w # 1
        <4>1. bucket'[b] = [bucket[b] EXCEPT !.left = @ - 1]
          BY <2>1, <3>2, <3>5 DEF Ages
        <4>2. bucket'[b].left = w - 1
          BY <3>2, <3>3, <4>1
        <4>3. bucket'[b] # Null
          BY <3>3, <4>1, LimiterConstants
        <4>4. QED
          BY <3>1, <3>2, <4>2, <4>3
      <3>6. QED
        BY <3>4, <3>5
    <2>6. QED
      BY <2>2, <2>3, <2>5
  <1>3. QED
    BY <1>1, <1>2 DEF LimiterInv

(* Requests that only wait elsewhere leave the buckets as they were.       *)
LEMMA LimiterFrame ==
  ASSUME LimiterInv, UNCHANGED <<bucket, granted, refused, promised>>,
         waiting' \in [Limiter!Buckets -> Nat], waiting'["rps"] + waiting'["rpm"] <= MaxWaiting
  PROVE  LimiterInv'
  <1>1. bucket' = bucket /\ granted' = granted /\ refused' = refused /\ promised' = promised
    OBVIOUS
  <1>2. LimiterShape'
    <2>1. LimiterShape
      BY DEF LimiterInv
    <2>2. QED
      BY <1>1, <2>1 DEF LimiterShape
  <1>3. ASSUME NEW b \in Limiter!Buckets
        PROVE  BucketOK(b)' /\ RefusedOK(b)' /\ PromisedOK(b)'
    <2>1. BucketOK(b) /\ RefusedOK(b) /\ PromisedOK(b)
      BY DEF LimiterInv
    <2>2. /\ Limiter!GivenNow(b)' = Limiter!GivenNow(b)
          /\ Current(b)' = Current(b) /\ Earlier(b)' = Earlier(b)
      BY <1>1 DEF Limiter!GivenNow, Current, Earlier
    <2>3. BucketOK(b)'
      BY <1>1, <2>1, <2>2 DEF BucketOK
    <2>4. RefusedOK(b)' /\ PromisedOK(b)'
      BY <1>1, <2>1 DEF RefusedOK, PromisedOK
    <2>5. QED
      BY <2>3, <2>4
  <1>4. QED
    BY <1>2, <1>3 DEF LimiterInv

LEMMA LimiterMoves ==
  ASSUME LimiterInv, Limiter!Next
  PROVE  LimiterInv'
  <1> USE DEF Limiter!Buckets
  <1>1. CASE Limiter!Arrive
    BY <1>1, LimiterConstants
    DEF Limiter!Arrive, LimiterInv, LimiterShape, BucketOK, RefusedOK, PromisedOK,
        Limiter!GivenNow, Current, Earlier
  <1>2. CASE Limiter!Tick
    BY <1>2, LimiterTick
  <1> HIDE DEF Limiter!Buckets
  <1>3. ASSUME NEW b \in Limiter!Buckets, Limiter!Admit(b) \/ Limiter!AnswerLost(b)
        PROVE  LimiterInv'
    BY <1>3, TakeStep, WaitingMoves DEF Limiter!Admit, Limiter!AnswerLost, LimiterInv, LimiterShape
  <1>4. ASSUME NEW b \in Limiter!Buckets, Limiter!Refuse(b)
        PROVE  LimiterInv'
    <2>1. /\ waiting' \in [Limiter!Buckets -> Nat]
          /\ waiting'["rps"] + waiting'["rpm"] <= MaxWaiting
      BY <1>4, WaitingMoves DEF Limiter!Refuse
    <2>2. /\ refused' = refused \union {b} /\ bucket' = bucket /\ granted' = granted
          /\ promised' = [promised EXCEPT ![b] = @ \union {bucket[b].left}]
          /\ bucket[b] # Null /\ ~(bucket[b].tokens > 0)
      BY <1>4 DEF Limiter!Refuse, Limiter!Grants
    <2>3. bucket[b] \in [tokens : 0 .. (Limit[b] - 1), left : 1 .. Window[b]]
      BY <2>2 DEF LimiterInv, BucketOK
    <2>4. bucket[b].tokens = 0 /\ bucket[b].left \in Nat
      BY <2>2, <2>3, LimiterConstants
    <2>5. LimiterShape'
      BY <2>1, <2>2 DEF LimiterInv, LimiterShape
    <2>6. ASSUME NEW c \in Limiter!Buckets
          PROVE  BucketOK(c)' /\ RefusedOK(c)' /\ PromisedOK(c)'
      <3>1. BucketOK(c) /\ RefusedOK(c) /\ PromisedOK(c)
        BY DEF LimiterInv
      <3>2. BucketOK(c)'
        BY <2>2, <3>1 DEF BucketOK, Limiter!GivenNow, Current, Earlier
      <3>3. RefusedOK(c)'
        BY <2>2, <2>4, <3>1 DEF RefusedOK
      <3>4. promised'[c] \subseteq promised[c] \cup (IF c = b THEN {bucket[b].left} ELSE {})
        BY <2>2 DEF LimiterInv, LimiterShape
      <3>5. PromisedOK(c)'
        BY <2>2, <2>4, <3>1, <3>4 DEF PromisedOK
      <3>6. QED
        BY <3>2, <3>3, <3>5
    <2>7. QED
      BY <2>5, <2>6 DEF LimiterInv
  <1>5. ASSUME NEW b \in Limiter!Buckets, Limiter!FailOpen(b)
        PROVE  LimiterInv'
    <2>1. /\ waiting' \in [Limiter!Buckets -> Nat]
          /\ waiting'["rps"] + waiting'["rpm"] <= MaxWaiting
      BY <1>5, WaitingMoves DEF Limiter!FailOpen
    <2>2. UNCHANGED <<bucket, granted, refused, promised>>
      BY <1>5 DEF Limiter!FailOpen
    <2>3. QED
      BY <2>1, <2>2, LimiterFrame
  <1>6. QED
    BY <1>1, <1>2, <1>3, <1>4, <1>5 DEF Limiter!Next

LEMMA LimiterAlone ==
  ASSUME [Next]_vars
  PROVE  Limiter!Next \/ UNCHANGED rateVars
  BY DEF Next, InWeb, InBackend, vars, backVars

LEMMA LimiterInvariant == Spec => []LimiterInv
  <1>1. Init => LimiterInv
    <2>1. SUFFICES ASSUME Limiter!Init
                   PROVE  LimiterInv
      BY DEF Init
    <2>2. /\ Cardinality({}) = 0 /\ IsFiniteSet({})
      BY FS_EmptySet
    <2>3. LimiterShape
      BY <2>1, LimiterConstants DEF Limiter!Init, LimiterShape, Limiter!Buckets
    <2>4. ASSUME NEW b \in Limiter!Buckets
          PROVE  BucketOK(b) /\ RefusedOK(b) /\ PromisedOK(b)
      <3>1. bucket[b] = Null /\ granted[b] = {} /\ promised[b] = {} /\ refused = {}
        BY <2>1, <2>4 DEF Limiter!Init
      <3>2. QED
        BY <2>2, <3>1, LimiterConstants DEF BucketOK, RefusedOK, PromisedOK, Limiter!GivenNow
    <2>5. QED
      BY <2>3, <2>4 DEF LimiterInv
  <1>2. LimiterInv /\ [Next]_vars => LimiterInv'
    <2>1. SUFFICES ASSUME LimiterInv, [Next]_vars
                   PROVE  LimiterInv'
      OBVIOUS
    <2>2. CASE Limiter!Next
      BY <2>1, <2>2, LimiterMoves
    <2>3. CASE UNCHANGED rateVars
      <3>1. UNCHANGED <<bucket, granted, refused, promised>> /\ waiting' = waiting
        BY <2>3 DEF rateVars
      <3>2. /\ waiting' \in [Limiter!Buckets -> Nat]
            /\ waiting'["rps"] + waiting'["rpm"] <= MaxWaiting
        BY <2>1, <3>1 DEF LimiterInv, LimiterShape
      <3>3. QED
        BY <2>1, <3>1, <3>2, LimiterFrame
    <2>4. QED
      BY <2>1, <2>2, <2>3, LimiterAlone
  <1>3. QED
    BY <1>1, <1>2, PTL DEF Spec

(* The limiter keeps its promise for every limit and window: less than     *)
(* twice the limit in any stretch as long as the window, nobody refused    *)
(* who kept to the rate, and an honest Retry-After.                        *)
THEOREM RateStaysHonest == Spec => []RateIsHonest
  <1>1. LimiterInv => RateIsHonest
    <2>1. SUFFICES ASSUME LimiterInv
                   PROVE  Limiter!RateIsHonest
      BY DEF RateIsHonest
    <2>2. ASSUME NEW b \in Limiter!Buckets
          PROVE  /\ Limiter!GivenLately(b) < 2 * Limit[b]
                 /\ b \in refused => Limiter!GivenLately(b) >= Limit[b]
                 /\ 0 \in promised[b] => bucket[b] = Null \/ bucket[b].left = Window[b]
      <3>1. BucketOK(b) /\ RefusedOK(b) /\ PromisedOK(b)
        BY <2>1 DEF LimiterInv
      <3>2. Limit[b] \in Nat \ {0}
        BY LimiterConstants
      <3>3. IsFiniteSet(granted[b]) /\ Cardinality(granted[b]) \in Nat
        BY <3>1, FS_CardinalityType DEF BucketOK
      <3>4. Limiter!GivenLately(b) = Cardinality(granted[b])
        BY LimiterCardinality DEF Limiter!GivenLately
      <3>5. CASE bucket[b] = Null
        <4>1. Cardinality(granted[b]) < Limit[b] /\ b \notin refused
          BY <3>1, <3>5 DEF BucketOK, RefusedOK
        <4>2. QED
          BY <3>2, <3>3, <3>4, <3>5, <4>1
      <3>6. CASE bucket[b] # Null
        <4>1. /\ bucket[b].tokens \in Nat /\ bucket[b].left \in 1 .. Window[b]
              /\ Cardinality(Current(b)) + bucket[b].tokens = Limit[b]
              /\ Cardinality(Earlier(b)) < Limit[b]
          BY <3>1, <3>2, <3>6 DEF BucketOK
        <4>2. /\ granted[b] = Current(b) \cup Earlier(b) /\ Current(b) \cap Earlier(b) = {}
              /\ Current(b) \subseteq granted[b] /\ Earlier(b) \subseteq granted[b]
          BY DEF Current, Earlier
        <4>3. /\ IsFiniteSet(Current(b)) /\ Cardinality(Current(b)) \in Nat
              /\ IsFiniteSet(Earlier(b)) /\ Cardinality(Earlier(b)) \in Nat
          BY <3>3, <4>2, FS_Subset, FS_CardinalityType
        <4>4. Cardinality(granted[b]) = Cardinality(Current(b)) + Cardinality(Earlier(b))
          BY <4>2, <4>3, FS_Union, FS_EmptySet
        <4>5. Limiter!GivenLately(b) < 2 * Limit[b]
          BY <3>2, <3>4, <4>1, <4>3, <4>4
        <4>6. b \in refused => Limiter!GivenLately(b) >= Limit[b]
          BY <3>1, <3>2, <3>4, <4>1, <4>3, <4>4 DEF RefusedOK
        <4>7. 0 \in promised[b] => bucket[b].left = Window[b]
          BY <3>1, <3>6, <4>1, LimiterConstants DEF PromisedOK
        <4>8. QED
          BY <4>5, <4>6, <4>7
      <3>7. QED
        BY <3>5, <3>6
    <2>3. refused \subseteq Limiter!Buckets
      BY <2>1 DEF LimiterInv, LimiterShape
    <2>4. QED
      BY <2>2, <2>3 DEF Limiter!RateIsHonest, Limiter!RateBounded, Limiter!RefusedOnlyWhenSpent,
                        Limiter!ResetIsHonest
  <1>2. QED
    BY <1>1, LimiterInvariant, PTL

(* -------------------------------- billing ------------------------------ *)

Checkout(s) == Account!Event("checkout.session.completed", s)
Deletion(s) == Account!Event("customer.subscription.deleted", s)
ActiveRow(s) == rows[s] # Null /\ rows[s].status = "active"
CanceledRow == [tier |-> "free", status |-> "canceled"]

Handled(s, e) == \E h \in Account!Handling(s) : h.event = e

(* Nothing but its cancellation is on the way for the subscription.        *)
Over(s) ==
    /\ Account!Of(pending, s) \subseteq {Deletion(s)}
    /\ \A h \in Account!Handling(s) : h.event = Deletion(s)

(* Before it is paid for, a subscription has neither events nor a row.  An *)
(* active one is waiting for its row, or has it; a canceled one is waiting *)
(* for the cancellation while it has an active row, and from the first     *)
(* delivery of that on nothing else is under way.                          *)
UnpaidOK(s) ==
    stripe[s] \in {"none", "open"} =>
        Account!Of(pending, s) = {} /\ Account!Handling(s) = {} /\ rows[s] = Null
ActiveOK(s) ==
    (stripe[s] = "active" /\ Account!Sound(s)) =>
        /\ rows[s] = Null \/ ActiveRow(s)
        /\ Deletion(s) \notin Account!Of(pending, s) /\ ~Handled(s, Deletion(s))
        /\ \/ ActiveRow(s)
           \/ Checkout(s) \in Account!Of(pending, s) \/ Handled(s, Checkout(s))
CanceledOK(s) ==
    (stripe[s] = "canceled" /\ Account!Sound(s)) =>
        /\ rows[s] \in {Null, CanceledRow} \/ ActiveRow(s)
        /\ ActiveRow(s) =>
               Deletion(s) \in Account!Of(pending, s) \/ Handled(s, Deletion(s))
        /\ (\/ Deletion(s) \notin Account!Of(pending, s) \/ Handled(s, Deletion(s))
            \/ rows[s] = CanceledRow) => Over(s)
SubOK(s) == UnpaidOK(s) /\ ActiveOK(s) /\ CanceledOK(s)

(* The profile's customer and price come from one completed checkout.      *)
ProfileOK ==
    /\ profile.customer # Null => profile.price \in Subs
    /\ profile.price \in Subs => stripe[profile.price] \notin {"none", "open"}

(* While its plan has not been changed, all its events are at the price it *)
(* was bought for; and so are its row and what is about to be written to   *)
(* it, also after a change if nothing else has been paid for.              *)
AsBought(s) == Account!OnlyPurchase(s) \/ ~repriced[s]
TierOK(s) ==
    /\ stripe[s] # "none" => customer[s] \in Subs
    /\ ~repriced[s] =>
          /\ planAt[s] = Plan[s]
          /\ \A e \in Account!Of(pending, s) : e.price = Plan[s]
          /\ \A h \in Account!Handling(s) : h.event.price = Plan[s]
    /\ AsBought(s) =>
          /\ ActiveRow(s) => rows[s].tier = Plan[s]
          /\ \A h \in Account!Handling(s) : h.stage = "sync" => h.event.price = Plan[s]

BillingInv == Account!TypeOK /\ ProfileOK /\ \A s \in Subs : SubOK(s) /\ TierOK(s)

LEMMA BillingConstants ==
  /\ MaxExtras \in Nat /\ Null \notin Subs /\ Null \notin [tier : Account!PlanTiers,
                                                         status : {"active", "canceled"}]
  /\ \A s \in Subs : Plan[s] # "free" /\ Plan[s] \in Account!Prices
  /\ CanceledRow # Null /\ Plan \in [Subs -> Account!Prices]
  <1>1. Account!BillingAssumption
    BY PlatformAssumption
  <1>2. CanceledRow \in [tier : Account!PlanTiers, status : {"active", "canceled"}]
    BY DEF CanceledRow, Account!PlanTiers
  <1>3. QED
    BY <1>1, <1>2 DEF Account!BillingAssumption, Account!PlanTiers, Account!Prices

(* Types: which records there are.                                         *)
LEMMA BillingTypes ==
  ASSUME Account!TypeOK, Account!Next
  PROVE  Account!TypeOK'
  <1> USE BillingConstants DEF Account!TypeOK
  <1>0. ASSUME NEW s \in Subs
        PROVE  /\ Account!Event("checkout.session.completed", s) \in Account!Events
               /\ Account!Event("customer.subscription.deleted", s) \in Account!Events
               /\ \A tier \in Account!Prices :
                     [type |-> "invoice.paid", sub |-> s, price |-> tier] \in Account!Events
    BY DEF Account!Event, Account!Events, Account!EventTypes
  <1>1. ASSUME NEW s \in Subs, NEW b \in BOOLEAN, Account!OpenCheckout(s, b)
        PROVE  Account!TypeOK'
    BY <1>1 DEF Account!OpenCheckout, Account!CheckoutCustomer, Account!KnownCustomer
  <1>2. ASSUME NEW s \in Subs, Account!Pay(s)
        PROVE  Account!TypeOK'
    BY <1>0, <1>2 DEF Account!Pay, Account!Invoice
  <1>3. ASSUME NEW s \in Subs, Account!Renew(s)
        PROVE  Account!TypeOK'
    BY <1>0, <1>3 DEF Account!Renew, Account!Invoice
  <1>4. ASSUME NEW s \in Subs, Account!Canceled(s)
        PROVE  Account!TypeOK'
    BY <1>0, <1>4 DEF Account!Canceled
  <1>10. ASSUME NEW s \in Subs, NEW tier \in Account!Prices, Account!ChangePlan(s, tier)
         PROVE  Account!TypeOK'
    <2>1. planAt' \in [Subs -> Account!Prices] /\ planAt'[s] = tier
      BY <1>10 DEF Account!ChangePlan
    <2>2. pending' \subseteq Account!Events
      BY <1>0, <1>10, <2>1 DEF Account!ChangePlan, Account!Invoice
    <2>3. QED
      BY <1>10, <2>1, <2>2 DEF Account!ChangePlan
  <1>5. ASSUME NEW e \in pending, Account!Deliver(e)
        PROVE  Account!TypeOK'
    <2>1. e \in Account!Events /\ e.sub \in Subs
      BY DEF Account!Events
    <2>2. [event |-> e, stage |-> "profile"] \in [event : Account!Events, stage : {"profile", "sync"}]
      BY <2>1
    <2>3. Account!OutOfOrder(e) \in BOOLEAN
      BY DEF Account!OutOfOrder, Account!Ended
    <2>4. broken' \in [Subs -> BOOLEAN]
      BY <1>5, <2>1, <2>3 DEF Account!Deliver
    <2>5. extras' \in 0 .. MaxExtras
      BY <1>5 DEF Account!Deliver
    <2>6. /\ handlers' \subseteq [event : Account!Events, stage : {"profile", "sync"}]
          /\ pending' \subseteq Account!Events
      BY <1>5, <2>2 DEF Account!Deliver
    <2>7. QED
      BY <1>5, <2>4, <2>5, <2>6 DEF Account!Deliver
  <1>6. ASSUME NEW h \in handlers, Account!HandleProfile(h)
        PROVE  Account!TypeOK'
    <2>1. /\ h \in [event : Account!Events, stage : {"profile", "sync"}]
          /\ h.event.sub \in Subs
      BY DEF Account!Events
    <2>2. [h EXCEPT !.stage = "sync"] \in [event : Account!Events, stage : {"profile", "sync"}]
      BY <2>1
    <2>3. handlers' \subseteq [event : Account!Events, stage : {"profile", "sync"}]
      BY <1>6, <2>2 DEF Account!HandleProfile, Account!CheckoutCompleted, Account!SubscriptionDeleted,
                        Account!InvoicePaid, Account!Continue, Account!Finish
    <2>4. profile' \in [customer : Subs \cup {Null}, price : Subs \cup {Null}, access : BOOLEAN]
      <3> DEFINE s == h.event.sub
                 P == [customer : Subs \cup {Null}, price : Subs \cup {Null}, access : BOOLEAN]
      <3>1. /\ [customer |-> customer[s], price |-> s, access |-> TRUE] \in P
            /\ [profile EXCEPT !.access = TRUE] \in P /\ [profile EXCEPT !.access = FALSE] \in P
            /\ profile \in P
        BY <2>1
      <3>2. \/ profile' = [customer |-> customer[s], price |-> s, access |-> TRUE]
            \/ profile' = [profile EXCEPT !.access = TRUE]
            \/ profile' = [profile EXCEPT !.access = FALSE]
            \/ profile' = profile
        BY <1>6, Zenon DEF Account!HandleProfile, Account!CheckoutCompleted,
                           Account!SubscriptionDeleted, Account!InvoicePaid
      <3> HIDE DEF P
      <3>3. profile' \in P
        BY <3>1, <3>2
      <3>4. QED
        BY <3>3 DEF P
    <2>5. QED
      BY <1>6, <2>3, <2>4 DEF Account!HandleProfile
  <1>7. ASSUME NEW h \in handlers, Account!HandleSync(h)
        PROVE  Account!TypeOK'
    <2>1. h \in [event : Account!Events, stage : {"profile", "sync"}] /\ h.event.sub \in Subs
      BY DEF Account!Events
    <2>2. Account!SyncedRow(h.event) \in [tier : Account!PlanTiers, status : {"active", "canceled"}]
      BY <2>1 DEF Account!SyncedRow, Account!PlanTiers, Account!Events
    <2>3. QED
      BY <1>7, <2>1, <2>2 DEF Account!HandleSync, Account!Finish
  <1>8. ASSUME NEW h \in handlers, Account!HandlerFails(h)
        PROVE  Account!TypeOK'
    <2>1. h \in [event : Account!Events, stage : {"profile", "sync"}] /\ h.event.sub \in Subs
      BY DEF Account!Events
    <2>2. [h EXCEPT !.stage = "sync"] \in [event : Account!Events, stage : {"profile", "sync"}]
      BY <2>1
    <2>3. handlers' \subseteq [event : Account!Events, stage : {"profile", "sync"}]
      BY <1>8, <2>2 DEF Account!HandlerFails, Account!Continue, Account!Finish
    <2>4. QED
      BY <1>8, <2>1, <2>3 DEF Account!HandlerFails
  <1>9. QED
    BY <1>1, <1>2, <1>3, <1>4, <1>5, <1>6, <1>7, <1>8, <1>10
    DEF Account!Next, Account!CancelInPortal, Account!Lapse, Account!DeliverAny, Account!Handle

(* What happens to other subscriptions is no matter.                       *)
LEMMA OtherSubs ==
  ASSUME NEW s \in Subs, SubOK(s),
         Account!Of(pending', s) = Account!Of(pending, s),
         Account!Handling(s)' = Account!Handling(s),
         stripe'[s] = stripe[s], rows'[s] = rows[s], broken'[s] = broken[s]
  PROVE  SubOK(s)'
  <1>1. Over(s)' = Over(s) /\ \A e : Handled(s, e)' = Handled(s, e)
    BY DEF Over, Handled
  <1>2. Account!Sound(s)' = Account!Sound(s) /\ ActiveRow(s)' = ActiveRow(s)
    BY DEF Account!Sound, ActiveRow
  <1>3. QED
    BY <1>1, <1>2 DEF SubOK, UnpaidOK, ActiveOK, CanceledOK

(* The steps before a payment, and those of Stripe itself.                 *)
LEMMA StripeSteps ==
  ASSUME Account!TypeOK, NEW s \in Subs, SubOK(s), NEW t \in Subs,
         \/ \E b \in BOOLEAN : Account!OpenCheckout(t, b)
         \/ Account!Pay(t) \/ Account!Renew(t) \/ Account!Canceled(t)
         \/ \E tier \in Account!Prices : Account!ChangePlan(t, tier)
  PROVE  SubOK(s)'
  <1>1. /\ Account!Handling(s)' = Account!Handling(s) /\ rows'[s] = rows[s] /\ broken'[s] = broken[s]
        /\ handlers' = handlers /\ rows' = rows /\ broken' = broken
    BY DEF Account!Handling, Account!OpenCheckout, Account!Pay, Account!Renew, Account!Canceled,
           Account!ChangePlan
  <1>2. /\ Account!Sound(s)' = Account!Sound(s) /\ \A e : Handled(s, e)' = Handled(s, e)
        /\ ActiveRow(s)' = ActiveRow(s)
    BY <1>1 DEF Account!Sound, Handled, ActiveRow
  <1>3. CASE s # t
    <2>1. stripe'[s] = stripe[s]
      BY <1>3 DEF Account!TypeOK, Account!OpenCheckout, Account!Pay, Account!Renew, Account!Canceled,
           Account!ChangePlan
    <2>2. Account!Of(pending', s) = Account!Of(pending, s)
      BY <1>3 DEF Account!Of, Account!Event, Account!Invoice, Account!OpenCheckout, Account!Pay,
                  Account!Renew, Account!Canceled, Account!ChangePlan
    <2>3. QED
      BY <1>1, <2>1, <2>2, OtherSubs
  <1>4. CASE s = t /\ \E b \in BOOLEAN : Account!OpenCheckout(t, b)
    <2>1. /\ stripe[s] = "none" /\ stripe'[s] = "open" /\ pending' = pending
      BY <1>4 DEF Account!OpenCheckout, Account!TypeOK
    <2>2. QED
      BY <1>1, <2>1 DEF SubOK, UnpaidOK, ActiveOK, CanceledOK, Account!Of
  <1>5. CASE s = t /\ Account!Pay(t)
    <2>1. /\ stripe[s] = "open" /\ stripe'[s] = "active"
          /\ pending' = pending \cup {Checkout(s), Account!Invoice(s)}
      BY <1>5 DEF Account!Pay, Account!TypeOK, Checkout
    <2>2. rows[s] = Null /\ Account!Handling(s) = {} /\ Account!Of(pending, s) = {}
      BY <2>1 DEF SubOK, UnpaidOK
    <2>3. Account!Of(pending', s) = {Checkout(s), Account!Invoice(s)}
      BY <2>1, <2>2 DEF Account!Of, Checkout, Account!Event, Account!Invoice
    <2>4. Deletion(s) \notin Account!Of(pending', s)
      BY <2>3 DEF Deletion, Checkout, Account!Event, Account!Invoice
    <2>5. QED
      BY <1>1, <1>2, <2>1, <2>2, <2>3, <2>4 DEF SubOK, UnpaidOK, ActiveOK, CanceledOK, Handled
  <1>6. CASE s = t /\ Account!Renew(t)
    <2>1. /\ stripe[s] = "active" /\ stripe' = stripe
          /\ pending' = pending \cup {Account!Invoice(s)}
      BY <1>6 DEF Account!Renew
    <2>2. /\ Account!Of(pending', s) = Account!Of(pending, s) \cup {Account!Invoice(s)}
          /\ Deletion(s) # Account!Invoice(s)
      BY <2>1 DEF Account!Of, Deletion, Account!Event, Account!Invoice
    <2>3. QED
      BY <1>1, <1>2, <2>1, <2>2 DEF SubOK, UnpaidOK, ActiveOK, CanceledOK
  <1>7. CASE s = t /\ Account!Canceled(t)
    <2>1. /\ stripe[s] = "active" /\ stripe'[s] = "canceled"
          /\ pending' = pending \cup {Deletion(s)}
      BY <1>7 DEF Account!Canceled, Account!TypeOK, Deletion
    <2>2. Deletion(s) \in Account!Of(pending', s)
      BY <2>1 DEF Account!Of, Deletion, Account!Event
    <2>3. Account!Sound(s) => /\ rows[s] = Null \/ ActiveRow(s)
                              /\ ~Handled(s, Deletion(s))
      BY <2>1 DEF SubOK, ActiveOK
    <2>4. ~ActiveRow(s) \/ rows[s] # CanceledRow
      BY DEF ActiveRow, CanceledRow
    <2>5. CanceledRow # Null
      BY BillingConstants
    <2>6. QED
      BY <1>1, <1>2, <2>1, <2>2, <2>3, <2>4, <2>5 DEF SubOK, UnpaidOK, ActiveOK, CanceledOK
  <1>8. CASE s = t /\ \E tier \in Account!Prices : Account!ChangePlan(t, tier)
    <2>1. /\ stripe[s] = "active" /\ stripe' = stripe
          /\ pending' = pending \/ pending' = pending \cup {Account!Invoice(s)'}
      BY <1>8 DEF Account!ChangePlan
    <2>2. /\ \/ Account!Of(pending', s) = Account!Of(pending, s)
             \/ Account!Of(pending', s) = Account!Of(pending, s) \cup {Account!Invoice(s)'}
          /\ Deletion(s) # Account!Invoice(s)'
      BY <2>1 DEF Account!Of, Deletion, Account!Event, Account!Invoice
    <2>3. QED
      BY <1>1, <1>2, <2>1, <2>2 DEF SubOK, UnpaidOK, ActiveOK, CanceledOK
  <1>9. QED
    BY <1>3, <1>4, <1>5, <1>6, <1>7, <1>8

LEMMA DeliverStep ==
  ASSUME Account!TypeOK, NEW s \in Subs, SubOK(s), NEW e \in pending, Account!Deliver(e)
  PROVE  SubOK(s)'
  <1> DEFINE new == [event |-> e, stage |-> "profile"]
  <1>1. e \in Account!Events /\ e.sub \in Subs /\ new.event = e
    BY DEF Account!TypeOK, Account!Events
  <1>2. /\ handlers' = handlers \cup {new}
        /\ pending' = pending \/ pending' = pending \ {e}
        /\ stripe' = stripe /\ rows' = rows
        /\ broken' = [broken EXCEPT ![e.sub] = @ \/ Account!OutOfOrder(e)]
    BY DEF Account!Deliver
  <1> HIDE DEF new
  <1>3. CASE s # e.sub
    <2>1. broken'[s] = broken[s]
      BY <1>1, <1>2, <1>3 DEF Account!TypeOK
    <2>2. /\ Account!Of(pending', s) = Account!Of(pending, s)
          /\ Account!Handling(s)' = Account!Handling(s)
      BY <1>1, <1>2, <1>3 DEF Account!Of, Account!Handling
    <2>3. QED
      BY <1>2, <2>1, <2>2, OtherSubs
  <1>4. CASE s = e.sub
    <2>1. /\ e \in Account!Of(pending, s)
          /\ Account!Handling(s)' = Account!Handling(s) \cup {new}
          /\ \A f \in Account!Of(pending, s) : f # e => f \in Account!Of(pending', s)
          /\ Account!Of(pending', s) \subseteq Account!Of(pending, s)
      BY <1>1, <1>2, <1>4 DEF Account!Of, Account!Handling
    <2>2. \A f : Handled(s, f)' <=> (Handled(s, f) \/ f = e)
      BY <1>1, <2>1 DEF Handled
    <2>3. stripe[s] \notin {"none", "open"}
      BY <2>1 DEF SubOK, UnpaidOK
    <2>4. Account!Sound(s)' => Account!Sound(s) /\ ~Account!OutOfOrder(e)
      <3>1. broken'[s] = (broken[s] \/ Account!OutOfOrder(e))
        BY <1>1, <1>2, <1>4 DEF Account!TypeOK
      <3>2. QED
        BY <3>1 DEF Account!Sound
    <2>5. e.type # "invoice.paid" => e = Account!Event(e.type, s)
      BY <1>1, <1>4 DEF Account!Events, Account!Event
    <2>11. ActiveRow(s)' = ActiveRow(s)
      BY <1>2 DEF ActiveRow
    <2>6. e.type = "customer.subscription.deleted" <=> e = Deletion(s)
      BY <2>5 DEF Deletion, Account!Event
    <2>7. UnpaidOK(s)'
      BY <1>2, <2>3 DEF UnpaidOK
    <2>8. ASSUME stripe[s] = "active", Account!Sound(s)'
          PROVE  ActiveOK(s)'
      <3>1. /\ rows[s] = Null \/ ActiveRow(s)
            /\ Deletion(s) \notin Account!Of(pending, s) /\ ~Handled(s, Deletion(s))
            /\ \/ ActiveRow(s)
               \/ Checkout(s) \in Account!Of(pending, s) \/ Handled(s, Checkout(s))
        BY <2>4, <2>8 DEF SubOK, ActiveOK
      <3>2. e # Deletion(s)
        BY <2>1, <3>1
      <3>3. QED
        BY <1>2, <2>1, <2>2, <2>11, <3>1, <3>2 DEF ActiveOK
    <2>9. ASSUME stripe[s] = "canceled", Account!Sound(s)'
          PROVE  CanceledOK(s)'
      <3>1. CASE e = Deletion(s)
        <4>1. Account!Of(pending, s) = {e} /\ Account!Handling(s) = {}
          BY <1>4, <2>4, <2>6, <2>9, <3>1 DEF Account!OutOfOrder
        <4>2. Over(s)'
          BY <1>1, <2>1, <3>1, <4>1 DEF Over
        <4>3. rows[s] \in {Null, CanceledRow} \/ ActiveRow(s)
          BY <2>4, <2>9 DEF SubOK, CanceledOK
        <4>4. Handled(s, Deletion(s))'
          BY <2>2, <3>1
        <4>5. QED
          BY <1>2, <2>11, <4>2, <4>3, <4>4 DEF CanceledOK
      <3>2. CASE e # Deletion(s)
        <4>1. Deletion(s) \in pending
          BY <1>4, <2>4, <2>6, <2>9, <3>2 DEF Account!OutOfOrder, Account!Ended, Deletion
        <4>2. Deletion(s) \in Account!Of(pending, s)
          BY <4>1 DEF Account!Of, Deletion, Account!Event
        <4>3. ~Over(s)
          BY <2>1, <3>2 DEF Over
        <4>4. /\ (rows[s] = Null \/ ActiveRow(s)) /\ ~Handled(s, Deletion(s))
              /\ rows[s] # CanceledRow
          BY <2>4, <2>9, <4>3 DEF SubOK, CanceledOK
        <4>5. Deletion(s) \in Account!Of(pending', s) /\ ~Handled(s, Deletion(s))'
          BY <2>1, <2>2, <3>2, <4>2, <4>4
        <4>6. QED
          BY <1>2, <2>11, <4>4, <4>5 DEF CanceledOK
      <3>3. QED
        BY <3>1, <3>2
    <2>10. QED
      BY <1>2, <2>7, <2>8, <2>9 DEF SubOK, ActiveOK, CanceledOK
  <1>5. QED
    BY <1>3, <1>4

LEMMA HandlerSteps ==
  ASSUME Account!TypeOK, NEW s \in Subs, SubOK(s), NEW h \in handlers,
         Account!HandleProfile(h) \/ Account!HandleSync(h) \/ Account!HandlerFails(h)
  PROVE  SubOK(s)'
  <1> DEFINE next == [h EXCEPT !.stage = "sync"]
  <1>1. /\ h.event \in Account!Events /\ h.event.sub \in Subs /\ next.event = h.event
        /\ h.event.type # "invoice.paid" => h.event = Account!Event(h.event.type, h.event.sub)
        /\ h.event.price \in Account!Prices
        /\ h.event.type \in Account!EventTypes
    BY DEF Account!TypeOK, Account!Events, Account!Event
  <1>2. /\ handlers' = handlers \ {h} \/ handlers' = (handlers \ {h}) \cup {next}
        /\ stripe' = stripe /\ pending' = pending
    BY DEF Account!HandleProfile, Account!HandleSync, Account!HandlerFails,
           Account!CheckoutCompleted, Account!SubscriptionDeleted, Account!InvoicePaid,
           Account!Finish, Account!Continue
  <1> HIDE DEF next
  <1>3. Account!Of(pending', s) = Account!Of(pending, s)
    BY <1>2
  <1>4. CASE s # h.event.sub
    <2>1. broken'[s] = broken[s] /\ rows'[s] = rows[s]
      BY <1>1, <1>4 DEF Account!TypeOK, Account!HandleProfile, Account!HandleSync,
                        Account!HandlerFails
    <2>2. Account!Handling(s)' = Account!Handling(s)
      BY <1>1, <1>2, <1>4 DEF Account!Handling
    <2>3. QED
      BY <1>2, <1>3, <2>1, <2>2, OtherSubs
  <1>5. CASE s = h.event.sub
    <2>1. h \in Account!Handling(s)
      BY <1>5 DEF Account!Handling
    <2>2. stripe[s] \notin {"none", "open"} /\ UnpaidOK(s)'
      BY <1>2, <2>1 DEF SubOK, UnpaidOK
    <2>3. /\ \A g \in Account!Handling(s)' : \E f \in Account!Handling(s) : g.event = f.event
          /\ \A g \in Account!Handling(s) : g # h => g \in Account!Handling(s)'
      BY <1>1, <1>2, <2>1 DEF Account!Handling
    <2>4. /\ \A e : Handled(s, e)' => Handled(s, e)
          /\ \A e : e # h.event /\ Handled(s, e) => Handled(s, e)'
      BY <2>3 DEF Handled
    <2>5. Over(s) => Over(s)'
      BY <1>3, <2>3 DEF Over
    <2>6. CASE Account!HandleProfile(h)
      <3>1. /\ rows' = rows /\ broken' = broken /\ Account!Sound(s)' = Account!Sound(s)
            /\ ActiveRow(s)' = ActiveRow(s)
        BY <2>6 DEF Account!HandleProfile, Account!Sound, ActiveRow
      <3>2. ASSUME Account!Sound(s), h.event = Checkout(s) \/ h.event = Deletion(s)
            PROVE  Handled(s, h.event)'
        <4>1. h.event.type # "invoice.paid"
          BY <3>2 DEF Checkout, Deletion, Account!Event
        <4>2. Account!Continue(h)
          BY <1>5, <2>6, <3>2, <4>1 DEF Account!HandleProfile, Account!CheckoutCompleted,
             Account!SubscriptionDeleted, Account!InvoicePaid, Account!Sound
        <4>3. next \in handlers'
          BY <4>2 DEF Account!Continue, next
        <4>4. QED
          BY <1>1, <1>5, <4>3 DEF Handled, Account!Handling
      <3>3. Account!Sound(s) => /\ Handled(s, Checkout(s))' = Handled(s, Checkout(s))
                                /\ Handled(s, Deletion(s))' = Handled(s, Deletion(s))
        BY <2>4, <3>2 DEF Handled
      <3>4. QED
        BY <1>2, <1>3, <2>2, <2>5, <3>1, <3>3 DEF SubOK, ActiveOK, CanceledOK
    <2>7. CASE Account!HandleSync(h)
      <3>1. broken' = broken /\ Account!Sound(s)' = Account!Sound(s)
        BY <2>7 DEF Account!HandleSync, Account!Sound
      <3>2. /\ h.event = Deletion(s) => rows'[s] = CanceledRow /\ ~ActiveRow(s)'
            /\ h.event # Deletion(s) => ActiveRow(s)' /\ rows'[s] # CanceledRow
        <4>1. rows'[s] = Account!SyncedRow(h.event)
          BY <1>5, <2>7 DEF Account!HandleSync, Account!TypeOK
        <4>2. h.event.type = "customer.subscription.deleted" <=> h.event = Deletion(s)
          BY <1>1, <1>5 DEF Deletion, Account!Event
        <4>3. [tier |-> h.event.price, status |-> "active"] # Null
          BY <1>1, BillingConstants DEF Account!PlanTiers
        <4>4. QED
          BY <1>5, <4>1, <4>2, <4>3 DEF Account!SyncedRow, CanceledRow, ActiveRow
      <3>3. Handled(s, h.event)
        BY <2>1 DEF Handled
      <3>4. ASSUME stripe[s] = "active", Account!Sound(s)
            PROVE  ActiveOK(s)'
        <4>1. /\ Deletion(s) \notin Account!Of(pending, s) /\ ~Handled(s, Deletion(s))
          BY <3>4 DEF SubOK, ActiveOK
        <4>2. ActiveRow(s)'
          BY <3>2, <3>3, <4>1
        <4>3. QED
          BY <1>3, <2>4, <4>1, <4>2 DEF ActiveOK
      <3>5. ASSUME stripe[s] = "canceled", Account!Sound(s)
            PROVE  CanceledOK(s)'
        <4>1. CASE h.event = Deletion(s)
          <5>1. Over(s)
            BY <3>3, <3>5, <4>1 DEF SubOK, CanceledOK
          <5>2. rows'[s] = CanceledRow /\ ~ActiveRow(s)'
            BY <3>2, <4>1
          <5>3. QED
            BY <2>5, <5>1, <5>2 DEF CanceledOK
        <4>2. CASE h.event # Deletion(s)
          <5>1. ~Over(s)
            BY <2>1, <4>2 DEF Over
          <5>2. Deletion(s) \in Account!Of(pending, s) /\ ~Handled(s, Deletion(s))
            BY <3>5, <5>1 DEF SubOK, CanceledOK
          <5>3. ActiveRow(s)' /\ rows'[s] # CanceledRow
            BY <3>2, <4>2
          <5>4. QED
            BY <1>3, <2>4, <5>2, <5>3 DEF CanceledOK
        <4>3. QED
          BY <4>1, <4>2
      <3>6. QED
        BY <1>2, <2>2, <3>1, <3>4, <3>5 DEF SubOK, ActiveOK, CanceledOK
    <2>8. CASE Account!HandlerFails(h)
      <3>1. broken'[s]
        BY <1>1, <1>5, <2>8 DEF Account!HandlerFails, Account!TypeOK
      <3>2. QED
        BY <2>2, <3>1 DEF SubOK, ActiveOK, CanceledOK, Account!Sound
    <2>9. QED
      BY <2>6, <2>7, <2>8
  <1>6. QED
    BY <1>4, <1>5

(* The tier: what an event leaves behind of it.                            *)
LEMMA OthersTier ==
  ASSUME NEW s \in Subs, TierOK(s),
         Account!Of(pending', s) = Account!Of(pending, s),
         Account!Handling(s)' = Account!Handling(s), AsBought(s)' => AsBought(s),
         stripe'[s] = stripe[s], customer'[s] = customer[s], rows'[s] = rows[s],
         planAt'[s] = planAt[s], repriced'[s] = repriced[s]
  PROVE  TierOK(s)'
  BY DEF TierOK, ActiveRow

(* Paid subscriptions stay paid, and a changed plan a changed one.         *)
LEMMA AsBoughtStays ==
  ASSUME Account!TypeOK, Account!Next, NEW s \in Subs
  PROVE  /\ AsBought(s)' => AsBought(s)
         /\ repriced[s] => repriced'[s]
         /\ stripe[s] \notin {"none", "open"} => stripe'[s] \notin {"none", "open"}
  <1>1. \A t \in Subs : /\ stripe'[t] \in {"none", "open"} => stripe[t] \in {"none", "open"}
                        /\ repriced[t] => repriced'[t]
    BY DEF Account!TypeOK, Account!Next, Account!OpenCheckout, Account!Pay, Account!Renew,
           Account!ChangePlan, Account!CancelInPortal, Account!Lapse, Account!Canceled,
           Account!DeliverAny, Account!Deliver, Account!Handle, Account!HandleProfile,
           Account!HandleSync, Account!HandlerFails
  <1>2. QED
    BY <1>1 DEF AsBought, Account!OnlyPurchase

LEMMA StripeTier ==
  ASSUME Account!TypeOK, NEW s \in Subs, UnpaidOK(s), TierOK(s), NEW t \in Subs,
         AsBought(s)' => AsBought(s),
         \/ \E b \in BOOLEAN : Account!OpenCheckout(t, b)
         \/ Account!Pay(t) \/ Account!Renew(t) \/ Account!Canceled(t)
         \/ \E tier \in Account!Prices : Account!ChangePlan(t, tier)
  PROVE  TierOK(s)'
  <1>1. /\ Account!Handling(s)' = Account!Handling(s) /\ rows' = rows
        /\ ActiveRow(s)' = ActiveRow(s)
    BY DEF Account!Handling, ActiveRow, Account!OpenCheckout, Account!Pay, Account!Renew,
           Account!Canceled, Account!ChangePlan
  <1>2. CASE s # t
    <2>1. /\ stripe'[s] = stripe[s] /\ customer'[s] = customer[s]
          /\ planAt'[s] = planAt[s] /\ repriced'[s] = repriced[s]
      BY <1>2 DEF Account!TypeOK, Account!OpenCheckout, Account!Pay, Account!Renew,
                  Account!Canceled, Account!ChangePlan
    <2>2. Account!Of(pending', s) = Account!Of(pending, s)
      BY <1>2 DEF Account!Of, Account!Event, Account!Invoice, Account!OpenCheckout, Account!Pay,
                  Account!Renew, Account!Canceled, Account!ChangePlan
    <2>3. QED
      BY <1>1, <2>1, <2>2, OthersTier
  <1>3. CASE s = t /\ \E b \in BOOLEAN : Account!OpenCheckout(t, b)
    <2>1. /\ pending' = pending /\ planAt' = planAt /\ repriced' = repriced
          /\ customer'[s] \in Subs
      BY <1>3, BillingConstants DEF Account!OpenCheckout, Account!TypeOK,
         Account!CheckoutCustomer, Account!KnownCustomer
    <2>2. QED
      BY <1>1, <2>1 DEF TierOK, Account!Of
  <1>4. CASE s = t /\ (Account!Pay(t) \/ Account!Renew(t) \/ Account!Canceled(t))
    <2>1. /\ customer' = customer /\ planAt' = planAt /\ repriced' = repriced
          /\ stripe[s] # "none"
          /\ pending' \subseteq pending \cup {Checkout(s), Deletion(s), Account!Invoice(s)}
      BY <1>4 DEF Account!Pay, Account!Renew, Account!Canceled, Checkout, Deletion
    <2>2. /\ Checkout(s).price = Plan[s] /\ Deletion(s).price = Plan[s]
          /\ Account!Invoice(s).price = planAt[s]
      BY DEF Checkout, Deletion, Account!Event, Account!Invoice
    <2>3. ~repriced[s] => \A e \in Account!Of(pending', s) : e.price = Plan[s]
      BY <2>1, <2>2 DEF TierOK, Account!Of
    <2>4. QED
      BY <1>1, <2>1, <2>3 DEF TierOK
  <1>5. CASE s = t /\ \E tier \in Account!Prices : Account!ChangePlan(t, tier)
    <2>1. /\ stripe' = stripe /\ customer' = customer /\ repriced'[s]
      BY <1>5 DEF Account!ChangePlan, Account!TypeOK
    <2>2. QED
      BY <1>1, <2>1 DEF TierOK
  <1>6. QED
    BY <1>2, <1>3, <1>4, <1>5

LEMMA DeliverTier ==
  ASSUME Account!TypeOK, NEW s \in Subs, TierOK(s), NEW e \in pending, Account!Deliver(e),
         AsBought(s)' => AsBought(s)
  PROVE  TierOK(s)'
  <1> DEFINE new == [event |-> e, stage |-> "profile"]
  <1>1. /\ handlers' = handlers \cup {new} /\ pending' \subseteq pending
        /\ UNCHANGED <<stripe, customer, planAt, repriced, rows>>
        /\ ActiveRow(s)' = ActiveRow(s)
    BY DEF Account!Deliver, ActiveRow
  <1>2. new.event = e /\ new.stage # "sync"
    OBVIOUS
  <1> HIDE DEF new
  <1>3. /\ Account!Of(pending', s) \subseteq Account!Of(pending, s)
        /\ \A h \in Account!Handling(s)' :
              h \in Account!Handling(s) \/ (h = new /\ e \in Account!Of(pending, s))
    BY <1>1, <1>2 DEF Account!Of, Account!Handling
  <1>4. QED
    BY <1>1, <1>2, <1>3 DEF TierOK

(* An invoice goes on only at the price of the profile, which is that of   *)
(* the only purchase.                                                      *)
LEMMA HandlerTier ==
  ASSUME Account!TypeOK, ProfileOK, NEW s \in Subs, UnpaidOK(s), TierOK(s), NEW h \in handlers,
         Account!HandleProfile(h) \/ Account!HandleSync(h) \/ Account!HandlerFails(h),
         AsBought(s)' => AsBought(s)
  PROVE  TierOK(s)'
  <1> DEFINE next == [h EXCEPT !.stage = "sync"]
  <1>1. /\ h.event \in Account!Events /\ h.event.sub \in Subs /\ next.event = h.event
        /\ h.event.type # "invoice.paid" => h.event.price = Plan[h.event.sub]
    BY DEF Account!TypeOK, Account!Events
  <1>2. /\ UNCHANGED <<stripe, customer, planAt, repriced, pending>>
        /\ handlers' = handlers \ {h} \/ handlers' = (handlers \ {h}) \cup {next}
    BY DEF Account!HandleProfile, Account!HandleSync, Account!HandlerFails,
           Account!CheckoutCompleted, Account!SubscriptionDeleted, Account!InvoicePaid,
           Account!Finish, Account!Continue
  <1> HIDE DEF next
  <1>3. CASE s # h.event.sub
    <2>1. rows'[s] = rows[s]
      BY <1>1, <1>3 DEF Account!TypeOK, Account!HandleProfile, Account!HandleSync,
                        Account!HandlerFails
    <2>2. Account!Handling(s)' = Account!Handling(s)
      BY <1>1, <1>2, <1>3 DEF Account!Handling
    <2>3. QED
      BY <1>2, <2>1, <2>2, OthersTier
  <1>4. CASE s = h.event.sub
    <2>1. /\ h \in Account!Handling(s)
          /\ \A g \in Account!Handling(s)' : g \in Account!Handling(s) \/ g = next
      BY <1>1, <1>2, <1>4 DEF Account!Handling
    <2>2. stripe[s] \notin {"none", "open"} /\ customer[s] \in Subs
      BY <2>1 DEF UnpaidOK, TierOK
    <2>3. ASSUME AsBought(s), Account!Continue(h)
          PROVE  h.event.price = Plan[s]
      <3>1. CASE ~repriced[s]
        BY <2>1, <3>1 DEF TierOK
      <3>2. CASE h.event.type # "invoice.paid"
        BY <1>1, <1>4, <3>2
      <3>3. CASE repriced[s] /\ h.event.type = "invoice.paid"
        <4>1. next \in handlers' /\ next.stage = "sync"
          BY <2>3 DEF Account!Continue, next, Account!TypeOK
        <4>2. CASE Account!HandleProfile(h)
          <5>1. Account!InvoicePaid(h, s)
            BY <1>4, <3>3, <4>2 DEF Account!HandleProfile, Account!CheckoutCompleted,
                                    Account!SubscriptionDeleted
          <5>2. h.stage = "profile" /\ next # h
            BY <4>1, <4>2 DEF Account!HandleProfile
          <5>3. \/ profile.customer = customer[s] /\ Plan[profile.price] = h.event.price
                \/ Account!Finish(h)
            BY <5>1 DEF Account!InvoicePaid
          <5>4. CASE profile.customer = customer[s] /\ Plan[profile.price] = h.event.price
            <6>1. profile.price \in Subs /\ stripe[profile.price] \notin {"none", "open"}
              BY <2>2, <5>4, BillingConstants DEF ProfileOK
            <6>2. profile.price = s
              BY <2>3, <3>3, <6>1 DEF AsBought, Account!OnlyPurchase
            <6>3. QED
              BY <5>4, <6>2
          <5>5. CASE Account!Finish(h)
            <6>1. next \in handlers
              BY <4>1, <5>5 DEF Account!Finish
            <6>2. next \in Account!Handling(s)
              BY <1>1, <1>4, <6>1 DEF Account!Handling
            <6>3. QED
              BY <1>1, <2>3, <4>1, <6>2 DEF TierOK
          <5>6. QED
            BY <5>3, <5>4, <5>5
        <4>3. CASE Account!HandleSync(h)
          BY <2>1, <2>3, <4>3 DEF Account!HandleSync, TierOK
        <4>4. CASE Account!HandlerFails(h)
          <5>1. Account!Finish(h)
            BY <3>3, <4>4 DEF Account!HandlerFails
          <5>2. next \in handlers
            BY <4>1, <5>1 DEF Account!Finish
          <5>3. next \in Account!Handling(s)
            BY <1>1, <1>4, <5>2 DEF Account!Handling
          <5>4. QED
            BY <1>1, <2>3, <4>1, <5>3 DEF TierOK
        <4>5. QED
          BY <4>2, <4>3, <4>4
      <3>4. QED
        BY <3>1, <3>2, <3>3
    <2>4. ASSUME AsBought(s), NEW g \in Account!Handling(s)', g.stage = "sync"
          PROVE  g.event.price = Plan[s]
      <3>1. CASE g \in Account!Handling(s)
        BY <2>4, <3>1 DEF TierOK
      <3>2. CASE g \notin Account!Handling(s)
        <4>1. g = next /\ g \in handlers' /\ g \notin handlers
          BY <2>1, <2>4, <3>2 DEF Account!Handling
        <4>2. Account!Continue(h)
          BY <4>1 DEF Account!HandleProfile, Account!HandleSync, Account!HandlerFails,
             Account!CheckoutCompleted, Account!SubscriptionDeleted, Account!InvoicePaid,
             Account!Finish
        <4>3. QED
          BY <1>1, <2>3, <2>4, <4>1, <4>2
      <3>3. QED
        BY <3>1, <3>2
    <2>5. ASSUME AsBought(s), ActiveRow(s)'
          PROVE  rows'[s].tier = Plan[s]
      <3>1. CASE rows' = rows
        BY <2>5, <3>1 DEF TierOK, ActiveRow
      <3>2. CASE Account!HandleSync(h)
        <4>1. h.event.price = Plan[s]
          BY <2>1, <2>5, <3>2 DEF Account!HandleSync, TierOK
        <4>2. rows'[s] = Account!SyncedRow(h.event)
          BY <1>4, <3>2 DEF Account!HandleSync, Account!TypeOK
        <4>3. QED
          BY <2>5, <4>1, <4>2 DEF Account!SyncedRow, ActiveRow
      <3>3. QED
        BY <3>1, <3>2 DEF Account!HandleProfile, Account!HandlerFails
    <2>6. ~repriced[s] => \A g \in Account!Handling(s)' : g.event.price = Plan[s]
      BY <1>1, <2>1 DEF TierOK
    <2>7. QED
      BY <1>2, <2>4, <2>5, <2>6 DEF TierOK, Account!Of
  <1>5. QED
    BY <1>3, <1>4

LEMMA BillingMoves ==
  ASSUME BillingInv, Account!Next
  PROVE  BillingInv'
  <1>1. Account!TypeOK'
    BY BillingTypes DEF BillingInv
  <1>2. ASSUME NEW s \in Subs
        PROVE  SubOK(s)' /\ TierOK(s)'
    <2>1. Account!TypeOK /\ ProfileOK /\ SubOK(s) /\ UnpaidOK(s) /\ TierOK(s)
          /\ (AsBought(s)' => AsBought(s))
      BY AsBoughtStays DEF BillingInv, SubOK
    <2>2. SubOK(s)'
      BY <2>1, StripeSteps, DeliverStep, HandlerSteps
      DEF Account!Next, Account!CancelInPortal, Account!Lapse, Account!DeliverAny, Account!Handle
    <2>3. TierOK(s)'
      BY <2>1, StripeTier, DeliverTier, HandlerTier
      DEF Account!Next, Account!CancelInPortal, Account!Lapse, Account!DeliverAny, Account!Handle
    <2>4. QED
      BY <2>2, <2>3
  <1>3. ProfileOK'
    <2>1. /\ profile \in [customer : Subs \cup {Null}, price : Subs \cup {Null}, access : BOOLEAN]
          /\ ProfileOK
          /\ \A s \in Subs : stripe[s] \notin {"none", "open"} => stripe'[s] \notin {"none", "open"}
      BY AsBoughtStays DEF BillingInv, Account!TypeOK
    <2>2. CASE profile'.customer = profile.customer /\ profile'.price = profile.price
      BY <2>1, <2>2 DEF ProfileOK
    <2>3. ASSUME NEW h \in handlers, Account!HandleProfile(h)
          PROVE  ProfileOK'
      <3>1. /\ h.event.sub \in Subs /\ h \in Account!Handling(h.event.sub)
        BY DEF BillingInv, Account!TypeOK, Account!Events, Account!Handling
      <3>2. stripe[h.event.sub] \notin {"none", "open"}
        BY <3>1 DEF BillingInv, SubOK, UnpaidOK
      <3>3. \/ profile' = [customer |-> customer[h.event.sub], price |-> h.event.sub, access |-> TRUE]
            \/ profile'.customer = profile.customer /\ profile'.price = profile.price
        BY <2>1, <2>3 DEF Account!HandleProfile, Account!CheckoutCompleted,
                          Account!SubscriptionDeleted, Account!InvoicePaid
      <3>4. QED
        BY <2>1, <2>2, <3>1, <3>2, <3>3 DEF ProfileOK
    <2>4. CASE profile' = profile
      BY <2>2, <2>4
    <2>5. QED
      BY <2>3, <2>4 DEF Account!Next, Account!OpenCheckout, Account!Pay, Account!Renew,
           Account!ChangePlan, Account!CancelInPortal, Account!Lapse, Account!Canceled,
           Account!DeliverAny, Account!Deliver, Account!Handle, Account!HandleSync,
           Account!HandlerFails
  <1>4. QED
    BY <1>1, <1>2, <1>3 DEF BillingInv

LEMMA BillingInvariant == Spec => []BillingInv
  <1>1. Init => BillingInv
    <2>1. SUFFICES ASSUME Account!Init
                   PROVE  BillingInv
      BY DEF Init
    <2>2. Account!TypeOK /\ ProfileOK
      BY <2>1, BillingConstants DEF Account!Init, Account!TypeOK, ProfileOK
    <2>3. ASSUME NEW s \in Subs
          PROVE  SubOK(s) /\ TierOK(s)
      BY <2>1 DEF Account!Init, SubOK, UnpaidOK, ActiveOK, CanceledOK, TierOK, ActiveRow,
                  Account!Of, Account!Handling
    <2>4. QED
      BY <2>2, <2>3 DEF BillingInv
  <1>2. BillingInv /\ [Next]_vars => BillingInv'
    <2>1. SUFFICES ASSUME BillingInv, [Next]_vars
                   PROVE  BillingInv'
      OBVIOUS
    <2>2. Account!Next \/ UNCHANGED billingVars
      BY <2>1 DEF Next, InWeb, InBackend, vars, webVars
    <2>3. CASE UNCHANGED billingVars
      BY <2>1, <2>3 DEF billingVars, BillingInv, SubOK, UnpaidOK, ActiveOK, CanceledOK, Over, Handled,
                        TierOK, AsBought, ActiveRow, ProfileOK, Account!OnlyPurchase,
                        Account!TypeOK, Account!Handling, Account!Of, Account!Sound
    <2>4. QED
      BY <2>1, <2>2, <2>3, BillingMoves
  <1>3. QED
    BY <1>1, <1>2, PTL DEF Spec

(* Webhook at rest: a subscription has an active row exactly while Stripe  *)
(* has it active, of the tier it was bought for however its plan has been  *)
(* changed since, and that is the tier read back - whatever the plans,     *)
(* however many subscriptions, repeated deliveries and failures of others. *)
THEOREM TierIsAsBought == Spec => []TierFollowsPurchase
  <1>1. BillingInv => TierFollowsPurchase
    <2>1. SUFFICES ASSUME BillingInv, NEW s \in Subs, Account!Quiet(s), Account!Sound(s)
                   PROVE  Account!TierAsBought(s)
      BY DEF TierFollowsPurchase, Account!TierFollowsPurchase
    <2>2. /\ Account!TypeOK /\ SubOK(s) /\ stripe[s] \in {"none", "open", "active", "canceled"}
          /\ Account!Of(pending, s) = {} /\ \A e : ~Handled(s, e)
      BY <2>1 DEF BillingInv, Account!TypeOK, Account!Quiet, Handled
    <2>3. /\ stripe[s] = "active" => ActiveRow(s)
          /\ stripe[s] = "canceled" => rows[s] \in {Null, CanceledRow}
          /\ stripe[s] \in {"none", "open"} => rows[s] = Null
      BY <2>1, <2>2 DEF SubOK, UnpaidOK, ActiveOK, CanceledOK
    <2>4. CanceledRow # Null /\ CanceledRow.status # "active" /\ CanceledRow.tier = "free"
      BY BillingConstants DEF CanceledRow
    <2>5. /\ s \in Account!Rows <=> rows[s] # Null
          /\ s \in Account!ActiveRows <=> ActiveRow(s)
      BY DEF Account!Rows, Account!ActiveRows, ActiveRow
    <2>6. s \in Account!ActiveRows <=> stripe[s] = "active"
      BY <2>2, <2>3, <2>4, <2>5 DEF ActiveRow
    <2>7. ASSUME s \in Account!ActiveRows, Account!OnlyPurchase(s) \/ ~repriced[s]
          PROVE  rows[s].tier = Plan[s]
      BY <2>1, <2>5, <2>7 DEF BillingInv, TierOK, AsBought
    <2>8. ASSUME Account!Rows = {s}
          PROVE  /\ Account!Granted = IF stripe[s] = "active" THEN {rows[s].tier} ELSE {"free"}
                 /\ Account!PlanCard = Account!Granted
      <3>1. /\ rows[s] # Null /\ Account!PlanCard = {rows[s].tier}
            /\ Account!ActiveRows = IF stripe[s] = "active" THEN {s} ELSE {}
        BY <2>5, <2>6, <2>8 DEF Account!PlanCard, Account!ActiveRows
      <3>2. CASE stripe[s] = "active"
        BY <3>1, <3>2 DEF Account!Granted
      <3>3. CASE stripe[s] # "active"
        BY <2>2, <2>3, <2>4, <3>1, <3>3 DEF Account!Granted
      <3>4. QED
        BY <3>2, <3>3
    <2>9. QED
      BY <2>6, <2>7, <2>8 DEF Account!TierAsBought
  <1>2. QED
    BY <1>1, BillingInvariant, PTL

(* ------------------------ outcomes and settlement ---------------------- *)

(* Only what Gamma shows as closed is recorded, and never a stuck event.   *)
ResultsInv ==
    /\ Results!TypeOK
    /\ \A e \in closed : fate[e] # "stuck"
    /\ IsFiniteSet(queue) /\ IsFiniteSet(batch)

LEMMA ResultsConstants ==
  /\ EventCount \in Nat /\ SyncBatch \in Nat /\ SettleBatch \in Nat
  /\ IsFiniteSet(Results!Events) /\ IsFiniteSet(Results!Events \X Tiers)
  /\ \A S : Results!Cardinality(S) = Cardinality(S)
  <1>1. /\ EventCount \in Nat /\ SyncBatch \in Nat /\ SettleBatch \in Nat
        /\ Results!IsFiniteSet(Tiers)
    BY PlatformAssumption DEF Results!SettlementAssumption
  <1>2. IsFiniteSet(Tiers)
    BY <1>1 DEF Results!IsFiniteSet, IsFiniteSet
  <1>3. IsFiniteSet(Results!Events)
    BY <1>1, FS_Interval DEF Results!Events
  <1>4. IsFiniteSet(Results!Events \X Tiers)
    BY <1>2, <1>3, FS_Product
  <1>5. \A S : Results!Cardinality(S) = Cardinality(S)
    BY DEF Results!Cardinality, Cardinality
  <1>6. QED
    BY <1>1, <1>3, <1>4, <1>5

(* A LIMIT is kept.                                                        *)
LEMMA LimitKept ==
  ASSUME NEW rows_, IsFiniteSet(rows_), NEW limit \in Nat, NEW s \in Results!Limited(rows_, limit)
  PROVE  s \subseteq rows_ /\ IsFiniteSet(s) /\ Cardinality(s) <= limit
  <1>1. s \subseteq rows_ /\ Cardinality(s) = Results!Min({limit, Cardinality(rows_)})
    BY ResultsConstants DEF Results!Limited
  <1>2. Cardinality(rows_) \in Nat
    BY FS_CardinalityType
  <1> DEFINE n == Cardinality(rows_)
  <1> HIDE DEF n
  <1>3. n \in Nat
    BY <1>2 DEF n
  <1>4. Results!Min({limit, n}) <= limit
    <2>1. \E x \in {limit, n} : \A y \in {limit, n} : x <= y
      BY <1>3
    <2>2. QED
      BY <1>3, <2>1 DEF Results!Min
  <1>5. QED
    BY <1>1, <1>4, FS_Subset DEF n

LEMMA OneRowLess ==
  ASSUME NEW S, IsFiniteSet(S), NEW x, NEW n \in Nat, Cardinality(S) <= n
  PROVE  IsFiniteSet(S \ {x}) /\ Cardinality(S \ {x}) <= n
  <1>1. IsFiniteSet(S \ {x}) /\ Cardinality(S \ {x}) <= Cardinality(S)
    BY FS_Subset
  <1>2. Cardinality(S) \in Nat /\ Cardinality(S \ {x}) \in Nat
    BY <1>1, FS_CardinalityType
  <1>3. QED
    BY <1>1, <1>2

LEMMA ResultsStart ==
  ASSUME Results!Init
  PROVE  ResultsInv
  <1>1. Cardinality({}) = 0 /\ IsFiniteSet({})
    BY FS_EmptySet
  <1>2. Results!TypeOK
    BY <1>1, ResultsConstants DEF Results!Init, Results!TypeOK
  <1>3. QED
    BY <1>1, <1>2 DEF ResultsInv, Results!Init

LEMMA SyncKeeps ==
  ASSUME ResultsInv,
         \/ Results!ComesDue \/ Results!StartSync
         \/ \E e \in Results!Events : Results!Closes(e) \/ Results!SyncRow(e) \/ Results!SyncFails(e)
  PROVE  ResultsInv'
  <1>1. /\ Results!TypeOK /\ \A e \in closed : fate[e] # "stuck"
        /\ IsFiniteSet(queue) /\ IsFiniteSet(batch) /\ Cardinality(queue) <= SyncBatch
    BY ResultsConstants DEF ResultsInv, Results!TypeOK
  <1>2. CASE Results!ComesDue
    <2>1. due' = due + 1 /\ due' \in 0 .. EventCount
          /\ UNCHANGED <<fate, closed, outcome, queue, detected, audits, batch>>
      BY <1>1, <1>2, ResultsConstants DEF Results!ComesDue, Results!TypeOK
    <2>2. closed' \subseteq 1 .. due' /\ queue' \subseteq 1 .. due'
      BY <1>1, <2>1, ResultsConstants DEF Results!TypeOK
    <2>3. Results!TypeOK'
      BY <1>1, <2>1, <2>2 DEF Results!TypeOK
    <2>4. QED
      BY <1>1, <2>1, <2>3 DEF ResultsInv
  <1>3. CASE Results!StartSync
    <2>1. /\ queue' \in Results!Limited(Results!Overdue, SyncBatch)
          /\ UNCHANGED <<fate, due, closed, outcome, detected, audits, batch>>
      BY <1>3 DEF Results!StartSync, Results!Selected
    <2>2. Results!Overdue \subseteq 1 .. due /\ IsFiniteSet(1 .. due)
      BY <1>1, FS_Interval, ResultsConstants DEF Results!Overdue, Results!TypeOK
    <2>3. IsFiniteSet(Results!Overdue)
      BY <2>2, FS_Subset
    <2>4. queue' \subseteq 1 .. due /\ IsFiniteSet(queue') /\ Cardinality(queue') <= SyncBatch
      BY <2>1, <2>2, <2>3, LimitKept, ResultsConstants
    <2>5. Results!TypeOK'
      BY <1>1, <2>1, <2>4, ResultsConstants DEF Results!TypeOK
    <2>6. QED
      BY <1>1, <2>1, <2>4, <2>5 DEF ResultsInv
  <1>4. ASSUME NEW e \in Results!Events, Results!Closes(e)
        PROVE  ResultsInv'
    <2>1. /\ e \in 1 .. due /\ fate[e] # "stuck" /\ closed' = closed \cup {e}
          /\ UNCHANGED <<fate, due, outcome, queue, detected, audits, batch>>
      BY <1>1, <1>4, ResultsConstants DEF Results!Closes, Results!Events, Results!TypeOK
    <2>2. Results!TypeOK'
      BY <1>1, <2>1 DEF Results!TypeOK
    <2>3. QED
      BY <1>1, <2>1, <2>2 DEF ResultsInv
  <1>5. ASSUME NEW e \in Results!Events, Results!SyncRow(e)
        PROVE  ResultsInv'
    <2>1. /\ queue' = queue \ {e}
          /\ outcome' = IF outcome[e] = Null THEN [outcome EXCEPT ![e] = Results!Parsed(e)] ELSE outcome
          /\ UNCHANGED <<fate, due, closed, detected, audits, batch>>
      BY <1>5 DEF Results!SyncRow
    <2>2. /\ Results!Parsed(e) \in {Null, "winner", "split"}
          /\ Results!Parsed(e) # Null => e \in closed
      BY <1>1 DEF Results!Parsed, Results!TypeOK, Results!Fates
    <2>3. /\ outcome' \in [Results!Events -> {Null, "winner", "split"}]
          /\ \A d \in Results!Events : outcome'[d] # Null => d \in closed
      BY <1>1, <2>1, <2>2 DEF Results!TypeOK
    <2>4. IsFiniteSet(queue') /\ Cardinality(queue') <= SyncBatch
      BY <1>1, <2>1, OneRowLess, ResultsConstants
    <2>5. Results!TypeOK'
      BY <1>1, <2>1, <2>3, <2>4, ResultsConstants DEF Results!TypeOK
    <2>6. QED
      BY <1>1, <2>1, <2>4, <2>5 DEF ResultsInv
  <1>6. ASSUME NEW e \in Results!Events, Results!SyncFails(e)
        PROVE  ResultsInv'
    <2>1. /\ queue' \in {queue \ {e}, {}}
          /\ UNCHANGED <<fate, due, closed, outcome, detected, audits, batch>>
      BY <1>6 DEF Results!SyncFails
    <2>2. IsFiniteSet(queue') /\ Cardinality(queue') <= SyncBatch
      <3>1. CASE queue' = queue \ {e}
        BY <1>1, <3>1, OneRowLess, ResultsConstants
      <3>2. CASE queue' = {}
        BY <3>2, FS_EmptySet, ResultsConstants
      <3>3. QED
        BY <2>1, <3>1, <3>2
    <2>3. Results!TypeOK'
      BY <1>1, <2>1, <2>2, ResultsConstants DEF Results!TypeOK
    <2>4. QED
      BY <1>1, <2>1, <2>2, <2>3 DEF ResultsInv
  <1>7. QED
    BY <1>2, <1>3, <1>4, <1>5, <1>6

LEMMA SettlementKeeps ==
  ASSUME ResultsInv,
         \/ Results!StartSettling \/ Results!TrackerFails
         \/ \E found : Results!Scan(found)
         \/ \E a \in Results!Events \X Tiers : Results!InsertDetection(a) \/ Results!SettleRow(a)
  PROVE  ResultsInv'
  <1>1. /\ Results!TypeOK /\ \A e \in closed : fate[e] # "stuck"
        /\ IsFiniteSet(queue) /\ IsFiniteSet(batch) /\ Cardinality(batch) <= SettleBatch
        /\ UNCHANGED <<fate, due, closed, outcome, queue>>
    BY ResultsConstants
    DEF ResultsInv, Results!TypeOK, Results!StartSettling, Results!TrackerFails, Results!Scan,
        Results!InsertDetection, Results!SettleRow
  <1>2. /\ detected' \subseteq Results!Events \X Tiers
        /\ audits' \in [Results!Events \X Tiers -> {"none", "open", "settled"}]
    <2>1. /\ detected \subseteq Results!Events \X Tiers
          /\ audits \in [Results!Events \X Tiers -> {"none", "open", "settled"}]
      BY <1>1 DEF Results!TypeOK
    <2>2. CASE Results!StartSettling \/ Results!TrackerFails
      BY <2>1, <2>2 DEF Results!StartSettling, Results!TrackerFails
    <2>3. ASSUME NEW found, Results!Scan(found)
          PROVE  detected' \subseteq Results!Events \X Tiers /\ audits' = audits
      BY <2>3 DEF Results!Scan
    <2>4. ASSUME NEW a \in Results!Events \X Tiers, Results!InsertDetection(a)
          PROVE  /\ detected' \subseteq Results!Events \X Tiers
                 /\ audits' \in [Results!Events \X Tiers -> {"none", "open", "settled"}]
      BY <2>1, <2>4 DEF Results!InsertDetection
    <2>5. ASSUME NEW a \in Results!Events \X Tiers, Results!SettleRow(a)
          PROVE  /\ detected' = detected
                 /\ audits' \in [Results!Events \X Tiers -> {"none", "open", "settled"}]
      BY <2>1, <2>5 DEF Results!SettleRow
    <2>6. QED
      BY <2>1, <2>2, <2>3, <2>4, <2>5
  <1>3. /\ batch' \subseteq Results!Events \X Tiers
        /\ IsFiniteSet(batch') /\ Cardinality(batch') <= SettleBatch
    <2>1. batch \subseteq Results!Events \X Tiers
      BY <1>1 DEF Results!TypeOK
    <2>2. CASE Results!StartSettling
      <3>1. IsFiniteSet(Results!Settleable) /\ Results!Settleable \subseteq Results!Events \X Tiers
        BY ResultsConstants, FS_Subset DEF Results!Settleable
      <3>2. batch' \in Results!Limited(Results!Settleable, SettleBatch)
        BY <2>2 DEF Results!StartSettling
      <3>3. QED
        BY <3>1, <3>2, LimitKept, ResultsConstants
    <2>3. ASSUME NEW a, batch' = batch \ {a}
          PROVE  <1>3
      BY <1>1, <2>1, <2>3, OneRowLess, ResultsConstants
    <2>4. CASE batch' = {}
      BY <2>4, FS_EmptySet, ResultsConstants
    <2>5. CASE batch' = batch
      BY <1>1, <2>1, <2>5
    <2>6. QED
      BY <2>2, <2>3, <2>4, <2>5
      DEF Results!TrackerFails, Results!Scan, Results!InsertDetection, Results!SettleRow
  <1>4. Results!TypeOK'
    BY <1>1, <1>2, <1>3, ResultsConstants DEF Results!TypeOK
  <1>5. QED
    BY <1>1, <1>3, <1>4 DEF ResultsInv

LEMMA ResultsInvariant == Spec => []ResultsInv
  <1>1. Init => ResultsInv
    BY ResultsStart DEF Init
  <1>2. ResultsInv /\ [Next]_vars => ResultsInv'
    <2>1. SUFFICES ASSUME ResultsInv, [Next]_vars
                   PROVE  ResultsInv'
      OBVIOUS
    <2>2. Results!Next \/ UNCHANGED settlementVars
      BY <2>1 DEF Next, InWeb, InBackend, vars, backVars
    <2>3. CASE Results!Next
      BY <2>1, <2>3, SyncKeeps, SettlementKeeps DEF Results!Next
    <2>4. CASE UNCHANGED settlementVars
      BY <2>1, <2>4 DEF settlementVars, ResultsInv, Results!TypeOK
    <2>5. QED
      BY <2>2, <2>3, <2>4
  <1>3. QED
    BY <1>1, <1>2, PTL DEF Spec

(* ------------------------ types behind the web app --------------------- *)

LEMMA EngineTypes ==
  ASSUME EngineInv
  PROVE  Engine!TypeOK
  <1>1. /\ MarketTypes /\ trades \in Seq(Engine!TradeType) /\ Alternates /\ OneOpen
        /\ Len(trades) \in Nat /\ DOMAIN trades = 1 .. Len(trades)
    BY TradesShape DEF EngineInv
  <1>2. position \in Engine!Entries \cup {Null}
    <2>1. CASE Len(trades) % 2 = 1
      <3>1. position = Len(trades) /\ Len(trades) \in DOMAIN trades
        BY <1>1, <2>1 DEF OneOpen
      <3>2. QED
        BY <1>1, <2>1, <3>1 DEF Alternates, Engine!Entries
    <2>2. CASE Len(trades) % 2 # 1
      BY <1>1, <2>2 DEF OneOpen
    <2>3. QED
      BY <2>1, <2>2
  <1>3. QED
    BY <1>1, <1>2 DEF MarketTypes, Engine!TypeOK

LEMMA LimiterTypes ==
  ASSUME LimiterInv
  PROVE  Limiter!TypeOK
  <1>1. ASSUME NEW b \in Limiter!Buckets
        PROVE  /\ bucket[b] # Null => bucket[b] \in [tokens : 0 .. (Limit[b] - 1), left : 1 .. Window[b]]
               /\ granted[b] \subseteq [age : 0 .. (Window[b] - 1), nth : Nat \ {0}]
               /\ promised[b] \subseteq 0 .. Window[b]
    <2>1. BucketOK(b) /\ PromisedOK(b) /\ Window[b] \in Nat \ {0}
      BY LimiterConstants DEF LimiterInv
    <2>2. bucket[b] # Null => bucket[b].left \in 1 .. Window[b]
      BY <2>1 DEF BucketOK
    <2>3. promised[b] \subseteq 0 .. Window[b]
      BY <2>1, <2>2 DEF PromisedOK
    <2>4. QED
      BY <2>1, <2>3 DEF BucketOK
  <1>2. refused \subseteq Limiter!Buckets /\ waiting \in [Limiter!Buckets -> 0 .. MaxWaiting]
    <2>1. /\ refused \subseteq Limiter!Buckets /\ waiting \in [Limiter!Buckets -> Nat]
          /\ waiting["rps"] + waiting["rpm"] <= MaxWaiting /\ MaxWaiting \in Nat
      BY LimiterConstants DEF LimiterInv, LimiterShape
    <2>2. Limiter!Buckets = {"rps", "rpm"}
      BY DEF Limiter!Buckets
    <2>3. waiting["rps"] \in 0 .. MaxWaiting /\ waiting["rpm"] \in 0 .. MaxWaiting
      BY <2>1, <2>2
    <2>4. QED
      BY <2>1, <2>2, <2>3
  <1>3. QED
    BY <1>1, <1>2, Zenon DEF Limiter!TypeOK
=============================================================================
