----------------------------- MODULE FeedProofs -----------------------------
(***************************************************************************)
(* Proofs about module PolymarketFeed, for every value of its constants:   *)
(* its types, the freshness of a subscription, the accounting of rows, the *)
(* graceful stop, and the two bounds on how late a change is recorded.     *)
(***************************************************************************)
EXTENDS PolymarketFeed, FiniteSetTheorems, TLAPS

-----------------------------------------------------------------------------
(* The inductive invariants.                                               *)

(* Every row handed out is in exactly one of the five places.              *)
RowInv ==
    /\ buffer["snapshot"] \cup buffer["trade"] \cup inflight \cup stored \cup lost
         = 1 .. emitted
    /\ buffer["snapshot"] \cap buffer["trade"] = {}
    /\ \A k \in Kinds : buffer[k] \cap (inflight \cup stored \cup lost) = {}
    /\ inflight \cap (stored \cup lost) = {}
    /\ stored \cap lost = {}

(* The final flush has emptied the buffers it has gone past.               *)
StopInv ==
    /\ phase = "stopping" =>
         /\ loop # "sleep"
         /\ loop = "trade" => buffer["snapshot"] = {}
         /\ \A k \in Kinds : loop = k /\ inflight # {} => buffer[k] = {}
    /\ phase = "stopped" =>
         loop = "sleep" /\ inflight = {} /\ \A k \in Kinds : buffer[k] = {}

(* Nothing has been written or held back before the feed starts, and the   *)
(* loops are never late.                                                   *)
ClockInv ==
    /\ conn = "waiting" =>
         /\ \A m \in Markets : dirty[m] = Clean
         /\ \A k \in Kinds : buffer[k] = {}
         /\ phase = "running" => loop = "sleep" /\ inflight = {}
    /\ Started => now <= passiveAt /\ passiveAt <= now + Passive
    /\ Started /\ loop = "sleep" => now <= checkAt /\ checkAt <= now + 1
    /\ loop = "sleep" => inflight = {}
    /\ inflight # {} => now <= deadline /\ deadline <= now + InsertTime

(* A held-back change was held back by a row less than a throttle older,   *)
(* and the next passive pass finds it unless it falls under that throttle. *)
HeldBack(m) ==
    /\ lastEmit[m] <= dirty[m] /\ dirty[m] <= now
    /\ book[m] = "quoted" =>
         \/ passiveAt < lastEmit[m] + Throttle + Passive
         \/ passiveAt <= dirty[m] + Passive
StaleInv == \A m \in Markets : lastEmit[m] <= now /\ (dirty[m] # Clean => HeldBack(m))

(* How long the oldest row of each buffer has waited, by where the flush   *)
(* loop is.                                                                *)
NextTimed == checkAt + FlushEvery - 1 - flushTick
WaitInv ==
    Started =>
      /\ loop = "sleep" =>
           /\ buffer["snapshot"] # {} =>
                NextTimed <= since["snapshot"] + FlushEvery + 2 * InsertTime
           /\ buffer["trade"] # {} =>
                NextTimed <= since["trade"] + FlushEvery + InsertTime
      /\ loop = "snapshot" /\ inflight = {} =>
           /\ buffer["snapshot"] # {} =>
                now <= since["snapshot"] + FlushEvery + 2 * InsertTime
           /\ buffer["trade"] # {} =>
                now <= since["trade"] + FlushEvery + InsertTime
      /\ loop = "snapshot" /\ inflight # {} =>
           /\ buffer["snapshot"] # {} => deadline <= since["snapshot"] + InsertTime
           /\ buffer["trade"] # {} =>
                deadline <= since["trade"] + FlushEvery + 2 * InsertTime
      /\ loop = "trade" /\ inflight = {} =>
           /\ buffer["snapshot"] # {} => now <= since["snapshot"] + InsertTime
           /\ buffer["trade"] # {} =>
                now <= since["trade"] + FlushEvery + 2 * InsertTime
      /\ loop = "trade" /\ inflight # {} =>
           /\ buffer["snapshot"] # {} =>
                deadline <= since["snapshot"] + 2 * InsertTime
           /\ buffer["trade"] # {} => deadline <= since["trade"] + InsertTime

-----------------------------------------------------------------------------
(* Types.                                                                  *)

(* A row handed out is a fresh number of the range, in one buffer.         *)
LEMMA AppendTypes ==
    ASSUME TypeOK, NEW k \in Kinds, NEW n \in Nat, Append(k, n)
    PROVE  /\ emitted' \in 0 .. MaxRows
           /\ buffer' \in [Kinds -> SUBSET Rows]
           /\ since' \in [Kinds -> 0 .. MaxTime]
  BY FeedAssumption DEF TypeOK, Append, Kinds, Rows

(* The number of rows a passive pass writes is a natural number.           *)
LEMMA PassCount ==
    ASSUME NEW S \in SUBSET Markets
    PROVE  Cardinality(S) \in Nat
  BY FeedAssumption, FS_Subset, FS_CardinalityType

(* Every step keeps the types.                                             *)
LEMMA TypeStep == TypeOK /\ [Next]_vars => TypeOK'
<1> SUFFICES ASSUME TypeOK, [Next]_vars PROVE TypeOK'
  OBVIOUS
<1> USE FeedAssumption
<1>1. CASE UNCHANGED vars
  BY <1>1 DEF TypeOK, vars, connVars, bookVars, rowVars, flushVars
<1>2. ASSUME NEW m \in Markets, Discover(m) PROVE TypeOK'
  BY <1>2 DEF Discover, TypeOK, bookVars, rowVars, flushVars
<1>3. ASSUME NEW m \in Markets, BookEvent(m) PROVE TypeOK'
  <2>1. Append("snapshot", 1)
    BY <1>3 DEF BookEvent
  <2>2. /\ emitted' \in 0 .. MaxRows
        /\ buffer' \in [Kinds -> SUBSET Rows]
        /\ since' \in [Kinds -> 0 .. MaxTime]
    BY <2>1, AppendTypes DEF Kinds
  <2> QED
    BY <1>3, <2>2 DEF BookEvent, Stamp, TypeOK, Clean, connVars, flushVars
<1>4. ASSUME NEW m \in Markets, PriceChange(m) PROVE TypeOK'
  <2>1. /\ emitted' \in 0 .. MaxRows
        /\ buffer' \in [Kinds -> SUBSET Rows]
        /\ since' \in [Kinds -> 0 .. MaxTime]
    <3>1. CASE Append("snapshot", 1)
      BY <3>1, AppendTypes DEF Kinds
    <3>2. CASE UNCHANGED rowVars
      BY <3>2 DEF rowVars, TypeOK
    <3> QED
      BY <1>4, <3>1, <3>2 DEF PriceChange
  <2> QED
    BY <1>4, <2>1 DEF PriceChange, Stamp, TypeOK, Clean, connVars, flushVars
<1>5. ASSUME NEW m \in Markets, Trade(m) PROVE TypeOK'
  <2>1. Append("trade", 1)
    BY <1>5 DEF Trade
  <2>2. /\ emitted' \in 0 .. MaxRows
        /\ buffer' \in [Kinds -> SUBSET Rows]
        /\ since' \in [Kinds -> 0 .. MaxTime]
    BY <2>1, AppendTypes DEF Kinds
  <2> QED
    BY <1>5, <2>2 DEF Trade, TypeOK, connVars, bookVars, flushVars
<1>6. CASE InitialTokens
  BY <1>6 DEF InitialTokens, Reload, TypeOK, rowVars
<1>7. CASE Refresh
  BY <1>7 DEF Refresh, Reload, TypeOK, rowVars, flushVars
<1>8. CASE Connect \/ SubscriptionSent \/ ClosedByUs \/ BackoffEnds \/ Disconnect
  BY <1>8 DEF Connect, SubscriptionSent, ClosedByUs, BackoffEnds, Disconnect, GoTo,
              TypeOK, bookVars, rowVars, flushVars
<1>9. CASE PassiveSnapshots
  <2> DEFINE written == {m \in Markets : book[m] = "quoted" /\ Due(m)}
  <2>1. Append("snapshot", Cardinality(written))
    BY <1>9 DEF PassiveSnapshots
  <2>2. Cardinality(written) \in Nat
    BY PassCount
  <2>3. /\ emitted' \in 0 .. MaxRows
        /\ buffer' \in [Kinds -> SUBSET Rows]
        /\ since' \in [Kinds -> 0 .. MaxTime]
    BY <2>1, <2>2, AppendTypes DEF Kinds
  <2> QED
    BY <1>9, <2>3 DEF PassiveSnapshots, Stamp, TypeOK, Clean, connVars, flushVars
<1>10. CASE FlushCheck
  BY <1>10 DEF FlushCheck, TimedFlush, TypeOK, Kinds, connVars, bookVars, rowVars, Started
<1>11. ASSUME NEW k \in Kinds, BeginInsert(k) PROVE TypeOK'
  BY <1>11 DEF BeginInsert, AfterSwap, TypeOK, connVars, bookVars
<1>12. ASSUME NEW k \in Kinds, NothingToInsert(k) PROVE TypeOK'
  BY <1>12 DEF NothingToInsert, Leave, TypeOK, Kinds, connVars, bookVars, rowVars
<1>13. ASSUME NEW k \in Kinds, EndInsert(k) PROVE TypeOK'
  BY <1>13 DEF EndInsert, Leave, TypeOK, Kinds, connVars, bookVars, rowVars
<1>14. CASE Stop
  BY <1>14 DEF Stop, FinalFlush, TypeOK, Kinds, bookVars, rowVars
<1>15. CASE Tick
  BY <1>15 DEF Tick, TypeOK, connVars, bookVars, rowVars, flushVars
<1> QED
  BY <1>1, <1>2, <1>3, <1>4, <1>5, <1>6, <1>7, <1>8, <1>9, <1>10, <1>11, <1>12, <1>13,
     <1>14, <1>15 DEF Next, Connection, Flush

(* The feed is well typed: the throttle's clock, the timed-flush counter   *)
(* and the rows stay in their ranges, for every market set and timing.     *)
THEOREM FeedTypes == Spec => []TypeOK
<1>1. Init => TypeOK
  BY FeedAssumption DEF Init, TypeOK, Kinds, Clean
<1> QED
  BY <1>1, TypeStep, PTL DEF Spec

-----------------------------------------------------------------------------
(* The subscription.                                                       *)

(* A connection that stays open is subscribed to the current token set,    *)
(* wherever in connecting and subscribing a refresh falls.                 *)
THEOREM SubscriptionsFresh == Spec => []SubscriptionFresh
<1>1. Init => SubscriptionFresh
  BY DEF Init, SubscriptionFresh
<1>2. SubscriptionFresh /\ [Next]_vars => SubscriptionFresh'
  <2> SUFFICES ASSUME SubscriptionFresh, [Next]_vars PROVE SubscriptionFresh'
    OBVIOUS
  <2>1. CASE UNCHANGED <<conn, subscribed, tokens>>
    BY <2>1 DEF SubscriptionFresh
  <2>2. CASE InitialTokens
    BY <2>2 DEF InitialTokens, SubscriptionFresh
  <2>3. CASE Refresh
    BY <2>3 DEF Refresh, Reload, Closable, SubscriptionFresh
  <2>4. CASE Connect \/ SubscriptionSent \/ ClosedByUs \/ BackoffEnds \/ Disconnect
    BY <2>4 DEF Connect, SubscriptionSent, ClosedByUs, BackoffEnds, Disconnect, GoTo,
                SubscriptionFresh
  <2>5. CASE Stop
    BY <2>5 DEF Stop, SubscriptionFresh
  <2> QED
    BY <2>1, <2>2, <2>3, <2>4, <2>5
    DEF Next, Connection, Flush, Discover, BookEvent, PriceChange, Trade,
        PassiveSnapshots, FlushCheck, BeginInsert, NothingToInsert, EndInsert, Tick,
        connVars, vars
<1> QED
  BY <1>1, <1>2, PTL DEF Spec

-----------------------------------------------------------------------------
(* The rows.                                                               *)

(* Rows appended are new to every place.                                   *)
LEMMA AppendRows ==
    ASSUME TypeOK, RowInv, NEW k \in Kinds, NEW n \in Nat, Append(k, n),
           UNCHANGED <<inflight, stored, lost>>
    PROVE  RowInv'
<1> DEFINE new == (emitted + 1) .. (emitted + n)
<1>1. new \cap (1 .. emitted) = {}
  BY DEF TypeOK
<1>2. (1 .. emitted) \cup new = 1 .. emitted'
  BY DEF TypeOK, Append
<1>3. /\ buffer'[k] = buffer[k] \cup new
      /\ \A j \in Kinds : j # k => buffer'[j] = buffer[j]
      /\ \A j \in Kinds : buffer[j] \subseteq 1 .. emitted
      /\ inflight \cup stored \cup lost \subseteq 1 .. emitted
  BY DEF TypeOK, RowInv, Append, Kinds
<1> HIDE DEF new
<1>4. /\ buffer'["snapshot"] \cup buffer'["trade"]
           = buffer["snapshot"] \cup buffer["trade"] \cup new
      /\ buffer'["snapshot"] \cap buffer'["trade"] = {}
  BY <1>1, <1>3 DEF Kinds, RowInv
<1>5. \A j \in Kinds : buffer'[j] \cap (inflight \cup stored \cup lost) = {}
  BY <1>1, <1>3 DEF Kinds, RowInv
<1> QED
  BY <1>2, <1>4, <1>5 DEF RowInv

(* Every step keeps each row in one place.                                 *)
LEMMA RowStep == TypeOK /\ RowInv /\ [Next]_vars => RowInv'
<1> SUFFICES ASSUME TypeOK, RowInv, [Next]_vars PROVE RowInv'
  OBVIOUS
<1>1. CASE UNCHANGED <<emitted, buffer, inflight, stored, lost>>
  BY <1>1 DEF RowInv
<1>2. ASSUME NEW k \in Kinds, NEW n \in Nat, Append(k, n),
             UNCHANGED <<inflight, stored, lost>>
      PROVE  RowInv'
  BY <1>2, AppendRows
<1>3. ASSUME NEW m \in Markets, BookEvent(m) \/ PriceChange(m) \/ Trade(m)
      PROVE  RowInv'
  BY <1>1, <1>2, <1>3 DEF BookEvent, PriceChange, Trade, Kinds, flushVars, rowVars
<1>4. CASE PassiveSnapshots
  <2> DEFINE written == {m \in Markets : book[m] = "quoted" /\ Due(m)}
  <2>1. Cardinality(written) \in Nat
    BY PassCount
  <2>2. Append("snapshot", Cardinality(written)) /\ UNCHANGED <<inflight, stored, lost>>
    BY <1>4 DEF PassiveSnapshots, flushVars
  <2> QED
    BY <2>1, <2>2, <1>2 DEF Kinds
<1>5. ASSUME NEW k \in Kinds, BeginInsert(k) PROVE RowInv'
  BY <1>5 DEF BeginInsert, AfterSwap, RowInv, TypeOK, Kinds
<1>6. ASSUME NEW k \in Kinds, EndInsert(k) PROVE RowInv'
  BY <1>6 DEF EndInsert, RowInv, rowVars
<1>7. CASE Stop
  BY <1>7 DEF Stop, RowInv, rowVars
<1> QED
  BY <1>1, <1>3, <1>4, <1>5, <1>6, <1>7
  DEF Next, Connection, Flush, Discover, InitialTokens, Refresh, Connect,
      SubscriptionSent, ClosedByUs, BackoffEnds, Disconnect, GoTo, FlushCheck,
      NothingToInsert, Tick, rowVars, flushVars, vars

(* Each row is always in one place.                                        *)
LEMMA RowInvariant == Spec => [](TypeOK /\ RowInv)
<1>1. Init => TypeOK /\ RowInv
  BY FeedAssumption DEF Init, TypeOK, RowInv, Kinds, Clean
<1> QED
  BY <1>1, TypeStep, RowStep, PTL DEF Spec

(* No row vanishes between a swap and the end of its insert and none is    *)
(* inserted twice, however events, flushes, failed inserts and the stop    *)
(* interleave.                                                             *)
THEOREM NoRowVanishes == Spec => []RowsAccountedFor
<1>1. TypeOK /\ RowInv => RowsAccountedFor
  <2> SUFFICES ASSUME TypeOK, RowInv, NEW r \in 1 .. emitted
               PROVE  \E p \in DOMAIN Place : \A q \in DOMAIN Place :
                          r \in Place[q] <=> q = p
    BY DEF RowsAccountedFor
  <2> DEFINE names == {"snapshot", "trade", "inflight", "stored", "lost"}
  <2>1. DOMAIN Place = names
    BY DEF Place
  <2>2. /\ Place["snapshot"] = buffer["snapshot"] /\ Place["trade"] = buffer["trade"]
        /\ Place["inflight"] = inflight
        /\ Place["stored"] = stored /\ Place["lost"] = lost
    BY DEF Place
  <2>3. PICK p \in names : r \in Place[p]
    BY <2>2 DEF RowInv
  <2>4. \A q \in names : r \in Place[q] => q = p
    BY <2>2, <2>3 DEF RowInv, Kinds
  <2> QED
    BY <2>1, <2>3, <2>4
<1> QED
  BY <1>1, RowInvariant, PTL

-----------------------------------------------------------------------------
(* The graceful stop.                                                      *)

(* Every step keeps what a stop under way has left to do.                  *)
LEMMA StopStep == TypeOK /\ StopInv /\ [Next]_vars => StopInv'
<1> SUFFICES ASSUME TypeOK, StopInv, [Next]_vars PROVE StopInv'
  OBVIOUS
<1>1. CASE UNCHANGED <<phase, loop, inflight, buffer>>
  BY <1>1 DEF StopInv
<1>2. CASE phase = "running" /\ phase' = "running"
  BY <1>2 DEF StopInv
<1>3. CASE Stop
  BY <1>3 DEF Stop, FinalFlush, StopInv, Kinds
<1>4. ASSUME NEW k \in Kinds, BeginInsert(k), phase # "running" PROVE StopInv'
  BY <1>4 DEF BeginInsert, AfterSwap, StopInv, TypeOK, Kinds
<1>5. ASSUME NEW k \in Kinds, NothingToInsert(k), phase # "running" PROVE StopInv'
  BY <1>5 DEF NothingToInsert, Leave, StopInv, TypeOK, Kinds, rowVars
<1>6. ASSUME NEW k \in Kinds, EndInsert(k), phase # "running" PROVE StopInv'
  BY <1>6 DEF EndInsert, Leave, StopInv, TypeOK, Kinds, rowVars
<1>7. ASSUME NEW k \in Kinds, BeginInsert(k) \/ NothingToInsert(k) \/ EndInsert(k),
             phase = "running"
      PROVE  phase' = "running"
  BY <1>7 DEF BeginInsert, NothingToInsert, EndInsert, Leave
<1> QED
  BY <1>1, <1>2, <1>3, <1>4, <1>5, <1>6, <1>7
  DEF Next, Connection, Flush, Discover, InitialTokens, Refresh, Connect,
      SubscriptionSent, ClosedByUs, BackoffEnds, Disconnect, GoTo, BookEvent, PriceChange,
      Trade, Delivered, PassiveSnapshots, FlushCheck, Tick, Started, rowVars, flushVars,
      vars

(* Whatever insert the stop cuts, the final flush empties both buffers.    *)
THEOREM StopLeavesNothing == Spec => []StopFlushesAll
<1>1. Init => TypeOK /\ StopInv
  BY FeedAssumption DEF Init, TypeOK, StopInv, Kinds, Clean
<1>2. StopInv => StopFlushesAll
  BY DEF StopInv, StopFlushesAll
<1> QED
  BY <1>1, <1>2, TypeStep, StopStep, PTL DEF Spec

-----------------------------------------------------------------------------
(* Timing.                                                                 *)

(* What a row appended does to one buffer.                                 *)
LEMMA AppendTimes ==
    ASSUME TypeOK, NEW k \in Kinds, NEW n \in Nat, Append(k, n)
    PROVE  /\ \A j \in Kinds : j # k => buffer'[j] = buffer[j] /\ since'[j] = since[j]
           /\ buffer[k] # {} => since'[k] = since[k]
           /\ buffer[k] = {} => since'[k] = now
  BY DEF TypeOK, Append, Kinds

(* Every step keeps the clocks of the loops in order.                      *)
LEMMA ClockStep == TypeOK /\ ClockInv /\ [Next]_vars => ClockInv'
<1> SUFFICES ASSUME TypeOK, ClockInv, [Next]_vars PROVE ClockInv'
  OBVIOUS
<1> USE FeedAssumption
<1>1. CASE UNCHANGED <<now, conn, dirty, buffer, passiveAt, loop, inflight, deadline,
                       checkAt, phase>>
  BY <1>1 DEF ClockInv, Started
<1>2. ASSUME NEW m \in Markets, BookEvent(m) \/ PriceChange(m) \/ Trade(m)
      PROVE  ClockInv'
  BY <1>2 DEF BookEvent, PriceChange, Trade, Delivered, ClockInv, Started, connVars,
              flushVars
<1>3. CASE InitialTokens
  BY <1>3 DEF InitialTokens, ClockInv, Started, TypeOK, rowVars
<1>4. CASE Refresh
  BY <1>4 DEF Refresh, ClockInv, Started, rowVars, flushVars, bookVars
<1>5. CASE Connect \/ SubscriptionSent \/ ClosedByUs \/ BackoffEnds \/ Disconnect
  BY <1>5 DEF Connect, SubscriptionSent, ClosedByUs, BackoffEnds, Disconnect, GoTo,
              ClockInv, Started, rowVars, flushVars, bookVars
<1>6. CASE PassiveSnapshots
  BY <1>6 DEF PassiveSnapshots, ClockInv, Started, TypeOK, connVars, flushVars
<1>7. CASE FlushCheck
  BY <1>7 DEF FlushCheck, ClockInv, Started, TypeOK, connVars, bookVars, rowVars
<1>8. ASSUME NEW k \in Kinds, BeginInsert(k) PROVE ClockInv'
  BY <1>8 DEF BeginInsert, ClockInv, Started, TypeOK, Kinds, connVars, bookVars
<1>9. ASSUME NEW k \in Kinds, NothingToInsert(k) \/ EndInsert(k) PROVE ClockInv'
  <2>1. loop # "sleep" /\ inflight' = {} /\ UNCHANGED <<now, conn, passiveAt, dirty, buffer>>
    BY <1>9 DEF NothingToInsert, EndInsert, Kinds, connVars, bookVars, rowVars
  <2>2. phase' = "running" => phase = "running"
    BY <1>9 DEF NothingToInsert, EndInsert, Leave
  <2>3. loop' = "sleep" => checkAt' = now + 1
    BY <1>9 DEF NothingToInsert, EndInsert, Leave
  <2> QED
    BY <2>1, <2>2, <2>3 DEF ClockInv, Started, TypeOK
<1>10. CASE Stop
  BY <1>10 DEF Stop, FinalFlush, ClockInv, Started, rowVars, bookVars
<1>11. CASE Tick
  BY <1>11 DEF Tick, ClockInv, Started, TypeOK, connVars, bookVars, rowVars, flushVars
<1> QED
  BY <1>1, <1>2, <1>3, <1>4, <1>5, <1>6, <1>7, <1>8, <1>9, <1>10, <1>11
  DEF Next, Connection, Flush, Discover, connVars, bookVars, rowVars, flushVars, vars

(* A held-back change is due at the next pass but one at the latest.       *)
LEMMA StaleStep == TypeOK /\ ClockInv /\ StaleInv /\ [Next]_vars => StaleInv'
<1> SUFFICES ASSUME TypeOK, ClockInv, StaleInv, [Next]_vars, NEW m \in Markets
             PROVE  (lastEmit[m] <= now /\ (dirty[m] # Clean => HeldBack(m)))'
  BY DEF StaleInv
<1> DEFINE G == lastEmit[m] <= now /\ (dirty[m] # Clean => HeldBack(m))
<1> USE FeedAssumption
<1>1. CASE UNCHANGED <<now, lastEmit, dirty, book, passiveAt>>
  BY <1>1 DEF StaleInv, HeldBack
<1>2. ASSUME NEW x \in Markets, BookEvent(x) PROVE G'
  BY <1>2 DEF BookEvent, Stamp, StaleInv, HeldBack, TypeOK
<1>3. ASSUME NEW x \in Markets, PriceChange(x) PROVE G'
  <2>1. CASE x # m
    BY <1>3, <2>1 DEF PriceChange, Stamp, StaleInv, HeldBack, TypeOK
  <2>2. CASE x = m /\ Due(m)
    BY <1>3, <2>2 DEF PriceChange, Stamp, TypeOK
  <2>3. CASE x = m /\ ~Due(m)
    <3>1. /\ lastEmit'[m] = lastEmit[m] /\ now - lastEmit[m] < Throttle
          /\ dirty'[m] = IF dirty[m] = Clean THEN now ELSE dirty[m]
          /\ now' = now /\ passiveAt' = passiveAt
      BY <1>3, <2>3 DEF PriceChange, Stamp, Due, TypeOK
    <3>2. passiveAt <= now + Passive
      BY <1>3 DEF PriceChange, Delivered, ClockInv
    <3> QED
      BY <3>1, <3>2 DEF HeldBack, StaleInv, TypeOK
  <2> QED
    BY <2>1, <2>2, <2>3
<1>4. CASE InitialTokens
  BY <1>4 DEF InitialTokens, ClockInv, StaleInv, TypeOK
<1>5. CASE Refresh
  BY <1>5 DEF Refresh, Reload, StaleInv, HeldBack, TypeOK
<1>6. CASE PassiveSnapshots
  <2>1. now = passiveAt /\ passiveAt' = now + Passive /\ UNCHANGED <<now, book>>
    BY <1>6 DEF PassiveSnapshots
  <2>2. CASE book[m] = "quoted" /\ Due(m)
    <3>1. dirty'[m] = Clean /\ lastEmit'[m] = now
      BY <1>6, <2>2 DEF PassiveSnapshots, Stamp, TypeOK
    <3> QED
      BY <2>1, <3>1 DEF TypeOK
  <2>3. CASE ~(book[m] = "quoted" /\ Due(m))
    <3>1. dirty'[m] = dirty[m] /\ lastEmit'[m] = lastEmit[m]
      BY <1>6, <2>3 DEF PassiveSnapshots, Stamp, TypeOK
    <3> QED
      BY <2>1, <2>3, <3>1 DEF StaleInv, HeldBack, Due, TypeOK
  <2> QED
    BY <2>2, <2>3
<1>7. CASE Tick
  BY <1>7 DEF Tick, StaleInv, HeldBack, TypeOK, bookVars
<1> QED
  BY <1>1, <1>2, <1>3, <1>4, <1>5, <1>6, <1>7
  DEF Next, Connection, Flush, Discover, Connect, SubscriptionSent, ClosedByUs,
      BackoffEnds, Disconnect, GoTo, Trade, FlushCheck, BeginInsert, NothingToInsert,
      EndInsert, Stop, bookVars, vars

(* Every step keeps the bound on the wait of the oldest buffered row.      *)
LEMMA WaitStep == TypeOK /\ ClockInv /\ WaitInv /\ [Next]_vars => WaitInv'
<1> SUFFICES ASSUME TypeOK, ClockInv, WaitInv, [Next]_vars, Started' PROVE WaitInv'
  BY DEF WaitInv
<1> USE FeedAssumption
<1>1. CASE /\ UNCHANGED <<now, buffer, since, loop, inflight, deadline, checkAt, flushTick>>
           /\ Started
  BY <1>1 DEF WaitInv, NextTimed
<1>2. ASSUME NEW k \in Kinds, NEW n \in Nat, Append(k, n), Started,
             UNCHANGED <<now, flushVars>>
      PROVE  WaitInv'
  <2>1. /\ \A j \in Kinds : j # k => buffer'[j] = buffer[j] /\ since'[j] = since[j]
        /\ buffer[k] # {} => since'[k] = since[k]
        /\ buffer[k] = {} => since'[k] = now
    BY <1>2, AppendTimes
  <2>2. UNCHANGED <<now, loop, inflight, deadline, checkAt, flushTick>>
    BY <1>2 DEF flushVars
  <2>3. inflight # {} => deadline <= now + InsertTime
    BY <1>2 DEF ClockInv
  <2>4. loop = "sleep" => checkAt <= now + 1
    BY <1>2 DEF ClockInv
  <2> QED
    BY <1>2, <2>1, <2>2, <2>3, <2>4 DEF WaitInv, NextTimed, TypeOK, Kinds
<1>3. ASSUME NEW m \in Markets, BookEvent(m) \/ PriceChange(m) \/ Trade(m)
      PROVE  WaitInv'
  BY <1>1, <1>2, <1>3
  DEF BookEvent, PriceChange, Trade, Delivered, Kinds, flushVars, rowVars
<1>4. CASE PassiveSnapshots
  <2> DEFINE written == {m \in Markets : book[m] = "quoted" /\ Due(m)}
  <2>1. Cardinality(written) \in Nat
    BY PassCount
  <2>2. Append("snapshot", Cardinality(written)) /\ Started /\ UNCHANGED <<now, flushVars>>
    BY <1>4 DEF PassiveSnapshots
  <2> QED
    BY <2>1, <2>2, <1>2 DEF Kinds
<1>5. CASE InitialTokens
  BY <1>5 DEF InitialTokens, ClockInv, WaitInv, Kinds, rowVars
<1>6. CASE FlushCheck
  BY <1>6 DEF FlushCheck, ClockInv, WaitInv, NextTimed, TypeOK, TimedFlush, Kinds, rowVars
<1>7. ASSUME NEW k \in Kinds, BeginInsert(k) PROVE WaitInv'
  BY <1>7 DEF BeginInsert, AfterSwap, WaitInv, TypeOK, Kinds, Started, connVars
<1>8. ASSUME NEW k \in Kinds, NothingToInsert(k) PROVE WaitInv'
  BY <1>8 DEF NothingToInsert, Leave, WaitInv, NextTimed, TypeOK, Kinds, Started,
              connVars, rowVars
<1>9. ASSUME NEW k \in Kinds, EndInsert(k) PROVE WaitInv'
  BY <1>9 DEF EndInsert, Leave, ClockInv, WaitInv, NextTimed, TypeOK, Kinds, Started,
              connVars, rowVars
<1>10. CASE Stop
  BY <1>10 DEF Stop, Started
<1>11. CASE Tick
  BY <1>11 DEF Tick, WaitInv, NextTimed, TypeOK, Kinds, Started, connVars, rowVars, flushVars
<1> QED
  BY <1>1, <1>3, <1>4, <1>5, <1>6, <1>7, <1>8, <1>9, <1>10, <1>11
  DEF Next, Connection, Flush, Discover, Refresh, Connect, SubscriptionSent, ClosedByUs,
      BackoffEnds, Disconnect, GoTo, Started, connVars, rowVars, flushVars, vars

(* The clocks and both bounds always hold.                                 *)
LEMMA TimingInvariant == Spec => [](TypeOK /\ ClockInv /\ StaleInv /\ WaitInv)
<1>1. Init => TypeOK /\ ClockInv /\ StaleInv /\ WaitInv
  BY FeedAssumption
  DEF Init, TypeOK, ClockInv, StaleInv, WaitInv, Started, Kinds, Clean
<1> QED
  BY <1>1, TypeStep, ClockStep, StaleStep, WaitStep, PTL DEF Spec

(* A change the throttle held back is written within a passive interval    *)
(* and a throttle, whatever the exchange sends and whatever the flush does.*)
THEOREM StalenessIsBounded == Spec => []StalenessBounded
<1>1. TypeOK /\ ClockInv /\ StaleInv => StalenessBounded
  <2> SUFFICES ASSUME TypeOK, ClockInv, StaleInv, NEW m \in Markets,
                      phase = "running", book[m] = "quoted", dirty[m] # Clean
               PROVE  now - dirty[m] <= Passive + Throttle
    BY DEF StalenessBounded
  <2>1. Started
    BY DEF ClockInv, Started
  <2> QED
    BY <2>1, FeedAssumption DEF ClockInv, StaleInv, HeldBack, TypeOK
<1> QED
  BY <1>1, TimingInvariant, PTL

(* A buffered row waits for the flush interval and two inserts at most,    *)
(* whatever mix of timed and early flushes precedes it.                    *)
THEOREM RowWaitIsBounded == Spec => []RowWaitBounded
<1>1. TypeOK /\ ClockInv /\ WaitInv => RowWaitBounded
  <2> SUFFICES ASSUME TypeOK, ClockInv, WaitInv, NEW k \in Kinds,
                      phase = "running", buffer[k] # {}
               PROVE  now - since[k] <= FlushEvery + 2 * InsertTime
    BY DEF RowWaitBounded
  <2>1. Started
    BY DEF ClockInv, Started
  <2>2. CASE loop = "sleep"
    BY <2>1, <2>2, FeedAssumption DEF ClockInv, WaitInv, NextTimed, TypeOK, Kinds
  <2>3. CASE loop # "sleep" /\ inflight = {}
    BY <2>1, <2>3, FeedAssumption DEF WaitInv, TypeOK, Kinds
  <2>4. CASE loop # "sleep" /\ inflight # {}
    BY <2>1, <2>4, FeedAssumption DEF ClockInv, WaitInv, TypeOK, Kinds
  <2> QED
    BY <2>2, <2>3, <2>4
<1> QED
  BY <1>1, TimingInvariant, PTL
=============================================================================
