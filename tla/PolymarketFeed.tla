--------------------------- MODULE PolymarketFeed ---------------------------
(***************************************************************************)
(* The order book feed (collector/polymarket_ws.py): one connection to the *)
(* exchange, subscribed to the tokens discovery marked active; the books   *)
(* it keeps; the rows it emits under a throttle; the buffers that a        *)
(* background task flushes to ClickHouse; and the graceful stop.           *)
(*                                                                         *)
(* A market stands for its two tokens, which the code loads together.  A   *)
(* book is abstracted to whether it holds any level, a row to a number.    *)
(* One unit of time is the flush loop's sleep.                             *)
(***************************************************************************)
EXTENDS Integers, FiniteSets

CONSTANTS
    Markets,
    Throttle,     \* EMIT_THROTTLE_SECONDS
    Passive,      \* PASSIVE_SNAPSHOT_INTERVAL
    FlushEvery,   \* FLUSH_INTERVAL: checks of the flush loop per timed flush
    BatchCap,     \* FLUSH_BATCH_SIZE
    InsertTime,   \* bound: how long one insert takes
    MaxTime,      \* bound: the clock
    MaxRows       \* bound: rows ever emitted

ASSUME FeedAssumption ==
    /\ IsFiniteSet(Markets)
    /\ Throttle \in Nat \ {0} /\ Passive \in Nat \ {0}
    /\ FlushEvery \in Nat \ {0} /\ BatchCap \in Nat \ {0}
    /\ InsertTime \in Nat /\ MaxTime \in Nat /\ MaxRows \in Nat

Kinds == {"snapshot", "trade"}
Rows == 1 .. MaxRows
Clean == MaxTime + 1

VARIABLES
    now,
    active,      \* markets.is_active
    \* the connection
    tokens,      \* self.tokens
    conn,        \* waiting, down, connecting, subscribing, consuming, closing
    subscribed,  \* what this connection's subscription names
    \* the books
    book,        \* book[m]     : none, empty or quoted
    lastEmit,    \* lastEmit[m] : when a row of m was last written
    dirty,       \* dirty[m]    : since when book[m] has held an unwritten change
    passiveAt,   \* when the passive loop wakes
    \* the buffers and the task that flushes them
    emitted,     \* rows so far
    buffer,      \* buffer[k]   : snapshot_buffer, trade_buffer
    since,       \* since[k]    : when the oldest row of buffer[k] was emitted
    loop,        \* sleep, or the kind being flushed
    inflight,    \* rows of the insert under way
    deadline,    \* when that insert ends at the latest
    checkAt,     \* when the flush loop wakes
    flushTick,   \* _flush_tick
    stored,      \* rows in ClickHouse
    lost,        \* rows of an insert that failed or was cut
    phase        \* running, stopping, stopped

connVars  == <<active, tokens, conn, subscribed>>
bookVars  == <<book, lastEmit, dirty>>
rowVars   == <<emitted, buffer, since>>
flushVars == <<loop, inflight, deadline, checkAt, flushTick, stored, lost>>
vars == <<now, connVars, bookVars, passiveAt, rowVars, flushVars, phase>>

Init ==
    /\ now = 0
    /\ active = {} /\ tokens = {} /\ conn = "waiting" /\ subscribed = {}
    /\ book = [m \in Markets |-> "none"]
    /\ lastEmit = [m \in Markets |-> 0 - Throttle]
    /\ dirty = [m \in Markets |-> Clean]
    /\ passiveAt = Passive
    /\ emitted = 0
    /\ buffer = [k \in Kinds |-> {}]
    /\ since = [k \in Kinds |-> 0]
    /\ loop = "sleep" /\ inflight = {} /\ deadline = 0
    /\ checkAt = 1 /\ flushTick = 0
    /\ stored = {} /\ lost = {}
    /\ phase = "running"

Started == conn # "waiting" /\ phase = "running"

-----------------------------------------------------------------------------
(* Discovery, and the tokens the feed subscribes to.                       *)

Discover(m) ==
    /\ active' \in {active \cup {m}, active \ {m}}
    /\ UNCHANGED <<now, tokens, conn, subscribed, bookVars, passiveAt, rowVars,
                   flushVars, phase>>

(* refresh_tokens: every market loaded has a book from here on.            *)
Reload ==
    /\ tokens' = active
    /\ book' = [m \in Markets |-> IF m \in active /\ book[m] = "none" THEN "empty"
                                                                      ELSE book[m]]

(* wait_for_initial_tokens, after which the background tasks start.        *)
InitialTokens ==
    /\ conn = "waiting" /\ phase = "running"
    /\ active # {}
    /\ Reload
    /\ conn' = "connecting"
    /\ passiveAt' = now + Passive
    /\ checkAt' = now + 1
    /\ UNCHANGED <<now, active, subscribed, lastEmit, dirty, rowVars, loop, inflight,
                   deadline, flushTick, stored, lost, phase>>

(* _refresh_loop: a changed set closes the connection, which the run loop  *)
(* then opens again.                                                       *)
Closable_NotYetSent == {"consuming"}
Closable == {"subscribing", "consuming"}
Refresh ==
    /\ Started
    /\ Reload
    /\ conn' = IF active # tokens /\ conn \in Closable THEN "closing" ELSE conn
    /\ UNCHANGED <<now, active, subscribed, lastEmit, dirty, passiveAt, rowVars,
                   flushVars, phase>>

(* The run loop.                                                           *)
GoTo(from, to) ==
    /\ Started
    /\ conn = from /\ conn' = to
    /\ UNCHANGED <<now, active, tokens, bookVars, passiveAt, rowVars, flushVars, phase>>

Connect == GoTo("connecting", "subscribing") /\ subscribed' = tokens
SubscriptionSent == GoTo("subscribing", "consuming") /\ UNCHANGED subscribed
ClosedByUs == GoTo("closing", "connecting") /\ subscribed' = {}
BackoffEnds == GoTo("down", "connecting") /\ UNCHANGED subscribed
Disconnect ==
    /\ \E from \in {"connecting", "subscribing", "consuming", "closing"} : GoTo(from, "down")
    /\ subscribed' = {}

-----------------------------------------------------------------------------
(* Messages and rows.                                                      *)

Append(k, n) ==
    /\ emitted + n <= MaxRows
    /\ emitted' = emitted + n
    /\ buffer' = [buffer EXCEPT ![k] = @ \cup (emitted + 1) .. (emitted + n)]
    /\ since' = [since EXCEPT ![k] = IF buffer[k] = {} THEN now ELSE @]

(* An event counts only for a token both subscribed and still looked up.   *)
Delivered(m) ==
    /\ Started
    /\ conn \in {"consuming", "closing"}
    /\ m \in subscribed \cap tokens

(* _should_emit: only a row that is written restarts the throttle.         *)
Due(m) == now - lastEmit[m] >= Throttle
Stamp_Refusals(m, written) == now
Stamp(m, written) == IF written THEN now ELSE lastEmit[m]

(* A book event replaces the book and is always written.                   *)
BookEvent(m) ==
    /\ Delivered(m)
    /\ book' \in {[book EXCEPT ![m] = b] : b \in {"empty", "quoted"}}
    /\ lastEmit' = [lastEmit EXCEPT ![m] = Stamp(m, TRUE)]
    /\ dirty' = [dirty EXCEPT ![m] = Clean]
    /\ Append("snapshot", 1)
    /\ UNCHANGED <<now, connVars, passiveAt, flushVars, phase>>

(* A price_change is applied whether or not the throttle lets it through.  *)
PriceChange(m) ==
    /\ Delivered(m)
    /\ book' \in {[book EXCEPT ![m] = b] : b \in {"empty", "quoted"}}
    /\ lastEmit' = [lastEmit EXCEPT ![m] = Stamp(m, Due(m))]
    /\ IF Due(m)
         THEN /\ dirty' = [dirty EXCEPT ![m] = Clean]
              /\ Append("snapshot", 1)
         ELSE /\ dirty' = [dirty EXCEPT ![m] = IF @ = Clean THEN now ELSE @]
              /\ UNCHANGED rowVars
    /\ UNCHANGED <<now, connVars, passiveAt, flushVars, phase>>

Trade(m) ==
    /\ Delivered(m)
    /\ Append("trade", 1)
    /\ UNCHANGED <<now, connVars, bookVars, passiveAt, flushVars, phase>>

(* _passive_snapshot_loop: every book with a level in it, connected or not,*)
(* under the same throttle.                                                *)
PassiveSnapshots ==
    /\ Started
    /\ now = passiveAt
    /\ LET written == {m \in Markets : book[m] = "quoted" /\ Due(m)}
       IN /\ Append("snapshot", Cardinality(written))
          /\ lastEmit' = [m \in Markets |->
                            IF book[m] = "quoted" THEN Stamp(m, m \in written)
                                                  ELSE lastEmit[m]]
          /\ dirty' = [m \in Markets |-> IF m \in written THEN Clean ELSE dirty[m]]
    /\ passiveAt' = now + Passive
    /\ UNCHANGED <<now, connVars, book, flushVars, phase>>

-----------------------------------------------------------------------------
(* Flushing.                                                               *)

Full == \E k \in Kinds : Cardinality(buffer[k]) >= BatchCap
TimedFlush_OffByOne(tick) == tick > FlushEvery
TimedFlush_Missing(tick) == FALSE
TimedFlush(tick) == tick >= FlushEvery

(* One turn of _flush_loop that begins a flush, or goes back to sleep.     *)
FlushCheck ==
    /\ Started
    /\ loop = "sleep" /\ now = checkAt
    /\ LET tick == IF Full THEN flushTick ELSE flushTick + 1
           timed == ~Full /\ TimedFlush(tick)
       IN /\ flushTick' = IF timed THEN 0 ELSE tick
          /\ IF Full \/ (timed /\ \E k \in Kinds : buffer[k] # {})
               THEN loop' = "snapshot" /\ UNCHANGED checkAt
               ELSE checkAt' = now + 1 /\ UNCHANGED loop
    /\ UNCHANGED <<now, connVars, bookVars, passiveAt, rowVars, inflight, deadline,
                   stored, lost, phase>>

(* The buffer is swapped for an empty one before its rows are inserted.    *)
AfterSwap_Kept(k) == buffer
AfterSwap(k) == [buffer EXCEPT ![k] = {}]
BeginInsert(k) ==
    /\ loop = k /\ inflight = {}
    /\ buffer[k] # {}
    /\ inflight' = buffer[k]
    /\ buffer' = AfterSwap(k)
    /\ deadline' = now + InsertTime
    /\ UNCHANGED <<now, connVars, bookVars, passiveAt, emitted, since, loop, checkAt,
                   flushTick, stored, lost, phase>>

(* Snapshots first, then trades, then the loop sleeps or the feed stops.   *)
Leave(k) ==
    IF k = "snapshot"
      THEN loop' = "trade" /\ UNCHANGED <<checkAt, phase>>
      ELSE /\ loop' = "sleep"
           /\ checkAt' = now + 1
           /\ phase' = IF phase = "stopping" THEN "stopped" ELSE phase

NothingToInsert(k) ==
    /\ loop = k /\ inflight = {}
    /\ buffer[k] = {}
    /\ Leave(k)
    /\ UNCHANGED <<now, connVars, bookVars, passiveAt, rowVars, inflight, deadline,
                   flushTick, stored, lost>>

(* insert_orderbook_snapshots or insert_trades returns, or raises: then    *)
(* the error is logged and the rows are gone, unless they had arrived.     *)
EndInsert(k) ==
    /\ loop = k /\ inflight # {}
    /\ \/ stored' = stored \cup inflight /\ UNCHANGED lost
       \/ lost' = lost \cup inflight /\ UNCHANGED stored
    /\ inflight' = {}
    /\ Leave(k)
    /\ UNCHANGED <<now, connVars, bookVars, passiveAt, rowVars, deadline, flushTick>>

(* The task is cancelled: so are its background tasks, an insert under way *)
(* included, and the finally block flushes what the buffers hold.          *)
FinalFlush_Resumed == IF loop = "sleep" THEN "snapshot" ELSE "trade"
FinalFlush == "snapshot"
Stop ==
    /\ Started
    /\ phase' = "stopping"
    /\ conn' = "down" /\ subscribed' = {}
    /\ \/ stored' = stored \cup inflight /\ UNCHANGED lost
       \/ lost' = lost \cup inflight /\ UNCHANGED stored
    /\ inflight' = {}
    /\ loop' = FinalFlush
    /\ UNCHANGED <<now, active, tokens, bookVars, passiveAt, rowVars, deadline,
                   checkAt, flushTick>>

(* The loops wake when they are due.                                       *)
Tick ==
    /\ now < MaxTime
    /\ Started => /\ now < passiveAt
                  /\ loop = "sleep" => now < checkAt
    /\ loop # "sleep" => inflight # {} /\ now < deadline
    /\ now' = now + 1
    /\ UNCHANGED <<connVars, bookVars, passiveAt, rowVars, flushVars, phase>>

-----------------------------------------------------------------------------
Connection ==
    \/ InitialTokens \/ Refresh
    \/ Connect \/ SubscriptionSent \/ ClosedByUs \/ BackoffEnds \/ Disconnect

Flush ==
    \/ FlushCheck
    \/ \E k \in Kinds : BeginInsert(k) \/ NothingToInsert(k) \/ EndInsert(k)

Next ==
    \/ \E m \in Markets : Discover(m) \/ BookEvent(m) \/ PriceChange(m) \/ Trade(m)
    \/ Connection \/ PassiveSnapshots \/ Flush \/ Stop \/ Tick

Spec == Init /\ [][Next]_vars
-----------------------------------------------------------------------------
(* Properties.                                                             *)

(* Every variable has its type.                                            *)
TypeOK ==
    /\ now \in 0 .. MaxTime
    /\ active \in SUBSET Markets /\ tokens \in SUBSET Markets
    /\ conn \in {"waiting", "down", "connecting", "subscribing", "consuming", "closing"}
    /\ subscribed \in SUBSET Markets
    /\ book \in [Markets -> {"none", "empty", "quoted"}]
    /\ lastEmit \in [Markets -> (0 - Throttle) .. MaxTime]
    /\ dirty \in [Markets -> 0 .. Clean]
    /\ passiveAt \in 0 .. MaxTime + Passive
    /\ emitted \in 0 .. MaxRows
    /\ buffer \in [Kinds -> SUBSET Rows]
    /\ since \in [Kinds -> 0 .. MaxTime]
    /\ loop \in {"sleep"} \cup Kinds
    /\ inflight \in SUBSET Rows
    /\ deadline \in 0 .. MaxTime + InsertTime
    /\ checkAt \in 0 .. MaxTime + 1
    /\ flushTick \in 0 .. FlushEvery - 1
    /\ stored \in SUBSET Rows /\ lost \in SUBSET Rows
    /\ phase \in {"running", "stopping", "stopped"}

(* "Close the active WS so the outer loop reconnects + re-subscribes": a   *)
(* connection that stays open is subscribed to the tokens of the last      *)
(* refresh, wherever in connecting and subscribing that refresh fell.      *)
SubscriptionFresh ==
    conn \in {"subscribing", "consuming"} => subscribed = tokens

(* A row is in one place: buffered, being inserted, stored, or lost by an  *)
(* insert that failed.  None vanishes between a swap and the end of its    *)
(* insert, and none is inserted twice.                                     *)
Place == [snapshot |-> buffer["snapshot"], trade |-> buffer["trade"],
          inflight |-> inflight, stored |-> stored, lost |-> lost]
RowsAccountedFor ==
    \A r \in 1 .. emitted :
        \E p \in DOMAIN Place : \A q \in DOMAIN Place : r \in Place[q] <=> q = p

(* The graceful stop leaves nothing in the buffers, whatever it cut.       *)
StopFlushesAll ==
    phase = "stopped" => inflight = {} /\ \A k \in Kinds : buffer[k] = {}

(* "The 60 s passive snapshot loop still provides a coarse fallback": a    *)
(* change that the throttle held back is written within a passive interval *)
(* and a throttle of the change, unless it emptied the book, whatever is   *)
(* sent in between.                                                        *)
StalenessBounded ==
    \A m \in Markets :
        phase = "running" /\ book[m] = "quoted" /\ dirty[m] # Clean
            => now - dirty[m] <= Passive + Throttle

(* "At a 10 s data-visibility latency": a buffered row waits for no more   *)
(* than the flush interval and the two inserts of a flush under way.       *)
RowWaitBounded ==
    \A k \in Kinds :
        phase = "running" /\ buffer[k] # {}
            => now - since[k] <= FlushEvery + 2 * InsertTime
=============================================================================
