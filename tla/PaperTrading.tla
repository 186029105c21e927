---------------------------- MODULE PaperTrading ----------------------------
(***************************************************************************)
(* Paper trading: the CRUD handlers of one user's strategies               *)
(* (api/routes_paper.py, api/paper_db.py) and the worker that polls the    *)
(* snapshot stream, opens virtual positions and settles them when the      *)
(* collector has recorded a resolution (worker/paper_trader.py).           *)
(*                                                                         *)
(* Every database call is a step of its own, so handlers, collector and    *)
(* worker interleave between them.  Time is counted in poll intervals.     *)
(***************************************************************************)
EXTENDS Integers, FiniteSets

CONSTANTS
    Strats,        \* strategies the user may ever create
    CrossStrats,   \* those of them whose condition is a crosses_above
    Markets,
    Levels,        \* sides of a condition's value a price may be on
    TierCap,       \* tier.max_paper_strategies
    Lookback,      \* PAPER_LOOKBACK_S
    SettleBuffer,  \* the settlement query's extra hour
    BatchLimit,    \* LIMIT of the snapshot query
    FlushLag,      \* the collector's delay from a snapshot's ts to its row
    MaxCycle,      \* bound: how long one cycle takes
    MaxTime,       \* bound: the clock
    MaxSnaps,      \* bound: snapshot rows
    MaxWrites,     \* bound: pauses, resumes and deletes
    MaxFaults      \* bound: failed cycles and worker restarts

ASSUME PaperAssumption ==
    /\ CrossStrats \subseteq Strats
    /\ Levels \subseteq {"low", "high"}
    /\ TierCap \in Nat /\ Lookback \in Nat /\ SettleBuffer \in Nat
    /\ BatchLimit \in Nat \ {0}
    /\ FlushLag \in Nat
    /\ MaxCycle \in Nat /\ MaxTime \in Nat /\ MaxSnaps \in Nat /\ MaxWrites \in Nat /\ MaxFaults \in Nat

Time == (0 - Lookback) .. MaxTime
NotYet == MaxTime + 1
Snapshots == [market : Markets, ts : Time, level : Levels]

VARIABLES
    now,
    \* Postgres and ClickHouse
    status,      \* status[s]     : none, active, paused or deleted
    started,     \* started[s]    : started_at
    pos,         \* pos[s][m]     : the row of paper_positions, if any
    resolvedAt,  \* resolvedAt[m] : events.resolved_at, or NotYet
    outcome,     \* outcome[m]    : events.resolution_outcome
    snaps,       \* the rows of orderbook_snapshots
    \* the API
    counted,     \* create handlers past their tier check
    \* the worker
    wpc,         \* where its cycle is
    wake,        \* when its sleep ends
    cycleStart,
    cursor,      \* last_snapshot_ts, which equals last_settle_ts
    compiled,    \* the active strategies this cycle has loaded
    batch,       \* snapshots of this cycle still to look at
    whole,       \* the snapshot query returned fewer rows than its LIMIT cuts
    resolved,    \* markets this cycle's metadata query saw resolved
    row,         \* the snapshot being looked at
    todo,        \* strategies it has not been shown to yet
    rows,        \* markets the settlement query returned
    cross,       \* cross[s][m]   : the previous level of s's crossing condition
    \* bounds and history
    writes, faults,
    activeSince, \* activeSince[s]: when s last became active or stopped being so
    processed,   \* <<s, snapshot>> pairs a cycle has gone past
    lastEval,    \* start of the last cycle that looked at a whole batch
    evalGap,     \* once the cursor has left behind what lastEval covered
    fresh,       \* resolutions recorded since the last cycle began
    unmet,       \* resolutions no cycle begun since has settled
    passedBy     \* those of them the settlement window has left behind

dbVars   == <<status, started, pos>>
feedVars == <<resolvedAt, outcome, snaps>>
cycleVars == <<compiled, batch, whole, resolved, row, todo, rows>>
clockVars == <<wake, cycleStart, cursor>>
boundVars == <<writes, faults>>
gapVars  == <<lastEval, evalGap, fresh, unmet, passedBy>>
vars == <<now, dbVars, feedVars, counted, wpc, clockVars, cycleVars, cross,
          boundVars, activeSince, processed, gapVars>>

NoRow == [market |-> "none", ts |-> 0, level |-> "none"]

Init ==
    /\ now = 0
    /\ status = [s \in Strats |-> "none"]
    /\ started = [s \in Strats |-> 0]
    /\ pos = [s \in Strats |-> [m \in Markets |-> "none"]]
    /\ resolvedAt = [m \in Markets |-> NotYet]
    /\ outcome = [m \in Markets |-> "none"]
    /\ snaps = {}
    /\ counted = {}
    /\ wpc = "idle"
    /\ wake = 0
    /\ cycleStart = 0
    /\ cursor = 0 - Lookback
    /\ compiled = {} /\ batch = {} /\ whole = TRUE /\ resolved = {}
    /\ row = NoRow /\ todo = {} /\ rows = {}
    /\ cross = [s \in Strats |-> [m \in Markets |-> "none"]]
    /\ writes = 0 /\ faults = 0
    /\ activeSince = [s \in Strats |-> 0]
    /\ processed = {}
    /\ lastEval = 0
    /\ evalGap = (0 - Lookback > 0 - FlushLag)
    /\ fresh = {} /\ unmet = {} /\ passedBy = {}

-----------------------------------------------------------------------------
(* The API.                                                                *)

ActiveStrats == {s \in Strats : status[s] = "active"}

(* create_strategy counts the active strategies, then inserts the row.     *)
CreateCount(s) ==
    /\ status[s] = "none" /\ s \notin counted
    /\ Cardinality(ActiveStrats) < TierCap
    /\ counted' = counted \cup {s}
    /\ UNCHANGED <<now, dbVars, feedVars, wpc, clockVars, cycleVars, cross,
                   boundVars, activeSince, processed, gapVars>>

CreateInsert(s) ==
    /\ s \in counted /\ status[s] = "none"
    /\ counted' = counted \ {s}
    /\ status' = [status EXCEPT ![s] = "active"]
    /\ started' = [started EXCEPT ![s] = now]
    /\ activeSince' = [activeSince EXCEPT ![s] = now]
    /\ UNCHANGED <<now, pos, feedVars, wpc, clockVars, cycleVars, cross,
                   boundVars, processed, gapVars>>

(* set_strategy_active.  Resuming neither counts nor touches started_at.   *)
SetActive(s, from, to) ==
    /\ status[s] = from
    /\ writes < MaxWrites
    /\ writes' = writes + 1
    /\ status' = [status EXCEPT ![s] = to]
    /\ activeSince' = [activeSince EXCEPT ![s] = now]
    /\ UNCHANGED <<now, started, pos, feedVars, counted, wpc, clockVars,
                   cycleVars, cross, faults, processed, gapVars>>
Pause(s) == SetActive(s, "active", "paused")
Resume(s) == SetActive(s, "paused", "active")

(* delete_strategy: its positions go with it.                              *)
Delete(s) ==
    /\ status[s] \in {"active", "paused"}
    /\ writes < MaxWrites
    /\ writes' = writes + 1
    /\ status' = [status EXCEPT ![s] = "deleted"]
    /\ pos' = [pos EXCEPT ![s] = [m \in Markets |-> "none"]]
    /\ activeSince' = [activeSince EXCEPT ![s] = now]
    /\ UNCHANGED <<now, started, feedVars, counted, wpc, clockVars,
                   cycleVars, cross, faults, processed, gapVars>>

-----------------------------------------------------------------------------
(* The collector: snapshot rows become visible at most FlushLag after their*)
(* ts.  A resolution is recorded once and for all, stamped with the time   *)
(* the exchange gives: nothing bounds how long after it the sync gets there*)
(* (a 600 s cycle of 300 rows, which a backlog or an outage holds up).     *)

Snapshot(m, ts, level) ==
    /\ Cardinality(snaps) < MaxSnaps
    /\ ts >= 0 /\ ts >= now - FlushLag /\ ts <= now
    /\ ~\E x \in snaps : x.market = m /\ x.ts = ts
    /\ snaps' = snaps \cup {[market |-> m, ts |-> ts, level |-> level]}
    /\ UNCHANGED <<now, dbVars, resolvedAt, outcome, counted, wpc, clockVars,
                   cycleVars, cross, boundVars, activeSince, processed, gapVars>>

Resolve(m, at, verdict) ==
    /\ resolvedAt[m] = NotYet
    /\ at <= now
    /\ resolvedAt' = [resolvedAt EXCEPT ![m] = at]
    /\ outcome' = [outcome EXCEPT ![m] = verdict]
    /\ fresh' = fresh \cup {m} /\ unmet' = unmet \cup {m}
    /\ passedBy' = IF at < cursor - SettleBuffer THEN passedBy \cup {m} ELSE passedBy
    /\ UNCHANGED <<now, dbVars, snaps, counted, wpc, clockVars, cycleVars, cross,
                   boundVars, activeSince, processed, lastEval, evalGap>>

-----------------------------------------------------------------------------
(* One cycle of the worker.                                                *)

(* The pass over the snapshots, and then the cycle, forgets what it loaded.*)
Forget ==
    /\ compiled' = {} /\ batch' = {} /\ whole' = TRUE /\ resolved' = {}
    /\ row' = NoRow /\ todo' = {} /\ rows' = {}

StartCycle ==
    /\ wpc = "idle" /\ now >= wake
    /\ cycleStart' = now
    /\ wpc' = "load"
    /\ fresh' = {}
    /\ UNCHANGED <<now, dbVars, feedVars, counted, wake, cursor, cycleVars, cross,
                   boundVars, activeSince, processed, lastEval, evalGap, unmet, passedBy>>

(* Instances of strategies that are not active any more are dropped.       *)
Loaded_PausedToo == {s \in Strats : status[s] \in {"active", "paused"}}
Loaded == ActiveStrats
LoadStrategies ==
    /\ wpc = "load"
    /\ compiled' = Loaded
    /\ cross' = [s \in Strats |-> IF s \in Loaded THEN cross[s]
                                  ELSE [m \in Markets |-> "none"]]
    /\ wpc' = IF Loaded = {} THEN "settle" ELSE "pull"
    /\ lastEval' = IF Loaded = {} THEN cycleStart ELSE lastEval
    /\ UNCHANGED <<now, dbVars, feedVars, counted, clockVars, batch, whole, resolved,
                   row, todo, rows, boundVars, activeSince, processed, evalGap,
                   fresh, unmet, passedBy>>

(* The snapshot query: ORDER BY ts LIMIT BatchLimit.                       *)
Window == {x \in snaps : x.ts >= cursor}
Oldest(X, n) ==
    {B \in SUBSET X :
        /\ Cardinality(B) = IF Cardinality(X) <= n THEN Cardinality(X) ELSE n
        /\ \A x \in B, y \in X \ B : x.ts <= y.ts}
PullSnapshots ==
    /\ wpc = "pull"
    /\ \/ /\ Window # {}
          /\ batch' \in Oldest(Window, BatchLimit)
          /\ whole' = (batch' = Window)
          /\ wpc' = "meta"
          /\ UNCHANGED <<compiled, resolved, row, todo, rows, lastEval>>
       \/ /\ Window = {}
          /\ Forget
          /\ wpc' = "settle"
          /\ lastEval' = cycleStart
    /\ UNCHANGED <<now, dbVars, feedVars, counted, clockVars, cross, boundVars,
                   activeSince, processed, evalGap, fresh, unmet, passedBy>>

LoadMeta ==
    /\ wpc = "meta"
    /\ resolved' = {m \in Markets : resolvedAt[m] # NotYet}
    /\ wpc' = "eval"
    /\ UNCHANGED <<now, dbVars, feedVars, counted, clockVars, compiled, batch, whole,
                   row, todo, rows, cross, boundVars, activeSince, processed, gapVars>>

(* The next snapshot in ts order.  A market that is resolved is skipped.   *)
NextRow(x) ==
    /\ wpc = "eval" /\ todo = {}
    /\ x \in batch
    /\ \A y \in batch : x.ts <= y.ts
    /\ batch' = batch \ {x}
    /\ row' = x
    /\ IF x.market \in resolved
         THEN /\ todo' = {}
              /\ processed' = processed \cup {<<s, x>> : s \in compiled}
         ELSE todo' = compiled /\ UNCHANGED processed
    /\ UNCHANGED <<now, dbVars, feedVars, counted, wpc, clockVars, compiled, whole,
                   resolved, rows, cross, boundVars, activeSince, gapVars>>

(* A strategy is shown the snapshot, unless that is older than it is.  A   *)
(* crossing compares with the level it was shown last.                     *)
TooOld(s) == row.ts < started[s]
Fires(s) ==
    /\ row.level = "high"
    /\ s \in CrossStrats => cross[s][row.market] = "low"
Shown(s) ==
    IF s \in CrossStrats THEN [cross EXCEPT ![s][row.market] = row.level] ELSE cross

Passed(s) ==
    /\ s \in todo
    /\ todo' = todo \ {s}
    /\ processed' = processed \cup {<<s, row>>}

EvaluateQuietly(s) ==
    /\ wpc = "eval"
    /\ Passed(s)
    /\ cross' = IF TooOld(s) THEN cross ELSE Shown(s)
    /\ UNCHANGED <<now, dbVars, feedVars, counted, wpc, clockVars, compiled, batch,
                   whole, resolved, row, rows, boundVars, activeSince, gapVars>>

(* It fires and the book fills: INSERT ... ON CONFLICT DO NOTHING.         *)
OpenPosition(s) ==
    /\ wpc = "eval"
    /\ ~TooOld(s) /\ Fires(s)
    /\ status[s] # "deleted"
    /\ Passed(s)
    /\ cross' = Shown(s)
    /\ pos' = [pos EXCEPT ![s][row.market] = IF @ = "none" THEN "open" ELSE @]
    /\ UNCHANGED <<now, status, started, feedVars, counted, wpc, clockVars, compiled,
                   batch, whole, resolved, row, rows, boundVars, activeSince, gapVars>>

EvalDone ==
    /\ wpc = "eval" /\ todo = {} /\ batch = {}
    /\ wpc' = "settle"
    /\ lastEval' = IF whole THEN cycleStart ELSE lastEval
    /\ Forget
    /\ UNCHANGED <<now, dbVars, feedVars, counted, clockVars, cross, boundVars,
                   activeSince, processed, evalGap, fresh, unmet, passedBy>>

(* The settlement query, an hour behind the cursor.  An inconclusive market*)
(* is left alone.                                                          *)
SettleFrom_NoBuffer == cursor
SettleFrom == cursor - SettleBuffer
Decided(m) == outcome[m] = "decided"
HasOpen(m) == \E s \in Strats : pos[s][m] = "open"
SettleSelect ==
    /\ wpc = "settle"
    /\ rows' = {m \in Markets : /\ resolvedAt[m] # NotYet /\ resolvedAt[m] >= SettleFrom
                                /\ HasOpen(m) /\ Decided(m)}
    /\ wpc' = "closing"
    /\ UNCHANGED <<now, dbVars, feedVars, counted, clockVars, compiled, batch, whole,
                   resolved, row, todo, cross, boundVars, activeSince, processed,
                   gapVars>>

(* settle_positions_for_market, and the caches of that market.             *)
SettleMarket(m) ==
    /\ wpc = "closing" /\ m \in rows
    /\ rows' = rows \ {m}
    /\ pos' = [s \in Strats |->
                 [pos[s] EXCEPT ![m] = IF @ = "open" THEN "closed" ELSE @]]
    /\ cross' = [s \in Strats |-> [cross[s] EXCEPT ![m] = "none"]]
    /\ UNCHANGED <<now, status, started, feedVars, counted, wpc, clockVars, compiled,
                   batch, whole, resolved, row, todo, boundVars, activeSince,
                   processed, gapVars>>

(* The end of a cycle, however it ended: both cursors advance.  A market   *)
(* the settlement window leaves behind here has been passed by, unless a   *)
(* cycle begun after its row was written has settled.                      *)
NextCursor_NoOverlap(t) == t
NextCursor_Compounds(t) == cursor - Lookback
NextCursor(t) == t - Lookback
Advance(t, left) ==
    /\ cursor' = NextCursor(t)
    /\ unmet' = left
    /\ passedBy' = passedBy \cup {m \in left : resolvedAt[m] < cursor' - SettleBuffer}
    /\ evalGap' = (evalGap \/ t - Lookback > lastEval - FlushLag)

CycleDone ==
    /\ wpc = "closing" /\ rows = {}
    /\ Advance(cycleStart, fresh)
    /\ Forget
    /\ wake' = now + 1
    /\ wpc' = "idle"
    /\ UNCHANGED <<now, dbVars, feedVars, counted, cycleStart, cross, boundVars,
                   activeSince, processed, lastEval, fresh>>

Abort ==
    /\ Advance(cycleStart, unmet)
    /\ Forget
    /\ wake' = now + 1
    /\ wpc' = "idle"
    /\ UNCHANGED <<now, dbVars, feedVars, counted, cycleStart, activeSince,
                   processed, lastEval, fresh>>

(* The strategy was deleted under the worker: its INSERT violates the      *)
(* foreign key, and the exception ends the cycle for every strategy.       *)
InsertFails(s) ==
    /\ wpc = "eval" /\ s \in todo
    /\ ~TooOld(s) /\ Fires(s)
    /\ status[s] = "deleted"
    /\ cross' = Shown(s)
    /\ Abort
    /\ UNCHANGED boundVars

(* A database call of the cycle raises.                                    *)
CycleFails ==
    /\ wpc \in {"load", "pull", "meta", "eval", "settle", "closing"}
    /\ faults < MaxFaults
    /\ faults' = faults + 1
    /\ Abort
    /\ UNCHANGED <<cross, writes>>

(* The process ends, at a signal or without one, and is started again.     *)
Stop ==
    /\ wpc # "down"
    /\ faults < MaxFaults
    /\ faults' = faults + 1
    /\ wpc' = "down"
    /\ Forget
    /\ cross' = [s \in Strats |-> [m \in Markets |-> "none"]]
    /\ UNCHANGED <<now, dbVars, feedVars, counted, clockVars, writes, activeSince,
                   processed, gapVars>>

Restart ==
    /\ wpc = "down"
    /\ Advance(now, unmet)
    /\ wake' = now
    /\ wpc' = "idle"
    /\ UNCHANGED <<now, dbVars, feedVars, counted, cycleStart, cycleVars, cross,
                   boundVars, activeSince, processed, lastEval, fresh>>

(* A sleeping worker wakes on time, and a cycle takes MaxCycle at most.    *)
Tick ==
    /\ now < MaxTime
    /\ IF wpc \in {"idle", "down"} THEN wpc = "idle" => now < wake
                                   ELSE now < cycleStart + MaxCycle
    /\ now' = now + 1
    /\ UNCHANGED <<dbVars, feedVars, counted, wpc, clockVars, cycleVars, cross,
                   boundVars, activeSince, processed, gapVars>>

-----------------------------------------------------------------------------
Api(s) == CreateCount(s) \/ CreateInsert(s) \/ Pause(s) \/ Resume(s) \/ Delete(s)

Worker ==
    \/ StartCycle \/ LoadStrategies \/ PullSnapshots \/ LoadMeta
    \/ \E x \in batch : NextRow(x)
    \/ \E s \in Strats : EvaluateQuietly(s) \/ OpenPosition(s) \/ InsertFails(s)
    \/ EvalDone \/ SettleSelect
    \/ \E m \in Markets : SettleMarket(m)
    \/ CycleDone \/ CycleFails \/ Stop \/ Restart

Collector ==
    \E m \in Markets, t \in 0 .. MaxTime :
        \/ \E level \in Levels : Snapshot(m, t, level)
        \/ \E verdict \in {"decided", "inconclusive"} : Resolve(m, t, verdict)

Next == (\E s \in Strats : Api(s)) \/ Worker \/ Collector \/ Tick

Spec == Init /\ [][Next]_vars

-----------------------------------------------------------------------------
(* Properties.                                                             *)

(* Every variable has its type.                                            *)
TypeOK ==
    /\ now \in 0 .. MaxTime
    /\ status \in [Strats -> {"none", "active", "paused", "deleted"}]
    /\ started \in [Strats -> 0 .. MaxTime]
    /\ pos \in [Strats -> [Markets -> {"none", "open", "closed"}]]
    /\ resolvedAt \in [Markets -> 0 .. NotYet]
    /\ outcome \in [Markets -> {"none", "decided", "inconclusive"}]
    /\ snaps \subseteq Snapshots
    /\ counted \subseteq Strats
    /\ wpc \in {"idle", "load", "pull", "meta", "eval", "settle", "closing", "down"}
    /\ wake \in 0 .. MaxTime + 1
    /\ cycleStart \in 0 .. MaxTime
    /\ cursor \in Time
    /\ compiled \subseteq Strats
    /\ batch \subseteq Snapshots
    /\ whole \in BOOLEAN
    /\ resolved \subseteq Markets
    /\ row \in Snapshots \cup {NoRow}
    /\ todo \subseteq Strats
    /\ rows \subseteq Markets
    /\ cross \in [Strats -> [Markets -> Levels \cup {"none"}]]
    /\ writes \in 0 .. MaxWrites
    /\ faults \in 0 .. MaxFaults
    /\ activeSince \in [Strats -> 0 .. MaxTime]
    /\ processed \subseteq Strats \X Snapshots
    /\ lastEval \in 0 .. MaxTime
    /\ evalGap \in BOOLEAN
    /\ fresh \subseteq Markets
    /\ unmet \subseteq Markets
    /\ passedBy \subseteq Markets

(* "So we never miss rows on the boundary", without the excuses: the       *)
(* collector flushes its buffer every 10 s, so a row can become visible    *)
(* after a window that begins 10 s before its cycle has gone past it.      *)
NoRowMissed ==
    \A x \in snaps, s \in Strats :
        status[s] = "active" /\ activeSince[s] <= x.ts /\ x.ts < cursor
            => <<s, x>> \in processed

(* "A slow tick never causes us to miss a snapshot at the boundary": a row *)
(* the cursor has passed was looked at for every strategy that was active  *)
(* when it was stamped and still is, unless cycles kept failing, stalling  *)
(* or being cut by the LIMIT for longer than the overlap allows.           *)
NoSnapshotMissed == evalGap \/ NoRowMissed

(* An open position on a decided market is still inside the settlement     *)
(* query's window, "buffer in case sync was delayed", unless no cycle could*)
(* have closed it: its row was written with the window already past it, or *)
(* every cycle begun since was cut short until the window went past it.    *)
(* Whatever fails or restarts, one whole cycle with the row in its window  *)
(* leaves no position of that market open.                                 *)
NoPositionForgotten ==
    \A s \in Strats, m \in Markets :
        pos[s][m] = "open" /\ Decided(m)
            => resolvedAt[m] >= cursor - SettleBuffer \/ m \in passedBy

(* A pause or a delete takes effect within the cycle under way: no position*)
(* is opened for a strategy that was already inactive when it began.       *)
PauseTakesEffect ==
    [][\A s \in Strats, m \in Markets :
          pos[s][m] = "none" /\ pos'[s][m] = "open"
              => status[s] = "active" \/ activeSince[s] >= cycleStart]_vars

(* "Duplicate processing is fine": a crossing strategy only ever opens a   *)
(* position on a market that went from low to high.  The overlap replays   *)
(* old snapshots into the stored previous level, so the code does not keep *)
(* it.                                                                     *)
FiresOnlyOnCrossing ==
    \A s \in CrossStrats, m \in Markets :
        pos[s][m] # "none" =>
            \E x, y \in snaps : /\ x.market = m /\ y.market = m /\ x.ts < y.ts
                                /\ x.level = "low" /\ y.level = "high"
=============================================================================
