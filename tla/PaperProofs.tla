---------------------------- MODULE PaperProofs ----------------------------
(***************************************************************************)
(* Proofs about module PaperTrading, for every value of its constants: its *)
(* types, that a pause takes effect, that no open position is left behind, *)
(* and that no snapshot is passed over while the cycles keep up.           *)
(***************************************************************************)
EXTENDS PaperTrading, TLAPS

InCycle == {"load", "pull", "meta", "eval", "settle", "closing"}
Past == {"pull", "meta", "eval"}

-----------------------------------------------------------------------------
(* The inductive invariants.                                               *)

(* The worker's bookkeeping: strategies are shown a row of the stream, and *)
(* nothing is loaded outside a cycle.                                      *)
LoadInv ==
    /\ todo # {} => row \in Snapshots /\ row.market \notin resolved
    /\ todo \subseteq compiled
    /\ wpc \in {"idle", "down", "load"} => compiled = {}
    /\ wpc # "eval" => todo = {}
    /\ wpc # "closing" => rows = {}
    /\ lastEval <= cycleStart
    /\ cycleStart <= now
    /\ fresh \subseteq unmet

(* A strategy loaded and no longer active stopped being so this cycle, and *)
(* one active since before the cycle is loaded.                            *)
ActiveInv ==
    /\ \A s \in compiled : status[s] = "active" \/ activeSince[s] >= cycleStart
    /\ wpc \in Past =>
         \A s \in Strats : status[s] = "active" /\ activeSince[s] < cycleStart
                               => s \in compiled

(* Open positions on decided markets: no cycle begun since the row was     *)
(* written has settled, and, once the settlement query of a cycle has run, *)
(* the market is among its rows or was resolved since the cycle began.     *)
(* What no cycle has settled is in the settlement window or passed by.     *)
Stranded(s, m) == pos[s][m] = "open" /\ Decided(m)
SettleInv ==
    /\ \A m \in Markets : Decided(m) => resolvedAt[m] # NotYet
    /\ wpc = "eval" =>
         \A m \in Markets \ resolved : resolvedAt[m] # NotYet => m \in fresh
    /\ \A m \in unmet \ passedBy : resolvedAt[m] >= cursor - SettleBuffer
    /\ \A s \in Strats, m \in Markets : Stranded(s, m) => m \in unmet \cup passedBy
    /\ wpc = "closing" =>
         \A s \in Strats, m \in Markets :
             Stranded(s, m) => m \in rows \cup fresh \cup passedBy

(* What the last whole pass covered has been processed, and so has what    *)
(* the pass under way has taken out of its batch.                          *)
Wanted(s, x) == status[s] = "active" /\ activeSince[s] <= x.ts
EvalInv ==
    ~evalGap =>
      /\ cursor <= lastEval - FlushLag
      /\ \A x \in snaps, s \in Strats :
             Wanted(s, x) /\ x.ts < lastEval - FlushLag => <<s, x>> \in processed
      /\ wpc \in {"meta", "eval"} /\ whole =>
           \A x \in snaps, s \in compiled :
               x.ts >= cursor /\ x.ts < cycleStart - FlushLag
                   => x \in batch \/ (x = row /\ s \in todo) \/ <<s, x>> \in processed

-----------------------------------------------------------------------------
(* Types and bookkeeping.                                                  *)

(* Every step keeps the types and the worker's bookkeeping.                *)
LEMMA TypeStep == TypeOK /\ LoadInv /\ [Next]_vars => TypeOK' /\ LoadInv'
<1> SUFFICES ASSUME TypeOK, LoadInv, [Next]_vars PROVE TypeOK' /\ LoadInv'
  OBVIOUS
<1> USE PaperAssumption
<1> USE DEF TypeOK, LoadInv
<1>1. CASE UNCHANGED vars
  BY <1>1 DEF vars, dbVars, feedVars, cycleVars, clockVars, boundVars, gapVars
<1>2. ASSUME NEW s \in Strats, Api(s) PROVE TypeOK' /\ LoadInv'
  <2>1. CASE CreateCount(s)
    BY <2>1 DEF CreateCount, dbVars, feedVars, cycleVars, clockVars, boundVars, gapVars
  <2>2. CASE CreateInsert(s)
    BY <2>2 DEF CreateInsert, feedVars, cycleVars, clockVars, boundVars, gapVars
  <2>3. CASE Pause(s) \/ Resume(s)
    <3> SUFFICES ASSUME NEW from, NEW to \in {"active", "paused"}, SetActive(s, from, to)
                 PROVE  TypeOK' /\ LoadInv'
      BY <2>3 DEF Pause, Resume
    <3> QED
      BY DEF SetActive, feedVars, cycleVars, clockVars, gapVars
  <2>4. CASE Delete(s)
    BY <2>4 DEF Delete, feedVars, cycleVars, clockVars, gapVars
  <2> QED
    BY <1>2, <2>1, <2>2, <2>3, <2>4 DEF Api
<1>3. ASSUME NEW m \in Markets, NEW t \in 0 .. MaxTime, NEW level \in Levels,
             Snapshot(m, t, level)
      PROVE  TypeOK' /\ LoadInv'
  BY <1>3 DEF Snapshot, Snapshots, Time, dbVars, cycleVars, clockVars, boundVars, gapVars
<1>4. ASSUME NEW m \in Markets, NEW t \in 0 .. MaxTime,
             NEW verdict \in {"decided", "inconclusive"}, Resolve(m, t, verdict)
      PROVE  TypeOK' /\ LoadInv'
  BY <1>4 DEF Resolve, NotYet, dbVars, cycleVars, clockVars, boundVars, gapVars
<1>5. CASE StartCycle
  BY <1>5 DEF StartCycle, dbVars, feedVars, cycleVars, boundVars, gapVars
<1>6. CASE LoadStrategies
  BY <1>6 DEF LoadStrategies, Loaded, ActiveStrats, dbVars, feedVars, clockVars, boundVars
<1>7. CASE PullSnapshots
  <2>1. CASE batch' \in Oldest(Window, BatchLimit) /\ whole' = (batch' = Window)
                 /\ wpc' = "meta" /\ UNCHANGED <<compiled, resolved, row, todo, rows, lastEval>>
    <3>1. batch' \subseteq Snapshots
      BY <2>1 DEF Oldest, Window
    <3>2. whole' \in BOOLEAN
      BY <2>1
    <3> QED
      BY <1>7, <2>1, <3>1, <3>2 DEF PullSnapshots, dbVars, feedVars, clockVars, boundVars
  <2>2. CASE Forget /\ wpc' = "settle" /\ lastEval' = cycleStart
    BY <1>7, <2>2 DEF PullSnapshots, Forget, dbVars, feedVars, clockVars, boundVars
  <2> QED
    BY <1>7, <2>1, <2>2 DEF PullSnapshots
<1>8. CASE LoadMeta
  BY <1>8 DEF LoadMeta, dbVars, feedVars, clockVars, boundVars, gapVars
<1>9. ASSUME NEW x \in batch, NextRow(x) PROVE TypeOK' /\ LoadInv'
  BY <1>9 DEF NextRow, Snapshots, dbVars, feedVars, clockVars, boundVars, gapVars
<1>10. ASSUME NEW s \in Strats, EvaluateQuietly(s) PROVE TypeOK' /\ LoadInv'
  BY <1>10 DEF EvaluateQuietly, Passed, Shown, Snapshots,
               dbVars, feedVars, clockVars, boundVars, gapVars
<1>11. ASSUME NEW s \in Strats, OpenPosition(s) PROVE TypeOK' /\ LoadInv'
  BY <1>11 DEF OpenPosition, Passed, Shown, Snapshots, feedVars, clockVars, boundVars,
               gapVars
<1>12. CASE EvalDone
  BY <1>12 DEF EvalDone, Forget, dbVars, feedVars, clockVars, boundVars
<1>13. CASE SettleSelect
  BY <1>13 DEF SettleSelect, dbVars, feedVars, clockVars, boundVars, gapVars
<1>14. ASSUME NEW m \in Markets, SettleMarket(m) PROVE TypeOK' /\ LoadInv'
  BY <1>14 DEF SettleMarket, feedVars, clockVars, boundVars, gapVars
<1>15. ASSUME NEW t \in 0 .. MaxTime, NEW left \in SUBSET Markets, Advance(t, left)
       PROVE  /\ cursor' \in Time
              /\ unmet' = left /\ passedBy' \subseteq Markets
              /\ evalGap' \in BOOLEAN
  BY <1>15 DEF Advance, NextCursor, Time
<1>16. CASE CycleDone
  BY <1>15, <1>16 DEF CycleDone, Forget, dbVars, feedVars, boundVars
<1>17. ASSUME NEW s \in Strats, InsertFails(s) PROVE TypeOK' /\ LoadInv'
  BY <1>15, <1>17 DEF InsertFails, Abort, Shown, Forget, Snapshots, dbVars, feedVars,
                      boundVars
<1>18. CASE CycleFails
  BY <1>15, <1>18 DEF CycleFails, Abort, Forget, dbVars, feedVars
<1>19. CASE Stop
  BY <1>19 DEF Stop, Forget, dbVars, feedVars, clockVars, gapVars
<1>20. CASE Restart
  BY <1>15, <1>20 DEF Restart, dbVars, feedVars, cycleVars, boundVars
<1>21. CASE Tick
  BY <1>21 DEF Tick, dbVars, feedVars, cycleVars, clockVars, boundVars, gapVars
<1> HIDE DEF TypeOK, LoadInv
<1>22. ASSUME Worker PROVE TypeOK' /\ LoadInv'
  BY <1>5, <1>6, <1>7, <1>8, <1>9, <1>10, <1>11, <1>12, <1>13, <1>14, <1>16, <1>17, <1>18,
     <1>19, <1>20, <1>22 DEF Worker
<1>23. ASSUME Collector PROVE TypeOK' /\ LoadInv'
  BY <1>3, <1>4, <1>23 DEF Collector
<1> QED
  BY <1>1, <1>2, <1>21, <1>22, <1>23 DEF Next

(* The types and the bookkeeping hold initially, so always.                *)
THEOREM PaperTypes == Spec => [](TypeOK /\ LoadInv)
<1>1. Init => TypeOK /\ LoadInv
  BY PaperAssumption DEF Init, TypeOK, LoadInv, Time, NotYet
<1> QED
  BY <1>1, TypeStep, PTL DEF Spec

-----------------------------------------------------------------------------
(* A pause takes effect.                                                   *)

(* Every step keeps what the cycle under way knows of active strategies.   *)
LEMMA ActiveStep ==
    TypeOK /\ LoadInv /\ LoadInv' /\ ActiveInv /\ [Next]_vars => ActiveInv'
<1> SUFFICES ASSUME TypeOK, LoadInv, LoadInv', ActiveInv, [Next]_vars PROVE ActiveInv'
  OBVIOUS
<1> USE DEF ActiveInv, Past
<1>0. /\ now \in Int /\ cycleStart \in Int /\ cycleStart <= now
      /\ activeSince \in [Strats -> Int]
      /\ status \in [Strats -> {"none", "active", "paused", "deleted"}]
      /\ compiled \subseteq Strats
      /\ wpc \in {"idle", "down", "load"} => compiled = {}
  BY PaperAssumption DEF TypeOK, LoadInv
<1>1. CASE UNCHANGED <<status, activeSince, compiled, cycleStart, wpc>>
  BY <1>1
<1>2. CASE /\ compiled' = {} /\ wpc' \notin Past
  BY <1>2
<1>3. CASE UNCHANGED <<status, activeSince, compiled, cycleStart>>
           /\ (wpc' \in Past => wpc \in Past)
  BY <1>3
<1>4. ASSUME NEW s \in Strats, Api(s) PROVE ActiveInv'
  <2>1. CASE CreateCount(s)
    BY <1>1, <2>1 DEF CreateCount, dbVars, cycleVars, clockVars
  <2>2. CASE \/ CreateInsert(s) \/ Pause(s) \/ Resume(s) \/ Delete(s)
    <3>1. /\ activeSince' = [activeSince EXCEPT ![s] = now]
          /\ \A r \in Strats \ {s} : status'[r] = status[r]
          /\ UNCHANGED <<compiled, cycleStart, wpc>>
      BY <1>0, <2>2 DEF CreateInsert, Pause, Resume, SetActive, Delete, cycleVars, clockVars
    <3>2. activeSince'[s] >= cycleStart'
          /\ \A r \in Strats \ {s} : activeSince'[r] = activeSince[r]
      BY <1>0, <3>1
    <3> QED
      BY <1>0, <3>1, <3>2
  <2> QED
    BY <1>4, <2>1, <2>2 DEF Api
<1>5. CASE StartCycle
  BY <1>0, <1>2, <1>5 DEF StartCycle, cycleVars
<1>6. CASE LoadStrategies
  BY <1>0, <1>6 DEF LoadStrategies, Loaded, ActiveStrats, dbVars, clockVars
<1>7. CASE PullSnapshots
  BY <1>2, <1>3, <1>7 DEF PullSnapshots, Forget, dbVars, clockVars
<1>8. CASE LoadMeta \/ SettleSelect
  BY <1>3, <1>8 DEF LoadMeta, SettleSelect, dbVars, clockVars
<1>9. CASE \/ \E x \in batch : NextRow(x)
           \/ \E s \in Strats : EvaluateQuietly(s) \/ OpenPosition(s)
           \/ \E m \in Markets : SettleMarket(m)
  BY <1>1, <1>9 DEF NextRow, EvaluateQuietly, OpenPosition, SettleMarket, dbVars, clockVars
<1>10. CASE EvalDone \/ CycleDone \/ CycleFails \/ Stop
            \/ \E s \in Strats : InsertFails(s)
  BY <1>2, <1>10 DEF EvalDone, CycleDone, CycleFails, InsertFails, Abort, Stop, Forget
<1>11. CASE Restart
  BY <1>0, <1>2, <1>11 DEF Restart, cycleVars
<1>12. CASE Collector \/ Tick
  BY <1>1, <1>12 DEF Collector, Snapshot, Resolve, Tick, dbVars, cycleVars, clockVars
<1>13. CASE UNCHANGED vars
  BY <1>1, <1>13 DEF vars, dbVars, cycleVars, clockVars
<1> QED
  BY <1>4, <1>5, <1>6, <1>7, <1>8, <1>9, <1>10, <1>11, <1>12, <1>13 DEF Next, Worker

(* What the cycle under way knows of active strategies is always so.       *)
LEMMA ActiveHolds == Spec => []ActiveInv
<1>1. Init => ActiveInv
  BY DEF Init, ActiveInv, Past
<1> QED
  BY <1>1, PaperTypes, ActiveStep, PTL DEF Spec

(* A position opens only for a strategy that was active when the cycle     *)
(* under way began, or that stopped being so since.                        *)
THEOREM PauseIsHonoured == Spec => PauseTakesEffect
<1> DEFINE Opens ==
      \A s \in Strats, m \in Markets :
          pos[s][m] = "none" /\ pos'[s][m] = "open"
              => status[s] = "active" \/ activeSince[s] >= cycleStart
<1>1. TypeOK /\ LoadInv /\ ActiveInv /\ [Next]_vars => [Opens]_vars
  <2> SUFFICES ASSUME TypeOK, LoadInv, ActiveInv, [Next]_vars,
                      NEW s \in Strats, NEW m \in Markets,
                      pos[s][m] = "none", pos'[s][m] = "open"
               PROVE  status[s] = "active" \/ activeSince[s] >= cycleStart
    OBVIOUS
  <2>0. pos \in [Strats -> [Markets -> {"none", "open", "closed"}]] /\ pos' # pos
    BY DEF TypeOK
  <2>1. PICK r \in Strats : OpenPosition(r) \/ Delete(r) \/ \E k \in Markets : SettleMarket(k)
    BY <2>0 DEF Next, Api, Worker, Collector, CreateCount, CreateInsert, Pause, Resume,
       SetActive, Snapshot, Resolve, StartCycle, LoadStrategies, PullSnapshots, LoadMeta,
       NextRow, EvaluateQuietly, EvalDone, SettleSelect, CycleDone, InsertFails,
       CycleFails, Abort, Stop, Restart, Tick, vars, dbVars
  <2>2. CASE Delete(r)
    BY <2>0, <2>2 DEF Delete
  <2>3. ASSUME NEW k \in Markets, SettleMarket(k) PROVE FALSE
    BY <2>0, <2>3 DEF SettleMarket
  <2>4. CASE OpenPosition(r)
    <3>1. s = r
      BY <2>0, <2>4 DEF OpenPosition
    <3>2. r \in compiled
      BY <2>4 DEF OpenPosition, Passed, LoadInv
    <3> QED
      BY <3>1, <3>2 DEF ActiveInv
  <2> QED
    BY <2>1, <2>2, <2>3, <2>4
<1> QED
  BY <1>1, PaperTypes, ActiveHolds, PTL DEF Spec, PauseTakesEffect

-----------------------------------------------------------------------------
(* No open position is left behind.                                        *)

(* What SettleInv and EvalInv need of the end of a cycle.                  *)
LEMMA AdvanceMoves ==
    ASSUME TypeOK, NEW t \in 0 .. MaxTime, NEW left \in SUBSET Markets, Advance(t, left)
    PROVE  /\ unmet' = left /\ passedBy \subseteq passedBy'
           /\ ~evalGap' => ~evalGap /\ cursor' <= lastEval - FlushLag
           /\ \A m \in left \ passedBy' : resolvedAt[m] >= cursor' - SettleBuffer
<1>1. /\ ~evalGap' => ~evalGap /\ ~(t - Lookback > lastEval - FlushLag)
      /\ cursor' = t - Lookback /\ unmet' = left
      /\ passedBy' = passedBy \cup {m \in left : resolvedAt[m] < cursor' - SettleBuffer}
  BY Zenon DEF Advance, NextCursor
<1>2. /\ Lookback \in Int /\ FlushLag \in Int /\ SettleBuffer \in Int
      /\ t \in Int /\ lastEval \in Int /\ resolvedAt \in [Markets -> Int]
  BY PaperAssumption DEF TypeOK, NotYet
<1> QED
  BY <1>1, <1>2

(* Every step keeps the account of open positions.                         *)
LEMMA SettleStep ==
    TypeOK /\ TypeOK' /\ LoadInv /\ SettleInv /\ [Next]_vars => SettleInv'
<1> SUFFICES ASSUME TypeOK, TypeOK', LoadInv, SettleInv, [Next]_vars
             PROVE  SettleInv'
  OBVIOUS
<1> USE DEF SettleInv, Stranded, Decided
<1>0. /\ cursor \in Int /\ cursor' \in Int /\ SettleBuffer \in Nat
      /\ unmet \subseteq Markets /\ fresh \subseteq unmet
      /\ resolvedAt \in [Markets -> Int] /\ NotYet \in Int
      /\ pos \in [Strats -> [Markets -> {"none", "open", "closed"}]]
      /\ outcome \in [Markets -> {"none", "decided", "inconclusive"}]
  BY PaperAssumption DEF TypeOK, LoadInv, Time, NotYet
<1>1. CASE UNCHANGED <<pos, outcome, resolvedAt, resolved, fresh, unmet, passedBy,
                       cursor, wpc, rows>>
  BY <1>1
<1>2. CASE /\ UNCHANGED <<pos, outcome, resolvedAt, unmet, passedBy, cursor>>
           /\ wpc' \notin {"eval", "closing"}
  BY <1>2
<1>3. ASSUME NEW s \in Strats, Delete(s) PROVE SettleInv'
  <2>1. \A r \in Strats, m \in Markets : pos'[r][m] = "open" => pos[r][m] = "open"
    BY <1>0, <1>3 DEF Delete
  <2> QED
    BY <1>3, <2>1 DEF Delete, feedVars, cycleVars, clockVars, gapVars
<1>4. ASSUME NEW m \in Markets, NEW t \in 0 .. MaxTime,
             NEW verdict \in {"decided", "inconclusive"}, Resolve(m, t, verdict)
      PROVE  SettleInv'
  <2>1. /\ resolvedAt'[m] = t /\ t # NotYet /\ t \in Int
        /\ fresh' = fresh \cup {m} /\ unmet' = unmet \cup {m}
        /\ passedBy \subseteq passedBy'
        /\ m \in passedBy' \/ t >= cursor - SettleBuffer
    BY PaperAssumption, <1>0, <1>4 DEF Resolve, NotYet
  <2>2. \A k \in Markets \ {m} : outcome'[k] = outcome[k] /\ resolvedAt'[k] = resolvedAt[k]
    BY <1>0, <1>4 DEF Resolve
  <2>3. UNCHANGED <<pos, resolved, cursor, wpc, rows>>
    BY <1>4 DEF Resolve, dbVars, cycleVars, clockVars
  <2>4. UNCHANGED NotYet
    BY DEF NotYet
  <2> HIDE DEF NotYet
  <2>5. \A k \in Markets : Decided(k)' => resolvedAt'[k] # NotYet
    BY <2>1, <2>2
  <2>6. \A k \in unmet' \ passedBy' : resolvedAt'[k] >= cursor' - SettleBuffer
    BY <1>0, <2>1, <2>2, <2>3
  <2> QED
    BY <2>1, <2>2, <2>3, <2>4, <2>5, <2>6
<1>5. CASE LoadMeta
  BY <1>5 DEF LoadMeta, dbVars, feedVars, clockVars, gapVars
<1>6. ASSUME NEW s \in Strats, OpenPosition(s) PROVE SettleInv'
  <2>1. row.market \in Markets \ resolved /\ wpc = "eval"
    BY <1>6 DEF OpenPosition, Passed, LoadInv, Snapshots
  <2>2. \A r \in Strats, m \in Markets \ {row.market} : pos'[r][m] = pos[r][m]
    BY <1>0, <1>6, <2>1 DEF OpenPosition
  <2>3. Decided(row.market) => row.market \in unmet
    BY <1>0, <2>1
  <2> QED
    BY <1>6, <2>1, <2>2, <2>3 DEF OpenPosition, feedVars, clockVars, gapVars
<1>7. CASE SettleSelect
  <2>1. UNCHANGED <<pos, outcome, resolvedAt, fresh, unmet, passedBy, cursor>>
        /\ wpc' = "closing"
    BY <1>7 DEF SettleSelect, dbVars, feedVars, clockVars, gapVars
  <2>2. \A s \in Strats, m \in Markets : Stranded(s, m) => m \in rows' \cup passedBy
    BY <1>0, <1>7 DEF SettleSelect, SettleFrom, HasOpen
  <2> QED
    BY <2>1, <2>2
<1>8. ASSUME NEW m \in Markets, SettleMarket(m) PROVE SettleInv'
  <2>1. \A r \in Strats, k \in Markets :
            pos'[r][k] = "open" => pos[r][k] = "open" /\ k # m
    BY <1>0, <1>8 DEF SettleMarket
  <2> QED
    BY <1>8, <2>1 DEF SettleMarket, feedVars, clockVars, gapVars
<1>9. CASE CycleDone
  <2>1. Advance(cycleStart, fresh) /\ cycleStart \in 0 .. MaxTime /\ fresh \in SUBSET Markets
    BY <1>9 DEF CycleDone, TypeOK
  <2>2. /\ unmet' = fresh /\ passedBy \subseteq passedBy'
        /\ \A m \in fresh \ passedBy' : resolvedAt[m] >= cursor' - SettleBuffer
    BY <2>1, AdvanceMoves
  <2>3. UNCHANGED <<pos, outcome, resolvedAt>> /\ wpc = "closing" /\ rows = {} /\ wpc' = "idle"
    BY <1>9 DEF CycleDone, dbVars, feedVars
  <2> QED
    BY <2>2, <2>3
<1>10. CASE CycleFails \/ Restart \/ \E s \in Strats : InsertFails(s)
  <2>1. PICK t \in 0 .. MaxTime : Advance(t, unmet)
    BY <1>10 DEF CycleFails, InsertFails, Abort, Restart, TypeOK
  <2>2. /\ unmet' = unmet /\ passedBy \subseteq passedBy'
        /\ \A m \in unmet \ passedBy' : resolvedAt[m] >= cursor' - SettleBuffer
    BY <1>0, <2>1, AdvanceMoves
  <2>3. UNCHANGED <<pos, outcome, resolvedAt>> /\ wpc' = "idle"
    BY <1>10 DEF CycleFails, InsertFails, Abort, Restart, dbVars, feedVars
  <2> QED
    BY <2>2, <2>3
<1>11. CASE StartCycle
  BY <1>2, <1>11 DEF StartCycle, dbVars, feedVars
<1>12. CASE LoadStrategies \/ PullSnapshots \/ EvalDone \/ Stop
  BY <1>2, <1>12 DEF LoadStrategies, PullSnapshots, EvalDone, Stop, dbVars, feedVars,
                     clockVars, gapVars
<1>13. CASE \/ \E x \in batch : NextRow(x)
            \/ \E s \in Strats : EvaluateQuietly(s)
            \/ Tick \/ UNCHANGED vars
            \/ \E s \in Strats : CreateCount(s) \/ CreateInsert(s) \/ Pause(s) \/ Resume(s)
            \/ \E m \in Markets, t \in 0 .. MaxTime, level \in Levels : Snapshot(m, t, level)
  BY <1>1, <1>13 DEF NextRow, EvaluateQuietly, Tick, CreateCount, CreateInsert, Pause,
     Resume, SetActive, Snapshot, vars, dbVars, feedVars, cycleVars, clockVars, gapVars
<1> QED
  BY <1>3, <1>4, <1>5, <1>6, <1>7, <1>8, <1>9, <1>10, <1>11, <1>12, <1>13
     DEF Next, Api, Worker, Collector

(* An open position on a decided market stays in the settlement query's    *)
(* window, unless no whole cycle had its row before the window passed it.  *)
THEOREM PositionsAreSettled == Spec => []NoPositionForgotten
<1>1. Init /\ TypeOK => SettleInv
  BY DEF Init, SettleInv, Stranded, Decided
<1>2. SettleInv => NoPositionForgotten
  BY DEF SettleInv, Stranded, NoPositionForgotten
<1> QED
  BY <1>1, <1>2, PaperTypes, SettleStep, PTL DEF Spec

-----------------------------------------------------------------------------
(* No snapshot is passed over.                                             *)

(* Every step keeps the account of what the cycles have been shown.        *)
LEMMA EvalStep ==
    TypeOK /\ TypeOK' /\ LoadInv /\ LoadInv' /\ ActiveInv /\ EvalInv /\ [Next]_vars
        => EvalInv'
<1> SUFFICES ASSUME TypeOK, TypeOK', LoadInv, LoadInv', ActiveInv, EvalInv, [Next]_vars
             PROVE  EvalInv'
  OBVIOUS
<1> USE DEF EvalInv, Wanted
<1>0. /\ now \in Nat /\ cycleStart \in Nat /\ lastEval \in Nat /\ cursor \in Int
      /\ cycleStart <= now /\ lastEval <= cycleStart /\ FlushLag \in Nat
      /\ activeSince \in [Strats -> Int]
      /\ status \in [Strats -> {"none", "active", "paused", "deleted"}]
      /\ compiled \subseteq Strats
      /\ \A x \in snaps : x.ts \in Int
  BY PaperAssumption DEF TypeOK, LoadInv, Time, Snapshots
<1>1. CASE UNCHANGED <<cursor, lastEval, snaps, status, activeSince, processed, compiled,
                       wpc, whole, batch, row, todo, cycleStart, evalGap>>
  BY <1>1
<1>2. CASE /\ UNCHANGED <<cursor, lastEval, snaps, status, activeSince, processed, evalGap>>
           /\ wpc' \notin {"meta", "eval"}
  BY <1>2
<1>3. ASSUME NEW s \in Strats, Api(s) PROVE EvalInv'
  <2>1. CASE CreateCount(s)
    BY <1>1, <2>1 DEF CreateCount, dbVars, feedVars, cycleVars, clockVars, gapVars
  <2>2. CASE CreateInsert(s) \/ Pause(s) \/ Resume(s) \/ Delete(s)
    <3>1. /\ activeSince' = [activeSince EXCEPT ![s] = now]
          /\ \A r \in Strats \ {s} : status'[r] = status[r]
          /\ UNCHANGED <<cursor, lastEval, snaps, processed, compiled, wpc, whole, batch,
                         row, todo, cycleStart, evalGap>>
      BY <1>0, <2>2 DEF CreateInsert, Pause, Resume, SetActive, Delete, feedVars, cycleVars,
                        clockVars, gapVars
    <3>2. /\ activeSince'[s] = now
          /\ \A r \in Strats \ {s} : activeSince'[r] = activeSince[r]
      BY <1>0, <3>1
    <3>3. \A x \in snaps : ~(now <= x.ts /\ x.ts < lastEval - FlushLag)
      BY <1>0
    <3> QED
      BY <3>1, <3>2, <3>3
  <2> QED
    BY <1>3, <2>1, <2>2 DEF Api
<1>4. ASSUME NEW m \in Markets, NEW t \in 0 .. MaxTime, NEW level \in Levels,
             Snapshot(m, t, level)
      PROVE  EvalInv'
  <2>1. \A x \in snaps' : x \in snaps \/ (x.ts >= lastEval - FlushLag
                                         /\ x.ts >= cycleStart - FlushLag)
    BY <1>0, <1>4 DEF Snapshot
  <2>2. \A x \in snaps' : x.ts \in Int
    BY <1>0, <1>4 DEF Snapshot
  <2>3. UNCHANGED <<cursor, lastEval, status, activeSince, processed, compiled, wpc, whole,
                    batch, row, todo, cycleStart, evalGap>>
    BY <1>4 DEF Snapshot, dbVars, cycleVars, clockVars, gapVars
  <2> QED
    BY <1>0, <2>1, <2>2, <2>3
<1>5. CASE LoadStrategies
  <2>1. CASE Loaded # {}
    BY <1>2, <1>5, <2>1 DEF LoadStrategies, dbVars, feedVars, clockVars
  <2>2. CASE Loaded = {}
    <3>1. \A s \in Strats : status[s] # "active"
      BY <2>2 DEF Loaded, ActiveStrats
    <3> QED
      BY <1>0, <1>5, <2>2, <3>1 DEF LoadStrategies, dbVars, feedVars, clockVars
  <2> QED
    BY <2>1, <2>2
<1>6. CASE PullSnapshots
  <2>1. UNCHANGED <<snaps, status, activeSince, processed, cursor, cycleStart, evalGap>>
    BY <1>6 DEF PullSnapshots, dbVars, feedVars, clockVars
  <2>2. CASE whole' = (batch' = Window) /\ wpc' = "meta" /\ UNCHANGED <<compiled, lastEval>>
    <3>1. whole' => batch' = Window
      BY Zenon, <2>2
    <3> QED
      BY <2>1, <2>2, <3>1 DEF Window
  <2>3. CASE Window = {} /\ wpc' = "settle" /\ lastEval' = cycleStart
    <3>1. \A x \in snaps : x.ts < cursor
      BY <1>0, <2>3 DEF Window
    <3> QED
      BY <1>0, <2>1, <2>3, <3>1
  <2> QED
    BY <1>6, <2>2, <2>3 DEF PullSnapshots
<1>7. CASE LoadMeta
  <2>1. wpc = "meta" /\ wpc' = "eval"
        /\ UNCHANGED <<cursor, lastEval, snaps, status, activeSince, processed, compiled,
                       whole, batch, row, todo, cycleStart, evalGap>>
    BY <1>7 DEF LoadMeta, dbVars, feedVars, clockVars, gapVars
  <2> QED
    BY <2>1
<1>8. ASSUME NEW x \in batch, NextRow(x) PROVE EvalInv'
  <2>1. /\ wpc = "eval" /\ todo = {} /\ batch' = batch \ {x} /\ row' = x
        /\ processed \subseteq processed'
        /\ \A s \in compiled : s \in todo' \/ <<s, x>> \in processed'
        /\ UNCHANGED <<cursor, lastEval, snaps, status, activeSince, compiled, wpc, whole,
                       cycleStart, evalGap>>
    BY <1>8 DEF NextRow, dbVars, feedVars, clockVars, gapVars
  <2> QED
    BY <2>1
<1>9. ASSUME NEW s \in Strats, EvaluateQuietly(s) \/ OpenPosition(s) PROVE EvalInv'
  <2>1. /\ todo' = todo \ {s} /\ processed' = processed \cup {<<s, row>>}
        /\ UNCHANGED <<cursor, lastEval, snaps, status, activeSince, compiled, wpc, whole,
                       batch, row, cycleStart, evalGap>>
    BY <1>9 DEF EvaluateQuietly, OpenPosition, Passed, dbVars, feedVars, clockVars, gapVars
  <2> QED
    BY <2>1
<1>10. CASE EvalDone
  <2>1. /\ wpc = "eval" /\ todo = {} /\ batch = {} /\ wpc' = "settle"
        /\ lastEval' = IF whole THEN cycleStart ELSE lastEval
        /\ UNCHANGED <<snaps, status, activeSince, processed, cursor, cycleStart, evalGap>>
    BY <1>10 DEF EvalDone, dbVars, feedVars, clockVars
  <2>2. ASSUME ~evalGap, whole, NEW x \in snaps, NEW s \in Strats, Wanted(s, x),
               x.ts < cycleStart - FlushLag
        PROVE  <<s, x>> \in processed
    <3>1. s \in compiled
      BY <1>0, <2>1, <2>2 DEF ActiveInv, Past
    <3>2. CASE x.ts >= cursor
      BY <2>1, <2>2, <3>1, <3>2
    <3>3. CASE x.ts < cursor
      BY <1>0, <2>2, <3>3
    <3> QED
      BY <1>0, <3>2, <3>3
  <2> QED
    BY <1>0, <2>1, <2>2
<1>11. CASE CycleDone \/ CycleFails \/ Restart \/ \E s \in Strats : InsertFails(s)
  <2>1. PICK t \in 0 .. MaxTime, left \in SUBSET Markets : Advance(t, left)
    BY <1>11 DEF CycleDone, CycleFails, InsertFails, Abort, Restart, TypeOK
  <2> QED
    BY <1>0, <1>11, <2>1, AdvanceMoves
       DEF CycleDone, CycleFails, InsertFails, Abort, Restart, dbVars, feedVars
<1>12. CASE StartCycle \/ SettleSelect \/ Stop \/ \E m \in Markets : SettleMarket(m)
  BY <1>2, <1>12 DEF StartCycle, SettleSelect, SettleMarket, Stop, dbVars, feedVars,
                     clockVars, gapVars
<1>13. CASE \/ Tick \/ UNCHANGED vars
            \/ \E m \in Markets, t \in 0 .. MaxTime, verdict \in {"decided", "inconclusive"} :
                   Resolve(m, t, verdict)
  BY <1>1, <1>13 DEF Tick, Resolve, vars, dbVars, feedVars, cycleVars, clockVars, gapVars
<1> QED
  BY <1>3, <1>4, <1>5, <1>6, <1>7, <1>8, <1>9, <1>10, <1>11, <1>12, <1>13
     DEF Next, Worker, Collector

(* A row the cursor has passed was shown to every strategy active since    *)
(* before its ts, as long as the cycles keep up.                           *)
THEOREM SnapshotsAreSeen == Spec => []NoSnapshotMissed
<1>1. Init /\ TypeOK => EvalInv
  <2> SUFFICES ASSUME Init, TypeOK PROVE EvalInv
    OBVIOUS
  <2>1. ~evalGap => ~(0 - Lookback > 0 - FlushLag)
    BY Zenon DEF Init
  <2> QED
    BY <2>1, PaperAssumption DEF Init, EvalInv
<1>2. TypeOK /\ EvalInv => NoSnapshotMissed
  <2> SUFFICES ASSUME TypeOK, EvalInv, ~evalGap, NEW x \in snaps, NEW s \in Strats,
                      status[s] = "active", activeSince[s] <= x.ts, x.ts < cursor
               PROVE  <<s, x>> \in processed
    BY DEF NoSnapshotMissed, NoRowMissed
  <2>1. cursor \in Int /\ x.ts \in Int /\ lastEval - FlushLag \in Int
    BY PaperAssumption DEF TypeOK, Time, Snapshots
  <2> QED
    BY <2>1 DEF EvalInv, Wanted
<1> QED
  BY <1>1, <1>2, PaperTypes, EvalStep, ActiveHolds, PTL DEF Spec
=============================================================================
