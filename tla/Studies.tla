------------------------------ MODULE Studies ------------------------------
(***************************************************************************)
(* The backtest pages of the dashboard, seen from one browser tab: the     *)
(* sweep form, the pages of a running and of a finished job, and the list  *)
(* of saved backtests, talking to the job API through the Next.js proxies. *)
(*                                                                         *)
(* One page is mounted at a time.  A request crosses the network in three  *)
(* steps - sent, answered by the server, received by the page - and the    *)
(* page, the worker and other requests move in between.  What module Jobs  *)
(* shows of a job to its caller is all that is kept of the backend here.   *)
(***************************************************************************)
EXTENDS Naturals, Sequences, SweepGrid

CONSTANTS
    MaxJobs,      \* bound: jobs ever accepted
    MaxClicks,    \* bound: presses of a submit button
    MaxFaults,    \* bound: lost or failed answers, shutdowns of the worker
    MaxVisits,    \* bound: pages opened from the sidebar, remounts, form edits
    CellCap,      \* the tier's max_sweep_cells, as the page was given it
    BudgetCap,    \* jobs in flight the API allows its internal key
    GiveUpPolls,  \* GIVE_UP_MS, in polls
    TypedSteps,   \* step counts a user may type
    Grids,        \* grids a sweep may end with
    Results,      \* results a single backtest may end with
    RowCap,       \* rows of a result's table of trades
    PostSlots     \* submissions that may be under way at once

VARIABLES
    jobs,    \* the job records, in order of acceptance
    page,    \* the mounted page: "form", "result" or "list"
    form,    \* the sweep form's state
    view,    \* the result page's state
    list,    \* the list page's state
    polls,   \* the poll chains of result pages, mounted or not
    loads,   \* the list page's requests
    posts,   \* submissions under way
    clicks, faults, visits

vars == <<jobs, page, form, view, list, polls, loads, posts, clicks, faults, visits>>

Views == INSTANCE ResultViews

PollSlots == 1..2
LoadSlots == 1..2
JobIds == 1..MaxJobs
Terminal == {"completed", "failed"}
InFlight(status) == status \in {"queued", "running"}
Statuses == {"queued", "running", "completed", "failed", "gone"}

(* What the pages keep; Null stands for none of it.                        *)
Forms == [type : StrategyTypes, yOn : BOOLEAN, submitting : BOOLEAN, x : Axes, y : Axes]
Endings(kind) == {Null} \cup IF kind = "single" THEN Results ELSE Grids
Verdicts(kind) == [status : Statuses \ {"gone"}, result : Endings(kind)]
ResultPages(kind) ==
    [job : JobIds, shown : {Null} \cup Verdicts(kind), error : {"none", "missing", "failure"},
     gaveUp : BOOLEAN, age : Nat, metric : Metrics, running : BOOLEAN]
ListPages ==
    [rows : UNION {[S -> Statuses] : S \in SUBSET JobIds}, loading : BOOLEAN, error : BOOLEAN]

(* A grid is one or more rows of one length; a result is the engine's.     *)
ASSUME StudiesAssumption ==
    /\ MaxJobs \in Nat /\ MaxClicks \in Nat /\ MaxFaults \in Nat /\ MaxVisits \in Nat
    /\ CellCap \in Nat /\ BudgetCap \in Nat /\ GiveUpPolls \in Nat
    /\ TypedSteps \subseteq Int /\ RowCap \in Nat
    /\ \A g \in Grids : /\ g \in Seq(Seq(Cells)) /\ Len(g) >= 1
                        /\ \A y \in DOMAIN g : DOMAIN g[y] = DOMAIN g[1]
    /\ \A r \in Results : /\ r.trades \in Seq(Views!Trade)
                          /\ r = Views!EngineResult(r.trades, r.max_drawdown)
    /\ Null \notin Forms /\ Null \notin ListPages
    /\ \A kind \in {"single", "sweep"} :
            Null \notin Verdicts(kind) /\ Null \notin ResultPages(kind)

(* ------------------------------ requests ------------------------------ *)

Idle == [phase |-> "off", live |-> FALSE, arg |-> Null, answer |-> Null]
Sent(arg) == [phase |-> "sent", live |-> TRUE, arg |-> arg, answer |-> Null]
Answered(r, a) == [r EXCEPT !.phase = "answered", !.answer = a]

(* Unmounting clears the page's timers; what is on the wire stays there,   *)
(* and will find its poller cancelled whatever it carries.                 *)
Late == [Idle EXCEPT !.phase = "late"]
Unmounted_KeepsTimers(rs) == rs
Unmounted(rs) ==
    [s \in DOMAIN rs |-> IF rs[s].phase \in {"sent", "answered", "late"} THEN Late ELSE Idle]
Left(rs) == [s \in DOMAIN rs |-> [rs[s] EXCEPT !.live = FALSE]]
Dropped(rs) == [s \in DOMAIN rs |-> Idle]

(* The proxies of web/app/api answer 401 without a session and 502 when the*)
(* API does not answer; to the page either is one more failed request.     *)
Failure == [code |-> "failure"]
Faulty == faults < MaxFaults /\ faults' = faults + 1

(* ------------------------------ the server ----------------------------- *)

NewJob(kind, params) ==
    [kind |-> kind, params |-> params, status |-> "queued", result |-> Null]

Busy == Cardinality({j \in DOMAIN jobs : InFlight(jobs[j].status)}) >= BudgetCap

(* The request body is valid and within the internal key's limits.         *)
Valid(kind, params) ==
    kind = "sweep" => /\ params.x.steps >= 1
                      /\ params.y # Null => params.y.steps >= 1

StartJob(j) ==
    /\ jobs[j].status = "queued"
    /\ jobs' = [jobs EXCEPT ![j].status = "running"]

(* A grid has a row per point of y and a column per point of x.            *)
Outcomes(job) ==
    IF job.kind = "single" THEN Results
    ELSE {g \in Grids : /\ Len(g) = IF job.params.y = Null THEN 1 ELSE job.params.y.steps
                        /\ Len(g[1]) = job.params.x.steps}

FinishJob(j) ==
    /\ jobs[j].status = "running"
    /\ \/ \E r \in Outcomes(jobs[j]) :
            jobs' = [jobs EXCEPT ![j].status = "completed", ![j].result = r]
       \/ jobs' = [jobs EXCEPT ![j].status = "failed"]

(* A run cancelled by a shutdown was reported failed and is run again.     *)
RetryJob(j) ==
    /\ jobs[j].status = "failed" /\ Faulty
    /\ jobs' = [jobs EXCEPT ![j].status = "running"]

ExpireJob(j) ==
    /\ jobs[j].status # "gone"
    /\ jobs' = [jobs EXCEPT ![j].status = "gone"]

Worker ==
    /\ \E j \in DOMAIN jobs :
        \/ RetryJob(j)
        \/ /\ StartJob(j) \/ FinishJob(j) \/ ExpireJob(j)
           /\ UNCHANGED faults
    /\ UNCHANGED <<page, form, view, list, polls, loads, posts, clicks, visits>>

(* GET /api/backtest/[id]                                                  *)
Shown(j) == [status |-> jobs[j].status, result |-> jobs[j].result]

AnswerPoll(s) ==
    /\ polls[s].phase = "sent"
    /\ LET j == polls[s].arg IN
       \/ /\ jobs[j].status = "gone"
          /\ polls' = [polls EXCEPT ![s] = Answered(@, [code |-> "missing"])]
          /\ UNCHANGED faults
       \/ /\ jobs[j].status # "gone"
          /\ polls' = [polls EXCEPT ![s] = Answered(@, [code |-> "ok", job |-> Shown(j)])]
          /\ UNCHANGED faults
       \/ Faulty /\ polls' = [polls EXCEPT ![s] = Answered(@, Failure)]
    /\ UNCHANGED <<jobs, page, form, view, list, loads, posts, clicks, visits>>

(* GET /api/backtest?limit=100: every record that is still there.          *)
Listing == [j \in {i \in DOMAIN jobs : jobs[i].status # "gone"} |-> jobs[j].status]

AnswerLoad(s) ==
    /\ loads[s].phase = "sent"
    /\ \/ loads' = [loads EXCEPT ![s] = Answered(@, [code |-> "ok", jobs |-> Listing])]
          /\ UNCHANGED faults
       \/ Faulty /\ loads' = [loads EXCEPT ![s] = Answered(@, Failure)]
    /\ UNCHANGED <<jobs, page, form, view, list, polls, posts, clicks, visits>>

(* POST /api/backtest and POST /api/backtest/sweep.  An answer can be lost *)
(* after the job was accepted.                                             *)
Accepted(r) == jobs' = Append(jobs, NewJob(r.arg.kind, r.arg.params))

AnswerPost(s) ==
    /\ posts[s].phase = "sent"
    /\ LET r == posts[s]
           ok == Valid(r.arg.kind, r.arg.params) /\ ~Busy /\ Len(jobs) < MaxJobs
       IN  \/ /\ ok /\ Accepted(r)
              /\ posts' = [posts EXCEPT ![s] =
                              Answered(r, [code |-> "ok", job |-> Len(jobs) + 1])]
              /\ UNCHANGED faults
           \/ /\ ~ok
              /\ posts' = [posts EXCEPT ![s] = Answered(r, Failure)]
              /\ UNCHANGED <<jobs, faults>>
           \/ /\ Faulty
              /\ posts' = [posts EXCEPT ![s] = Answered(r, Failure)]
              /\ IF ok THEN Accepted(r) \/ UNCHANGED jobs ELSE UNCHANGED jobs
    /\ UNCHANGED <<page, form, view, list, polls, loads, clicks, visits>>

(* ------------------------------ the pages ------------------------------ *)

FreshForm == [type |-> "threshold_entry", yOn |-> TRUE, submitting |-> FALSE,
              x |-> DefaultAxis("threshold_entry", 1), y |-> DefaultAxis("threshold_entry", 2)]
FreshView(j) == [job |-> j, shown |-> Null, error |-> "none", gaveUp |-> FALSE,
                 age |-> 0, metric |-> "net_pnl", running |-> FALSE]
FreshList == [rows |-> <<>>, loading |-> TRUE, error |-> FALSE]

HasSlot(rs) == \E s \in DOMAIN rs : rs[s].phase = "off"
Send(rs, arg) ==
    LET free == {s \in DOMAIN rs : rs[s].phase = "off"}
    IN  [rs EXCEPT ![Min(free)] = Sent(arg)]

(* Leaving a page forgets its state; requests on the wire outlive it.      *)
OpenForm_KeepsView ==
    /\ page' = "form" /\ form' = FreshForm /\ UNCHANGED view /\ list' = Null
    /\ polls' = Unmounted(polls) /\ loads' = Dropped(loads)

OpenForm ==
    /\ page' = "form" /\ form' = FreshForm /\ view' = Null /\ list' = Null
    /\ polls' = Unmounted(polls) /\ loads' = Dropped(loads)

OpenList ==
    /\ page' = "list" /\ list' = FreshList /\ form' = Null /\ view' = Null
    /\ polls' = Unmounted(polls)
    /\ loads' = Send(Dropped(loads), Null)

OpenResult(j) ==
    /\ page' = "result" /\ view' = FreshView(j) /\ form' = Null /\ list' = Null
    /\ HasSlot(Unmounted(polls)) /\ polls' = Send(Unmounted(polls), j)
    /\ loads' = Dropped(loads)

Visit ==
    /\ \/ /\ visits < MaxVisits /\ visits' = visits + 1
          /\ OpenForm \/ OpenList
       \/ /\ page = "list" /\ ~list.error
          /\ \E j \in DOMAIN list.rows : OpenResult(j)
          /\ UNCHANGED visits
    /\ posts' = Left(posts)
    /\ UNCHANGED <<jobs, clicks, faults>>

(* On mount, React may run the effect, its cleanup, and the effect again   *)
(* on the same component (Strict Mode).                                    *)
Remount ==
    /\ page = "result" /\ view = FreshView(view.job)
    /\ visits < MaxVisits /\ visits' = visits + 1
    /\ HasSlot(Unmounted(polls)) /\ polls' = Send(Unmounted(polls), view.job)
    /\ UNCHANGED <<jobs, page, form, view, list, loads, posts, clicks, faults>>

(* ----------------------------- the sweep form -------------------------- *)

Edited(f) == /\ page = "form" /\ visits < MaxVisits /\ visits' = visits + 1
             /\ form' = f
             /\ UNCHANGED <<jobs, page, view, list, polls, loads, posts, clicks, faults>>

SwitchStrategy_KeepsAxes(t) == Edited([form EXCEPT !.type = t])
SwitchStrategy(t) == Edited([form EXCEPT !.type = t, !.x = AxesFor(t).x, !.y = AxesFor(t).y])

ToggleY == Edited([form EXCEPT !.yOn = ~@])

(* Another parameter for an axis, at that parameter's default range.       *)
PickParam(axis) ==
    \E p \in AxisMenu(form.type, axis, form.x) :
        /\ axis = "y" => form.yOn
        /\ Edited([form EXCEPT ![axis] = [@ EXCEPT !.param = p, !.range = "default"]])

TypeSteps(axis) ==
    \E n \in TypedSteps :
        /\ axis = "y" => form.yOn
        /\ Edited([form EXCEPT ![axis].steps = n])

EditForm ==
    /\ page = "form"
    /\ \/ \E t \in StrategyTypes : SwitchStrategy(t)
       \/ ToggleY
       \/ \E axis \in {"x", "y"} : PickParam(axis) \/ TypeSteps(axis)

SweepParams(f) == [strategy |-> BaseSpec(f.type), x |-> f.x,
                   y |-> IF f.yOn THEN f.y ELSE Null]

(* The summary line, and the cap it warns of.                              *)
WithinCap == TotalCells(form.x, form.y, form.yOn) <= CellCap

SubmitSweep ==
    /\ page = "form" /\ ~form.submitting /\ WithinCap /\ clicks < MaxClicks
    /\ form' = [form EXCEPT !.submitting = TRUE]
    /\ clicks' = clicks + 1
    /\ HasSlot(posts)
    /\ posts' = Send(posts, [kind |-> "sweep", params |-> SweepParams(form)])
    /\ UNCHANGED <<jobs, page, view, list, polls, loads, faults, visits>>

(* ----------------------------- the result page ------------------------- *)

(* One poll's answer.  A chain that was cleaned up says nothing and stops. *)
Settle(s) == polls' = [polls EXCEPT ![s] = Idle]

ReceivePoll_KeepsPolling(s) ==
    /\ polls[s].phase = "answered"
    /\ LET a == polls[s].answer IN
       \/ /\ a.code # "ok" /\ Settle(s) /\ view' = [view EXCEPT !.error = a.code]
       \/ /\ a.code = "ok" /\ view.age < GiveUpPolls
          /\ polls' = [polls EXCEPT ![s].phase = "waiting", ![s].answer = Null]
          /\ view' = [view EXCEPT !.shown = a.job]
    /\ UNCHANGED <<jobs, page, form, list, loads, posts, clicks, faults, visits>>

ReceivePoll_SwallowsErrors(s) ==
    /\ polls[s].phase \in {"answered", "late"}
    /\ Settle(s)
    /\ view' = IF polls[s].live /\ polls[s].answer.code = "ok"
               THEN [view EXCEPT !.shown = polls[s].answer.job] ELSE view
    /\ UNCHANGED <<jobs, page, form, list, loads, posts, clicks, faults, visits>>

ReceivePoll(s) ==
    /\ polls[s].phase \in {"answered", "late"}
    /\ LET a == polls[s].answer IN
           \/ polls[s].phase = "late" /\ Settle(s) /\ UNCHANGED view
           \/ /\ polls[s].live /\ a.code # "ok" /\ Settle(s)
              /\ view' = [view EXCEPT !.error = a.code]
           \/ /\ polls[s].live /\ a.code = "ok"
              /\ IF a.job.status \in Terminal
                 THEN Settle(s) /\ view' = [view EXCEPT !.shown = a.job]
                 ELSE IF view.age >= GiveUpPolls
                 THEN Settle(s) /\ view' = [view EXCEPT !.shown = a.job, !.gaveUp = TRUE]
                 ELSE /\ polls' = [polls EXCEPT ![s].phase = "waiting", ![s].answer = Null]
                      /\ view' = [view EXCEPT !.shown = a.job]
    /\ UNCHANGED <<jobs, page, form, list, loads, posts, clicks, faults, visits>>

PollTimer(s) ==
    /\ polls[s].phase = "waiting"
    /\ polls' = [polls EXCEPT ![s].phase = "sent"]
    /\ view' = [view EXCEPT !.age = @ + 1]
    /\ UNCHANGED <<jobs, page, form, list, loads, posts, clicks, faults, visits>>

(* What the page shows: an error hides the job, whatever it was.           *)
RunningProgress == IF view.gaveUp THEN "taking longer" ELSE "progress"

PageFace ==
    CASE view.error # "none" -> "error"
      [] view.error = "none" /\ view.shown = Null -> "loading"
      [] view.error = "none" /\ view.shown # Null /\ InFlight(view.shown.status) -> RunningProgress
      [] OTHER -> view.shown.status

ShowsGrid ==
    /\ page = "result" /\ PageFace = "completed"
    /\ jobs[view.job].kind = "sweep"

PickMetric ==
    /\ ShowsGrid
    /\ \E m \in Metrics : view' = [view EXCEPT !.metric = m]
    /\ UNCHANGED <<jobs, page, form, list, polls, loads, posts, clicks, faults, visits>>

RunBest ==
    /\ ShowsGrid /\ ~view.running /\ clicks < MaxClicks
    /\ view' = [view EXCEPT !.running = TRUE]
    /\ clicks' = clicks + 1
    /\ HasSlot(posts)
    /\ posts' = Send(posts, [kind   |-> "single",
                             params |-> [strategy |-> BestSpec(jobs[view.job].params,
                                                               view.shown.result),
                                         from     |-> view.job]])
    /\ UNCHANGED <<jobs, page, form, list, polls, loads, faults, visits>>

(* A submission's answer: on success the router goes to the job's page,    *)
(* wherever the user has gone meanwhile; on failure a toast.  "finally"    *)
(* releases the button of the page that sent it, if it is still there.     *)
ReceivePost(s) ==
    /\ posts[s].phase = "answered"
    /\ \/ /\ posts[s].answer.code = "ok"
          /\ OpenResult(posts[s].answer.job)
          /\ posts' = [Left(posts) EXCEPT ![s] = Idle]
       \/ /\ posts[s].answer.code # "ok"
          /\ posts' = [posts EXCEPT ![s] = Idle]
          /\ form' = IF posts[s].live /\ page = "form"
                     THEN [form EXCEPT !.submitting = FALSE] ELSE form
          /\ view' = IF posts[s].live /\ page = "result"
                     THEN [view EXCEPT !.running = FALSE] ELSE view
          /\ UNCHANGED <<page, list, polls, loads>>
    /\ UNCHANGED <<jobs, clicks, faults, visits>>

(* ------------------------------ the list page -------------------------- *)

(* setInterval: the next load leaves whether or not the last one is back.  *)
ListTimer ==
    /\ page = "list"
    /\ HasSlot(loads) /\ loads' = Send(loads, Null)
    /\ UNCHANGED <<jobs, page, form, view, list, polls, posts, clicks, faults, visits>>

ReceiveLoad(s) ==
    /\ loads[s].phase = "answered"
    /\ loads' = [loads EXCEPT ![s] = Idle]
    /\ list' = IF loads[s].answer.code = "ok"
               THEN [rows |-> loads[s].answer.jobs, loading |-> FALSE, error |-> FALSE]
               ELSE [list EXCEPT !.loading = FALSE, !.error = TRUE]
    /\ UNCHANGED <<jobs, page, form, view, polls, posts, clicks, faults, visits>>

ListFace ==
    CASE list.loading /\ DOMAIN list.rows = {} -> "loading"
      [] ~(list.loading /\ DOMAIN list.rows = {}) /\ list.error -> "error"
      [] OTHER -> IF DOMAIN list.rows = {} THEN "empty" ELSE "table"

(* ---------------------------- specification ---------------------------- *)

Init ==
    /\ jobs = <<>> /\ page = "form" /\ form = FreshForm /\ view = Null /\ list = Null
    /\ polls = [s \in PollSlots |-> Idle] /\ loads = [s \in LoadSlots |-> Idle]
    /\ posts = [s \in PostSlots |-> Idle]
    /\ clicks = 0 /\ faults = 0 /\ visits = 0

Next ==
    \/ Worker
    \/ \E s \in PollSlots : AnswerPoll(s) \/ ReceivePoll(s) \/ PollTimer(s)
    \/ \E s \in LoadSlots : AnswerLoad(s) \/ ReceiveLoad(s)
    \/ \E s \in PostSlots : AnswerPost(s) \/ ReceivePost(s)
    \/ Visit \/ Remount \/ EditForm \/ SubmitSweep \/ PickMetric \/ RunBest \/ ListTimer

(* The browser runs its timers and callbacks, and every request is         *)
(* answered, if only with a failure.  Nothing is asked of the worker.      *)
Fairness ==
    /\ \A s \in PollSlots :
        WF_vars(AnswerPoll(s)) /\ WF_vars(ReceivePoll(s)) /\ WF_vars(PollTimer(s))
    /\ \A s \in LoadSlots : WF_vars(AnswerLoad(s)) /\ WF_vars(ReceiveLoad(s))
    /\ \A s \in PostSlots : WF_vars(AnswerPost(s)) /\ WF_vars(ReceivePost(s))
    /\ WF_vars(ListTimer)

Spec == Init /\ [][Next]_vars /\ Fairness

(* ------------------------------ properties ----------------------------- *)

RequestOK(r) == r.phase \in {"off", "sent", "answered", "waiting", "late"} /\ r.live \in BOOLEAN

(* Types, and which page's state exists when.                              *)
TypeOK ==
    /\ Len(jobs) <= MaxJobs /\ \A j \in DOMAIN jobs : jobs[j].status \in Statuses
    /\ page \in {"form", "result", "list"}
    /\ (form # Null) = (page = "form") /\ (view # Null) = (page = "result")
    /\ (list # Null) = (page = "list")
    /\ \A s \in PollSlots : RequestOK(polls[s])
    /\ \A s \in LoadSlots : RequestOK(loads[s])
    /\ \A s \in PostSlots : RequestOK(posts[s])
    /\ clicks \in 0..MaxClicks /\ faults \in 0..MaxFaults /\ visits \in 0..MaxVisits

(* On one result page the job's status never goes back, and a completed    *)
(* result is never replaced by an error, a late answer or the expiry of    *)
(* the record.                                                             *)
Rank == [queued |-> 0, running |-> 1, failed |-> 2, completed |-> 2]
Shows(v) == v # Null /\ v.shown # Null
ShownNeverRegresses ==
    [][(Shows(view) /\ Shows(view') /\ view.job = view'.job /\ posts' = posts) =>
            /\ Rank[view'.shown.status] >= Rank[view.shown.status]
            /\ view.shown.status = "completed" => view'.shown = view.shown
            /\ (view.shown.status = "completed" /\ view.error = "none")
                    => view'.error = "none"]_vars

(* Nothing happens twice.  However often a page is left, reopened or       *)
(* remounted, at most one chain of polls goes on, and one that was cleaned *)
(* up never rearms its timer (BacktestResult.tsx: the cleanup and          *)
(* "cancelled").  And a press of a button never becomes two jobs, although *)
(* an answer may be lost after the job was created: the submit routes do   *)
(* not retry, unlike the GET proxy (libs/fastapi.ts).                      *)
OneLivePoller ==
    /\ \A s \in PollSlots : polls[s].phase = "waiting" => polls[s].live /\ page = "result"
    /\ Cardinality({s \in PollSlots : polls[s].live}) <= 1
OneJobPerClick == Len(jobs) <= clicks
NothingTwice == OneLivePoller /\ OneJobPerClick

(* What reaches the worker as a sweep is one it can run: each axis names a *)
(* parameter of the strategy, the axes have points, and the grid is within *)
(* the cap the form shows, whatever was typed or switched before.          *)
SweepJobsRunnable ==
    \A j \in DOMAIN jobs : jobs[j].kind = "sweep" =>
        LET p == jobs[j].params IN
        /\ p.x.param \in ParamsOf(p.strategy.type) /\ p.x.steps >= 1
        /\ p.y # Null => p.y.param \in ParamsOf(p.strategy.type) /\ p.y.steps >= 1
        /\ TotalCells(p.x, IF p.y = Null THEN p.x ELSE p.y, p.y # Null) <= CellCap

(* "Run best params" runs the very spec of the best cell: the worker's cell*)
(* by cell override and the page's merge agree, also when both axes sweep  *)
(* the same parameter.                                                     *)
BestRunRepeatsBestCell ==
    \A j \in DOMAIN jobs : jobs[j].kind = "single" =>
        LET sweep == jobs[jobs[j].params.from]
            best  == BestCell(sweep.result)
            p     == sweep.params
        IN  sweep.result # Null =>
                jobs[j].params.strategy = CellSpec(p.strategy, p.x, p.y, best[2], best[1])

(* A cell outlined as plateau is a cell that ran, within a tenth of the    *)
(* best one that ran, and not alone: two of its neighbours are as good.    *)
PlateauIsReal ==
    ShowsGrid =>
        LET grid == view.shown.result
            m    == view.metric
            ran  == {p \in Numbers(grid, m) : ~grid[p[1]][p[2]].err}
            val(p) == Score(grid[p[1]][p[2]], m)
            good == {p \in ran : \A q \in ran : 10 * val(p) >= 9 * val(q)}
        IN  \A p \in Plateau(grid, m) :
                p \in good /\ Cardinality(Neighbours(p) \cap good) >= 2

ShowsResult ==
    /\ page = "result" /\ PageFace = "completed"
    /\ jobs[view.job].kind = "single"

Body == Views!ResultView(view.shown.result)
Curve == Body.chart

(* The curve's last point is the net of the two totals above it, which the *)
(* engine computed on its own, whenever every trade carries a P&L - and the*)
(* sum of the rows under it unless the table is cut; no profit factor is   *)
(* infinite without a gross profit.                                        *)
CurveEndsAtNet ==
    (ShowsResult /\ Curve # <<>>) =>
        LET r == view.shown.result IN
        (\A i \in DOMAIN r.trades : r.trades[i].pnl # Null) =>
            /\ Curve[Len(Curve)] = r.total_pnl - r.total_fees
            /\ Body.table.more \/ Curve[Len(Curve)] = Views!Total(Body.table.rows)
            /\ Body.stats.factor # Null /\ Body.stats.factor[2] = 0 => r.total_pnl > 0

(* The spline never leaves the band between two neighbouring points: no    *)
(* dip is drawn that no trade made.                                        *)
CurveNeverOvershoots ==
    (ShowsResult /\ Curve # <<>>) =>
        \A i \in 1..(Len(Curve) - 1) :
            LET lo == IF Curve[i] < Curve[i + 1] THEN Curve[i] ELSE Curve[i + 1]
                hi == Curve[i] + Curve[i + 1] - lo
            IN  \A k \in 1..2 : LET c == Views!ControlPoints(Curve, i)[k]
                                IN  lo * c[2] <= c[1] /\ c[1] <= hi * c[2]

(* The chart says no more and no less than the totals above it and the     *)
(* table under it.                                                         *)
CurveIsFaithful == CurveEndsAtNet /\ CurveNeverOvershoots

(* A result page settles whatever the worker does: a verdict, an error or  *)
(* the notice that the job takes long - unless the user leaves.  A list    *)
(* that stays open ends up with what the server has once the server rests, *)
(* although its loads overtake each other.                                 *)
Settled == PageFace \in {"completed", "failed", "error", "taking longer"}
ResultPageSettles == page = "result" ~> (page # "result" \/ Settled)
ListConverges ==
    <>[](page = "list") =>
        <>[](page = "list" => list.rows = Listing /\ ~list.error)
StudiesConverge == ResultPageSettles /\ ListConverges
=============================================================================
