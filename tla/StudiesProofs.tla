--------------------------- MODULE StudiesProofs ---------------------------
(***************************************************************************)
(* Proofs about the backtest pages (Studies): for any number of jobs,      *)
(* clicks, faults and visits, whatever is typed in the form and whatever   *)
(* the backtests end with.                                                 *)
(*                                                                         *)
(* The inductive invariant follows a verdict on its way from the job to    *)
(* the page: what a finished job holds, what an answer carries, what the   *)
(* page shows, and what a submission made of it.                           *)
(***************************************************************************)
EXTENDS Studies, FoldProofs

(* ----------------------- the inductive invariant ----------------------- *)

Records == {"phase", "live", "arg", "answer"}
Jobs == {"kind", "params", "status", "result"}
AsRequest(r) == [phase |-> r.phase, live |-> r.live, arg |-> r.arg, answer |-> r.answer]
AsJob(j) == [kind |-> j.kind, params |-> j.params, status |-> j.status, result |-> j.result]

(* A job that reached its verdict keeps it.                                *)
Finished(j) ==
    /\ j \in DOMAIN jobs /\ jobs[j].status \in {"completed", "gone"}
    /\ jobs[j].result \in Outcomes(jobs[j])
Carries(verdict, j) ==
    /\ verdict.status = "completed" => Finished(j) /\ verdict.result = jobs[j].result
    /\ verdict.status # "queued" => jobs[j].status # "queued"

(* What may be asked of the worker.                                        *)
Runnable(p) ==
    /\ p.x \in Axes /\ p.x.param \in ParamsOf(p.strategy.type)
    /\ p.y # Null => p.y \in Axes /\ p.y.param \in ParamsOf(p.strategy.type)
    /\ TotalCells(p.x, IF p.y = Null THEN p.x ELSE p.y, p.y # Null) <= CellCap
OfBestCell(p) ==
    /\ Finished(p.from) /\ jobs[p.from].kind = "sweep"
    /\ p.strategy = BestSpec(jobs[p.from].params, jobs[p.from].result)
Asked(kind, p) ==
    /\ kind \in {"sweep", "single"}
    /\ kind = "sweep" => Runnable(p)
    /\ kind = "single" => OfBestCell(p)

JobOK(j) ==
    /\ jobs[j] = AsJob(jobs[j]) /\ jobs[j].status \in Statuses
    /\ jobs[j].result \in Endings(jobs[j].kind)
    /\ jobs[j].status = "completed" => Finished(j)
    /\ Asked(jobs[j].kind, jobs[j].params)
    /\ jobs[j].kind = "sweep" => Valid("sweep", jobs[j].params)

PostOK(s) ==
    /\ posts[s] = AsRequest(posts[s]) /\ posts[s].live \in BOOLEAN
    /\ posts[s].phase \in {"off", "sent", "answered"}
    /\ posts[s].phase = "sent" => Asked(posts[s].arg.kind, posts[s].arg.params)
    /\ posts[s].phase = "answered" /\ posts[s].answer.code = "ok"
            => posts[s].answer.job \in DOMAIN jobs

(* A live chain of polls is about the job on the page, and the page has no *)
(* verdict yet; its answer is no older than what the page shows.           *)
PollOK(s) ==
    /\ polls[s] = AsRequest(polls[s])
    /\ polls[s].phase \in {"off", "sent", "answered", "waiting", "late"}
    /\ polls[s].live = (polls[s].phase \in {"sent", "answered", "waiting"})
    /\ polls[s].live => /\ page = "result" /\ polls[s].arg = view.job
                        /\ view.shown # Null => view.shown.status \notin Terminal
    /\ polls[s].phase = "answered" => polls[s].answer.code \in {"ok", "missing", "failure"}
    /\ polls[s].phase = "answered" /\ polls[s].answer.code = "ok" =>
            /\ polls[s].answer.job \in Verdicts(jobs[view.job].kind) /\ Carries(polls[s].answer.job, view.job)
            /\ polls[s].answer.job.status = "queued" /\ view.shown # Null
                    => view.shown.status = "queued"

LoadOK(s) ==
    /\ loads[s] = AsRequest(loads[s]) /\ loads[s].live \in BOOLEAN
    /\ loads[s].phase \in {"off", "sent", "answered"}
    /\ loads[s].phase # "off" => page = "list"
    /\ loads[s].phase = "answered" /\ loads[s].answer.code = "ok" =>
            /\ DOMAIN loads[s].answer.jobs \subseteq DOMAIN jobs
            /\ loads[s].answer.jobs \in [DOMAIN loads[s].answer.jobs -> Statuses]

PageOK ==
    /\ page \in {"form", "result", "list"}
    /\ IF page = "form"
       THEN form \in Forms /\ \A a \in {"x", "y"} : form[a].param \in ParamsOf(form.type)
       ELSE form = Null
    /\ IF page = "result"
       THEN /\ view.job \in DOMAIN jobs /\ view \in ResultPages(jobs[view.job].kind)
            /\ view.shown # Null => Carries(view.shown, view.job)
       ELSE view = Null
    /\ IF page = "list" THEN list \in ListPages /\ DOMAIN list.rows \subseteq DOMAIN jobs
       ELSE list = Null

SentPosts == {s \in PostSlots : posts[s].phase = "sent"}

Shape ==
    /\ jobs \in Seq({jobs[j] : j \in DOMAIN jobs}) /\ Len(jobs) <= MaxJobs
    /\ DOMAIN polls = PollSlots /\ DOMAIN loads = LoadSlots /\ DOMAIN posts = PostSlots
    /\ clicks \in 0 .. MaxClicks /\ faults \in 0 .. MaxFaults /\ visits \in 0 .. MaxVisits

StudiesInv ==
    /\ Shape /\ PageOK
    /\ \A j \in DOMAIN jobs : JobOK(j)
    /\ \A s \in PostSlots : PostOK(s)
    /\ \A s \in PollSlots : PollOK(s)
    /\ \A s \in LoadSlots : LoadOK(s)
    /\ \A s, t \in PollSlots : polls[s].live /\ polls[t].live => s = t
    /\ IsFiniteSet(SentPosts) /\ Len(jobs) + Cardinality(SentPosts) <= clicks

(* ---------------------------- the sweep form --------------------------- *)

LEMMA StudiesConstants ==
  /\ MaxJobs \in Nat /\ MaxClicks \in Nat /\ MaxFaults \in Nat /\ MaxVisits \in Nat
  /\ CellCap \in Nat /\ GiveUpPolls \in Nat /\ TypedSteps \subseteq Int
  /\ Null \notin Int /\ Null \notin Axes /\ Null \notin Forms /\ Null \notin ListPages
  /\ \A kind \in {"single", "sweep"} : Null \notin Verdicts(kind) /\ Null \notin ResultPages(kind)
  BY StudiesAssumption, NullAssumption

LEMMA Strategies ==
  /\ StrategyTypes = {"threshold_entry", "mean_reversion", "time_before_resolution"}
  /\ Sweepable["threshold_entry"] = <<"threshold", "size_usd">>
  /\ Sweepable["mean_reversion"] = <<"lookback", "z_threshold", "size_usd">>
  /\ Sweepable["time_before_resolution"] = <<"minutes_before", "minutes_window", "size_usd">>
  BY DEF StrategyTypes, Sweepable

LEMMA StrategyParams ==
  /\ ParamsOf("threshold_entry") = {"threshold", "size_usd"}
  /\ ParamsOf("mean_reversion") = {"lookback", "z_threshold", "size_usd"}
  /\ ParamsOf("time_before_resolution") = {"minutes_before", "minutes_window", "size_usd"}
  <1>1. \A a, b : DOMAIN <<a, b>> = {1, 2} /\ <<a, b>>[1] = a /\ <<a, b>>[2] = b
    OBVIOUS
  <1>2. \A a, b, c : /\ DOMAIN <<a, b, c>> = {1, 2, 3}
                     /\ <<a, b, c>>[1] = a /\ <<a, b, c>>[2] = b /\ <<a, b, c>>[3] = c
    OBVIOUS
  <1>3. QED
    BY <1>1, <1>2, Strategies DEF ParamsOf

LEMMA AxisOfStrategy ==
  ASSUME NEW t \in StrategyTypes, NEW p \in ParamsOf(t), NEW n \in Int
  PROVE  [param |-> p, range |-> "default", steps |-> n] \in Axes
  BY DEF Axes

(* Both axes of a fresh form are the strategy's.                           *)
LEMMA FreshAxes ==
  ASSUME NEW t \in StrategyTypes
  PROVE  /\ AxesFor(t) = [x |-> DefaultAxis(t, 1), y |-> DefaultAxis(t, 2)]
         /\ \A i \in {1, 2} : /\ DefaultAxis(t, i) \in Axes
                              /\ DefaultAxis(t, i).param \in ParamsOf(t)
  <1>1. \A i \in {1, 2} : Sweepable[t][i] \in ParamsOf(t)
    <2>1. \A a, b : <<a, b>>[1] = a /\ <<a, b>>[2] = b
      OBVIOUS
    <2>2. \A a, b, c : <<a, b, c>>[1] = a /\ <<a, b, c>>[2] = b
      OBVIOUS
    <2>3. QED
      BY <2>1, <2>2, Strategies, StrategyParams
  <1>2. QED
    BY <1>1, AxisOfStrategy DEF AxesFor, DefaultAxis

LEMMA SwitchedForm ==
  ASSUME NEW t \in StrategyTypes, form \in Forms,
         form' = [form EXCEPT !.type = t, !.x = AxesFor(t).x, !.y = AxesFor(t).y]
  PROVE  form' \in Forms /\ \A a \in {"x", "y"} : form'[a].param \in ParamsOf(form'.type)
  <1>1. /\ form'.type = t /\ form'.x = AxesFor(t).x /\ form'.y = AxesFor(t).y
        /\ form'.x = DefaultAxis(t, 1) /\ form'.y = DefaultAxis(t, 2)
    BY FreshAxes DEF Forms
  <1>2. form' \in Forms
    BY <1>1, FreshAxes DEF Forms
  <1>3. QED
    BY <1>1, <1>2, FreshAxes

LEMMA NewForm ==
  FreshForm \in Forms /\ \A a \in {"x", "y"} : FreshForm[a].param \in ParamsOf(FreshForm.type)
  BY FreshAxes, Strategies DEF FreshForm, Forms

LEMMA BaseSpecType ==
  ASSUME NEW t \in StrategyTypes
  PROVE  BaseSpec(t).type = t
  BY DEF BaseSpec

(* The page's merge is the worker's override.                              *)
LEMMA BestSpecIsCellSpec ==
  \A params, grid :
    BestSpec(params, grid) =
      CellSpec(params.strategy, params.x, params.y, BestCell(grid)[2], BestCell(grid)[1])
  BY DEF BestSpec, CellSpec

(* ------------------------------- requests ------------------------------ *)

Live == {"sent", "answered", "waiting"}

LEMMA RequestFacts ==
  /\ Idle = AsRequest(Idle) /\ Idle.phase = "off" /\ Idle.live = FALSE
  /\ Late = AsRequest(Late) /\ Late.phase = "late" /\ Late.live = FALSE
  /\ \A arg : /\ Sent(arg) = AsRequest(Sent(arg)) /\ Sent(arg).phase = "sent"
              /\ Sent(arg).live = TRUE /\ Sent(arg).arg = arg
  <1>1. Idle = AsRequest(Idle) /\ Idle.phase = "off" /\ Idle.live = FALSE
    BY DEF Idle, AsRequest
  <1>2. Late = [phase |-> "late", live |-> FALSE, arg |-> Null, answer |-> Null]
    <2>1. DOMAIN Idle = {"phase", "live", "arg", "answer"}
      BY DEF Idle
    <2>2. Idle["live"] = FALSE /\ Idle["arg"] = Null /\ Idle["answer"] = Null
      BY DEF Idle
    <2>3. Late = [x \in DOMAIN Idle |-> IF x = "phase" THEN "late" ELSE Idle[x]]
      BY <2>1 DEF Late
    <2>4. QED
      BY <2>1, <2>2, <2>3
  <1>3. Late = AsRequest(Late) /\ Late.phase = "late" /\ Late.live = FALSE
    BY <1>2 DEF AsRequest
  <1>4. ASSUME NEW arg
        PROVE  /\ Sent(arg) = AsRequest(Sent(arg)) /\ Sent(arg).phase = "sent"
               /\ Sent(arg).live = TRUE /\ Sent(arg).arg = arg
    BY DEF Sent, AsRequest
  <1>5. QED
    BY <1>1, <1>3, <1>4

LEMMA AnsweredRequest ==
  ASSUME NEW r, r = AsRequest(r), NEW a
  PROVE  /\ Answered(r, a) = AsRequest(Answered(r, a))
         /\ Answered(r, a).phase = "answered" /\ Answered(r, a).answer = a
         /\ Answered(r, a).live = r.live /\ Answered(r, a).arg = r.arg
  <1> DEFINE q == [phase |-> "answered", live |-> r.live, arg |-> r.arg, answer |-> a]
  <1>1. DOMAIN r = {"phase", "live", "arg", "answer"}
    BY DEF AsRequest
  <1>2. Answered(r, a) = [x \in DOMAIN r |-> IF x = "answer" THEN a
                                            ELSE IF x = "phase" THEN "answered" ELSE r[x]]
    BY <1>1 DEF Answered
  <1>3. Answered(r, a) = q
    BY <1>1, <1>2
  <1>4. q = AsRequest(q)
    BY DEF AsRequest
  <1>5. QED
    BY <1>3, <1>4

LEMMA RearmedRequest ==
  ASSUME NEW r, r = AsRequest(r)
  PROVE  [r EXCEPT !.phase = "waiting", !.answer = Null] =
           [phase |-> "waiting", live |-> r.live, arg |-> r.arg, answer |-> Null]
  <1>1. DOMAIN r = {"phase", "live", "arg", "answer"}
    BY DEF AsRequest
  <1>2. [r EXCEPT !.phase = "waiting", !.answer = Null] =
          [x \in DOMAIN r |-> IF x = "answer" THEN Null ELSE IF x = "phase" THEN "waiting" ELSE r[x]]
    BY <1>1
  <1>3. QED
    BY <1>1, <1>2

(* Sending takes one slot and leaves the others.                           *)
SentOne(after, before, arg) ==
    \E m : \A s \in DOMAIN before : after[s] = IF s = m THEN Sent(arg) ELSE before[s]

LEMMA SentRequest ==
  ASSUME NEW rs, NEW arg
  PROVE  DOMAIN Send(rs, arg) = DOMAIN rs /\ SentOne(Send(rs, arg), rs, arg)
  <1> DEFINE m == Min({s \in DOMAIN rs : rs[s].phase = "off"})
  <1>1. Send(rs, arg) = [rs EXCEPT ![m] = Sent(arg)]
    BY DEF Send
  <1> HIDE DEF m
  <1>2. /\ DOMAIN Send(rs, arg) = DOMAIN rs
        /\ \A s \in DOMAIN rs : Send(rs, arg)[s] = IF s = m THEN Sent(arg) ELSE rs[s]
    BY <1>1
  <1>3. QED
    BY <1>2 DEF SentOne

LEMMA UnmountedRequests ==
  ASSUME NEW rs
  PROVE  /\ DOMAIN Unmounted(rs) = DOMAIN rs
         /\ Unmounted(rs) = [s \in DOMAIN rs |-> Unmounted(rs)[s]]
         /\ \A s \in DOMAIN rs : Unmounted(rs)[s] \in {Late, Idle}
  BY DEF Unmounted

LEMMA DroppedRequests ==
  ASSUME NEW rs
  PROVE  /\ DOMAIN Dropped(rs) = DOMAIN rs
         /\ Dropped(rs) = [s \in DOMAIN rs |-> Dropped(rs)[s]]
         /\ \A s \in DOMAIN rs : Dropped(rs)[s] = Idle
  BY DEF Dropped

LEMMA LeftRequests ==
  ASSUME NEW rs, \A s \in DOMAIN rs : rs[s] = AsRequest(rs[s])
  PROVE  /\ DOMAIN Left(rs) = DOMAIN rs
         /\ \A s \in DOMAIN rs : /\ Left(rs)[s] = AsRequest(Left(rs)[s]) /\ Left(rs)[s].live = FALSE
                                 /\ Left(rs)[s].phase = rs[s].phase /\ Left(rs)[s].arg = rs[s].arg
                                 /\ Left(rs)[s].answer = rs[s].answer
  <1>1. ASSUME NEW s \in DOMAIN rs
        PROVE  Left(rs)[s] = [phase |-> rs[s].phase, live |-> FALSE, arg |-> rs[s].arg,
                              answer |-> rs[s].answer]
    <2>1. DOMAIN rs[s] = {"phase", "live", "arg", "answer"}
      BY DEF AsRequest
    <2>2. Left(rs)[s] = [rs[s] EXCEPT !.live = FALSE]
      BY DEF Left
    <2>3. QED
      BY <2>1, <2>2
  <1>2. DOMAIN Left(rs) = DOMAIN rs
    BY DEF Left
  <1>3. QED
    BY <1>1, <1>2 DEF AsRequest

(* -------------------------------- the jobs ----------------------------- *)

(* Whatever happens, a job keeps its kind, its parameters and its verdict, *)
(* and never waits in the queue again.                                     *)
Grown ==
    /\ DOMAIN jobs \subseteq DOMAIN jobs'
    /\ \A j \in DOMAIN jobs :
          /\ jobs'[j].kind = jobs[j].kind /\ jobs'[j].params = jobs[j].params
          /\ jobs[j].status # "queued" => jobs'[j].status # "queued"
          /\ Finished(j) => /\ jobs'[j].status \in {"completed", "gone"}
                            /\ jobs'[j].result = jobs[j].result

LEMMA FinishedKept ==
  ASSUME Grown, NEW j, Finished(j)
  PROVE  /\ Finished(j)' /\ jobs'[j].result = jobs[j].result
         /\ jobs'[j].kind = jobs[j].kind /\ jobs'[j].params = jobs[j].params
  BY DEF Grown, Finished, Outcomes

LEMMA CarriesKept ==
  ASSUME Grown, NEW j \in DOMAIN jobs, NEW verdict, Carries(verdict, j)
  PROVE  Carries(verdict, j)'
  BY FinishedKept DEF Grown, Carries

LEMMA AskedKept ==
  ASSUME Grown, NEW kind, NEW p, Asked(kind, p)
  PROVE  Asked(kind, p)'
  <1>1. OfBestCell(p) => OfBestCell(p)'
    BY FinishedKept DEF OfBestCell
  <1>2. QED
    BY <1>1 DEF Asked, Runnable

(* What a step leaves alone stays in order although the jobs move on.      *)
LEMMA PostsKept ==
  ASSUME Grown, NEW s \in PostSlots, PostOK(s),
         posts'[s] = AsRequest(posts'[s]), posts'[s].live \in BOOLEAN,
         posts'[s].phase = posts[s].phase, posts'[s].arg = posts[s].arg,
         posts'[s].answer = posts[s].answer
  PROVE  PostOK(s)'
  BY AskedKept DEF PostOK, Grown, AsRequest

LEMMA PollsKept ==
  ASSUME Grown, PageOK, NEW s \in PollSlots, PollOK(s), polls'[s] = polls[s], UNCHANGED page,
         view' = view \/ (view'.job = view.job /\ view'.shown = view.shown)
  PROVE  PollOK(s)'
  <1>1. polls[s].phase = "answered" => polls[s].live
    BY DEF PollOK
  <1>2. polls[s].live => page = "result" /\ view.job \in DOMAIN jobs
    BY DEF PollOK, PageOK
  <1>3. view'.job = view.job /\ view'.shown = view.shown
    OBVIOUS
  <1>4. CASE polls[s].phase = "answered" /\ polls[s].answer.code = "ok"
    <2>1. Carries(polls[s].answer.job, view.job)'
      BY <1>1, <1>2, <1>3, <1>4, CarriesKept DEF PollOK, Carries, Finished
    <2>2. jobs'[view.job].kind = jobs[view.job].kind
      BY <1>1, <1>2, <1>4 DEF Grown
    <2>3. QED
      BY <1>3, <1>4, <2>1, <2>2 DEF PollOK, AsRequest, Verdicts, Endings
  <1>5. CASE ~(polls[s].phase = "answered" /\ polls[s].answer.code = "ok")
    BY <1>3, <1>5 DEF PollOK, AsRequest
  <1>6. QED
    BY <1>4, <1>5

LEMMA LoadsKept ==
  ASSUME Grown, NEW s \in LoadSlots, LoadOK(s), loads'[s] = loads[s], UNCHANGED page
  PROVE  LoadOK(s)'
  BY DEF LoadOK, Grown, AsRequest

LEMMA PageKept ==
  ASSUME Grown, PageOK, UNCHANGED <<page, form, view, list>>
  PROVE  PageOK'
  <1>1. CASE page = "result"
    <2>1. view.job \in DOMAIN jobs /\ view.job \in DOMAIN jobs'
      BY <1>1 DEF PageOK, Grown
    <2>2. jobs'[view.job].kind = jobs[view.job].kind
      BY <2>1 DEF Grown
    <2>3. view.shown # Null => Carries(view.shown, view.job)'
      BY <1>1, <2>1, CarriesKept DEF PageOK
    <2>4. QED
      BY <1>1, <2>1, <2>2, <2>3 DEF PageOK, ResultPages, Verdicts, Endings
  <1>2. CASE page # "result"
    BY <1>2 DEF PageOK, Grown
  <1>3. QED
    BY <1>1, <1>2

LEMMA SameJobs ==
  ASSUME UNCHANGED jobs
  PROVE  /\ Grown
         /\ \A j \in DOMAIN jobs : JobOK(j) => JobOK(j)'
  BY DEF Grown, Finished, JobOK, Asked, OfBestCell, AsJob

(* ------------------------------- the worker ---------------------------- *)

LEMMA ChangedJob ==
  ASSUME Shape, NEW j \in DOMAIN jobs, NEW e, jobs' = [jobs EXCEPT ![j] = e]
  PROVE  /\ jobs' \in Seq({jobs'[k] : k \in DOMAIN jobs'}) /\ Len(jobs') = Len(jobs)
         /\ DOMAIN jobs' = DOMAIN jobs /\ jobs'[j] = e
         /\ \A k \in DOMAIN jobs : k # j => jobs'[k] = jobs[k]
  <1> DEFINE S == {jobs[k] : k \in DOMAIN jobs}
             T == {jobs'[k] : k \in DOMAIN jobs'}
  <1>1. jobs \in Seq(S) /\ DOMAIN jobs = 1 .. Len(jobs) /\ Len(jobs) \in Nat
    BY LenProperties DEF Shape
  <1>2. /\ DOMAIN jobs' = DOMAIN jobs /\ jobs'[j] = e
        /\ \A k \in DOMAIN jobs : k # j => jobs'[k] = jobs[k]
        /\ jobs' = [k \in DOMAIN jobs |-> jobs'[k]]
    BY <1>1
  <1>3. jobs' \in [1 .. Len(jobs) -> T]
    BY <1>1, <1>2
  <1>4. jobs' \in Seq(T) /\ Len(jobs') = Len(jobs)
    <2>1. jobs' \in Seq(T)
      <3> HIDE DEF T
      <3> DEFINE n == Len(jobs)
      <3>1. n \in Nat /\ jobs' \in [1 .. n -> T]
        BY <1>1, <1>3
      <3> HIDE DEF n
      <3>2. jobs' \in UNION {[1 .. m -> T] : m \in Nat}
        BY <3>1
      <3>3. QED
        BY <3>2, SeqDef
    <2>2. 1 .. Len(jobs') = 1 .. Len(jobs) /\ Len(jobs') \in Nat
      BY <1>1, <1>2, <2>1, LenProperties
    <2>3. \A a, b \in Nat : 1 .. a = 1 .. b => a = b
      OBVIOUS
    <2>4. QED
      BY <1>1, <2>1, <2>2, <2>3
  <1>5. QED
    BY <1>2, <1>4

(* The fields of a job, and what changing its status and result leaves.    *)
LEMMA JobFields ==
  ASSUME NEW j, j = AsJob(j), NEW st, NEW r
  PROVE  /\ [j EXCEPT !.status = st] =
                [kind |-> j.kind, params |-> j.params, status |-> st, result |-> j.result]
         /\ [j EXCEPT !.status = st, !.result = r] =
                [kind |-> j.kind, params |-> j.params, status |-> st, result |-> r]
  <1>1. DOMAIN j = {"kind", "params", "status", "result"}
    BY DEF AsJob
  <1>2. [j EXCEPT !.status = st] = [x \in DOMAIN j |-> IF x = "status" THEN st ELSE j[x]]
    BY <1>1
  <1>3. [j EXCEPT !.status = st, !.result = r] =
          [x \in DOMAIN j |-> IF x = "result" THEN r ELSE IF x = "status" THEN st ELSE j[x]]
    BY <1>1
  <1>4. QED
    BY <1>1, <1>2, <1>3

(* What the worker does to one job.                                        *)
Moved(j, e) ==
    /\ e = AsJob(e) /\ e.kind = jobs[j].kind /\ e.params = jobs[j].params
    /\ \/ /\ e.result = jobs[j].result
          /\ \/ jobs[j].status \in {"queued", "failed"} /\ e.status = "running"
             \/ jobs[j].status = "running" /\ e.status = "failed"
             \/ jobs[j].status # "gone" /\ e.status = "gone"
       \/ /\ jobs[j].status = "running" /\ e.status = "completed"
          /\ e.result \in Outcomes(jobs[j])

LEMMA WorkerMoves ==
  ASSUME NEW j \in DOMAIN jobs, jobs[j] = AsJob(jobs[j]),
         RetryJob(j) \/ StartJob(j) \/ FinishJob(j) \/ ExpireJob(j)
  PROVE  \E e : Moved(j, e) /\ jobs' = [jobs EXCEPT ![j] = e]
  <1> DEFINE to(st, r) == [kind |-> jobs[j].kind, params |-> jobs[j].params, status |-> st,
                           result |-> r]
             old == jobs[j].result
  <1>1. \A st, r : /\ [jobs EXCEPT ![j].status = st] = [jobs EXCEPT ![j] = to(st, old)]
                   /\ [jobs EXCEPT ![j].status = st, ![j].result = r] =
                          [jobs EXCEPT ![j] = to(st, r)]
    <2>1. SUFFICES ASSUME NEW st, NEW r
                   PROVE  /\ [jobs EXCEPT ![j].status = st] = [jobs EXCEPT ![j] = to(st, old)]
                          /\ [jobs EXCEPT ![j].status = st, ![j].result = r] =
                                [jobs EXCEPT ![j] = to(st, r)]
      OBVIOUS
    <2>2. /\ [jobs[j] EXCEPT !.status = st] = to(st, old)
          /\ [jobs[j] EXCEPT !.status = st, !.result = r] = to(st, r)
      <3> DEFINE q == jobs[j]
      <3>1. q = AsJob(q)
        OBVIOUS
      <3>2. to(st, old) = [kind |-> q.kind, params |-> q.params, status |-> st, result |-> q.result]
        OBVIOUS
      <3>3. to(st, r) = [kind |-> q.kind, params |-> q.params, status |-> st, result |-> r]
        OBVIOUS
      <3> HIDE DEF q, to, old
      <3>4. /\ [q EXCEPT !.status = st] = to(st, old)
            /\ [q EXCEPT !.status = st, !.result = r] = to(st, r)
        BY <3>1, <3>2, <3>3, JobFields
      <3>5. QED
        BY <3>4 DEF q
    <2>3. [[jobs[j] EXCEPT !.status = st] EXCEPT !.result = r] = to(st, r)
      BY <2>2
    <2>4. [jobs EXCEPT ![j].status = st] = [jobs EXCEPT ![j] = [jobs[j] EXCEPT !.status = st]]
      OBVIOUS
    <2>5. [jobs EXCEPT ![j].status = st, ![j].result = r] =
            [jobs EXCEPT ![j] = [[jobs[j] EXCEPT !.status = st] EXCEPT !.result = r]]
      OBVIOUS
    <2>6. QED
      BY <2>2, <2>3, <2>4, <2>5
  <1>2. \A st, r : /\ to(st, r) = AsJob(to(st, r)) /\ to(st, r).kind = jobs[j].kind
                   /\ to(st, r).params = jobs[j].params /\ to(st, r).status = st
                   /\ to(st, r).result = r
    BY DEF AsJob
  <1> HIDE DEF to, old
  <1>3. CASE RetryJob(j)
    <2>1. jobs' = [jobs EXCEPT ![j] = to("running", old)] /\ jobs[j].status = "failed"
      BY <1>1, <1>3 DEF RetryJob
    <2>2. Moved(j, to("running", old))
      BY <1>2, <2>1 DEF Moved, old
    <2>3. QED
      BY <2>1, <2>2
  <1>4. CASE StartJob(j)
    <2>1. jobs' = [jobs EXCEPT ![j] = to("running", old)] /\ jobs[j].status = "queued"
      BY <1>1, <1>4 DEF StartJob
    <2>2. Moved(j, to("running", old))
      BY <1>2, <2>1 DEF Moved, old
    <2>3. QED
      BY <2>1, <2>2
  <1>5. CASE ExpireJob(j)
    <2>1. jobs' = [jobs EXCEPT ![j] = to("gone", old)] /\ jobs[j].status # "gone"
      BY <1>1, <1>5 DEF ExpireJob
    <2>2. Moved(j, to("gone", old))
      BY <1>2, <2>1, SMTT(30) DEF Moved, old
    <2>3. QED
      BY <2>1, <2>2
  <1>6. CASE FinishJob(j)
    <2>1. CASE jobs' = [jobs EXCEPT ![j].status = "failed"]
      <3>1. jobs' = [jobs EXCEPT ![j] = to("failed", old)] /\ jobs[j].status = "running"
        BY <1>1, <1>6, <2>1 DEF FinishJob
      <3>2. Moved(j, to("failed", old))
        BY <1>2, <3>1 DEF Moved, old
      <3>3. QED
        BY <3>1, <3>2
    <2>2. ASSUME NEW r \in Outcomes(jobs[j]),
                 jobs' = [jobs EXCEPT ![j].status = "completed", ![j].result = r]
          PROVE  \E e : Moved(j, e) /\ jobs' = [jobs EXCEPT ![j] = e]
      <3>1. jobs' = [jobs EXCEPT ![j] = to("completed", r)] /\ jobs[j].status = "running"
        <4>1. [jobs EXCEPT ![j].status = "completed", ![j].result = r] =
                 [jobs EXCEPT ![j] = to("completed", r)]
          BY <1>1, ZenonT(40)
        <4>2. jobs[j].status = "running"
          BY <1>6 DEF FinishJob
        <4>3. QED
          BY <2>2, <4>1, <4>2
      <3>2. Moved(j, to("completed", r))
        BY <1>2, <2>2, <3>1 DEF Moved
      <3>3. QED
        BY <3>1, <3>2
    <2>3. QED
      BY <1>6, <2>1, <2>2 DEF FinishJob
  <1>7. QED
    BY <1>3, <1>4, <1>5, <1>6

LEMMA WorkerJobs ==
  ASSUME Shape, \A j \in DOMAIN jobs : JobOK(j), NEW j \in DOMAIN jobs, NEW e, Moved(j, e),
         jobs' = [jobs EXCEPT ![j] = e]
  PROVE  Grown /\ \A k \in DOMAIN jobs' : JobOK(k)'
  <1>1. /\ DOMAIN jobs' = DOMAIN jobs /\ jobs'[j] = e
        /\ \A k \in DOMAIN jobs : k # j => jobs'[k] = jobs[k]
    BY ChangedJob
  <1>2. /\ jobs'[j].kind = jobs[j].kind /\ jobs'[j].params = jobs[j].params
        /\ jobs'[j] = AsJob(jobs'[j])
    BY <1>1 DEF Moved
  <1>3. Grown
    BY <1>1, <1>2 DEF Grown, Finished, Moved
  <1>4. ASSUME NEW k \in DOMAIN jobs
        PROVE  JobOK(k)'
    <2>1. Asked(jobs[k].kind, jobs[k].params) /\ JobOK(k)
      BY DEF JobOK
    <2>2. /\ Asked(jobs[k].kind, jobs[k].params)'
          /\ jobs'[k].kind = "sweep" => Valid("sweep", jobs'[k].params)
      <3>1. Asked(jobs'[k].kind, jobs'[k].params)
        BY <1>3, <2>1 DEF Grown
      <3>2. QED
        BY <1>1, <1>2, <1>3, <2>1, AskedKept DEF JobOK, Valid
    <2>3. CASE k # j
      <3>1. jobs'[k] = jobs[k]
        BY <1>1, <2>3
      <3>2. Finished(k) => Finished(k)'
        BY <1>3, FinishedKept
      <3>3. QED
        BY <2>1, <2>2, <3>1, <3>2 DEF JobOK, AsJob
    <2>4. CASE k = j
      <3>1. Outcomes(jobs[j])' = Outcomes(jobs[j])
        BY <1>1, <1>2, ZenonT(40) DEF Outcomes
      <3>2. Outcomes(jobs[j]) \subseteq Endings(jobs[j].kind)
        BY DEF Outcomes, Endings
      <3>3. jobs'[j].status = "completed" => Finished(j)'
        BY <1>1, <3>1, FinishedKept DEF Moved, Finished
      <3>4. jobs'[j].status \in Statuses /\ jobs'[j].result \in Endings(jobs'[j].kind)
        BY <1>1, <1>2, <2>1, <2>4, <3>2 DEF Moved, JobOK, Statuses
      <3>5. QED
        BY <1>2, <2>2, <2>4, <3>3, <3>4 DEF JobOK, AsJob
    <2>5. QED
      BY <2>3, <2>4
  <1>5. QED
    BY <1>1, <1>3, <1>4

LEMMA WorkerStep ==
  ASSUME StudiesInv, Worker
  PROVE  StudiesInv'
  <1>1. /\ UNCHANGED <<page, form, view, list, polls, loads, posts, clicks, visits>>
        /\ \E j \in DOMAIN jobs : RetryJob(j) \/ StartJob(j) \/ FinishJob(j) \/ ExpireJob(j)
        /\ faults' = faults \/ (faults < MaxFaults /\ faults' = faults + 1)
    BY DEF Worker, RetryJob, Faulty
  <1>2. PICK j \in DOMAIN jobs : RetryJob(j) \/ StartJob(j) \/ FinishJob(j) \/ ExpireJob(j)
    BY <1>1
  <1>3. jobs[j] = AsJob(jobs[j])
    BY DEF StudiesInv, JobOK
  <1>4. PICK e : Moved(j, e) /\ jobs' = [jobs EXCEPT ![j] = e]
    BY <1>2, <1>3, WorkerMoves
  <1>5. Grown /\ \A k \in DOMAIN jobs' : JobOK(k)'
    BY <1>4, WorkerJobs DEF StudiesInv
  <1>6. jobs' \in Seq({jobs'[k] : k \in DOMAIN jobs'}) /\ Len(jobs') = Len(jobs)
    BY <1>4, ChangedJob DEF StudiesInv
  <1>7. faults' \in 0 .. MaxFaults
    BY <1>1, StudiesConstants, SMTT(30) DEF StudiesInv, Shape
  <1>8. Shape'
    BY <1>1, <1>6, <1>7 DEF StudiesInv, Shape
  <1>9. PageOK'
    BY <1>1, <1>5, PageKept DEF StudiesInv
  <1>10. \A s \in PostSlots : PostOK(s)'
    BY <1>1, <1>5, PostsKept DEF StudiesInv, PostOK
  <1>11. \A s \in PollSlots : PollOK(s)'
    BY <1>1, <1>5, PollsKept DEF StudiesInv
  <1>12. \A s \in LoadSlots : LoadOK(s)'
    BY <1>1, <1>5, LoadsKept DEF StudiesInv
  <1>13. SentPosts' = SentPosts
    BY <1>1 DEF SentPosts
  <1>14. QED
    BY <1>1, <1>5, <1>6, <1>8, <1>9, <1>10, <1>11, <1>12, <1>13 DEF StudiesInv

(* ------------------------ answers of the server ------------------------ *)

LEMMA AppendedJob ==
  ASSUME Shape, NEW e, jobs' = Append(jobs, e)
  PROVE  /\ jobs' \in Seq({jobs'[k] : k \in DOMAIN jobs'})
         /\ Len(jobs) \in Nat /\ Len(jobs') = Len(jobs) + 1
         /\ DOMAIN jobs = 1 .. Len(jobs) /\ DOMAIN jobs' = 1 .. (Len(jobs) + 1)
         /\ jobs'[Len(jobs) + 1] = e /\ \A k \in DOMAIN jobs : jobs'[k] = jobs[k]
  <1> DEFINE S == {jobs[k] : k \in DOMAIN jobs} \cup {e}
             T == {jobs'[k] : k \in DOMAIN jobs'}
             n == Len(jobs)
  <1>1. jobs \in Seq(S)
    BY SeqMonotonic DEF Shape
  <1>2. DOMAIN jobs = 1 .. n /\ n \in Nat
    BY <1>1, LenProperties
  <1>3. /\ jobs' \in Seq(S) /\ Len(jobs') = n + 1
        /\ \A k \in 1 .. n : jobs'[k] = jobs[k]
        /\ jobs'[n + 1] = e
    BY <1>1, AppendProperties
  <1>4. DOMAIN jobs' = 1 .. (n + 1) /\ jobs' = [k \in 1 .. (n + 1) |-> jobs'[k]]
    BY <1>3, LenProperties
  <1>5. jobs' \in Seq(T)
    <2> DEFINE m == n + 1
    <2>1. m \in Nat /\ jobs' \in [1 .. m -> T]
      BY <1>2, <1>4
    <2> HIDE DEF m, T
    <2>2. jobs' \in UNION {[1 .. l -> T] : l \in Nat}
      BY <2>1
    <2>3. QED
      BY <2>2, SeqDef
  <1>6. QED
    BY <1>2, <1>3, <1>4, <1>5

LEMMA AcceptedJob ==
  ASSUME Shape, \A j \in DOMAIN jobs : JobOK(j), NEW kind, NEW p, Asked(kind, p), Valid(kind, p),
         jobs' = Append(jobs, NewJob(kind, p))
  PROVE  Grown /\ \A j \in DOMAIN jobs' : JobOK(j)'
  <1> DEFINE e == NewJob(kind, p)
             n == Len(jobs)
  <1>1. /\ n \in Nat /\ DOMAIN jobs = 1 .. n /\ DOMAIN jobs' = 1 .. (n + 1)
        /\ jobs'[n + 1] = e /\ \A k \in DOMAIN jobs : jobs'[k] = jobs[k]
    BY AppendedJob
  <1> HIDE DEF n, e
  <1>2. /\ \A k \in 1 .. (n + 1) : k = n + 1 \/ k \in 1 .. n
        /\ 1 .. n \subseteq 1 .. (n + 1)
    BY <1>1
  <1>3. Grown
    BY <1>1, <1>2 DEF Grown, Finished
  <1>4. ASSUME NEW k \in 1 .. n
        PROVE  JobOK(k)'
    <2>1. jobs'[k] = jobs[k] /\ JobOK(k) /\ k \in DOMAIN jobs
      BY <1>1
    <2>2. Finished(k) => Finished(k)'
      BY <1>3, FinishedKept
    <2>3. Asked(jobs[k].kind, jobs[k].params)'
      BY <1>3, <2>1, AskedKept DEF JobOK
    <2>4. QED
      BY <2>1, <2>2, <2>3 DEF JobOK, AsJob
  <1>5. ASSUME NEW k, k = n + 1
        PROVE  JobOK(k)'
    <2>1. /\ e = AsJob(e) /\ e.kind = kind /\ e.params = p /\ e.status = "queued"
          /\ e.result = Null
      BY DEF NewJob, AsJob, e
    <2>2. Asked(kind, p)'
      BY <1>3, AskedKept
    <2>3. QED
      BY <1>1, <1>5, <2>1, <2>2 DEF JobOK, AsJob, Endings, Statuses, Valid
  <1>6. ASSUME NEW k \in DOMAIN jobs'
        PROVE  JobOK(k)'
    BY <1>1, <1>2, <1>4, <1>5, <1>6
  <1>7. QED
    BY <1>3, <1>6

LEMMA AnswerPostStep ==
  ASSUME StudiesInv, NEW s \in PostSlots, AnswerPost(s)
  PROVE  StudiesInv'
  <1> DEFINE r == posts[s]
             n == Len(jobs)
  <1>1. /\ r = AsRequest(r) /\ r.live \in BOOLEAN /\ r.phase = "sent"
        /\ Asked(r.arg.kind, r.arg.params) /\ Shape /\ PageOK
        /\ DOMAIN posts = PostSlots
    BY DEF StudiesInv, PostOK, AnswerPost, Shape
  <1>2. /\ UNCHANGED <<page, form, view, list, polls, loads, clicks, visits>>
        /\ faults' = faults \/ (faults < MaxFaults /\ faults' = faults + 1)
        /\ \/ UNCHANGED jobs
           \/ /\ n < MaxJobs /\ Valid(r.arg.kind, r.arg.params)
              /\ jobs' = Append(jobs, NewJob(r.arg.kind, r.arg.params))
    BY DEF AnswerPost, Faulty, Accepted
  <1>3. PICK a : /\ posts' = [posts EXCEPT ![s] = Answered(r, a)]
                 /\ a.code = "ok" => /\ a.job = n + 1
                                     /\ jobs' = Append(jobs, NewJob(r.arg.kind, r.arg.params))
    BY DEF AnswerPost, Accepted, Failure
  <1>4. /\ n \in Nat /\ DOMAIN jobs = 1 .. n
    BY <1>1, LenProperties DEF Shape
  <1>5. /\ Grown /\ \A j \in DOMAIN jobs' : JobOK(j)'
        /\ jobs' \in Seq({jobs'[k] : k \in DOMAIN jobs'}) /\ Len(jobs') <= MaxJobs
        /\ Len(jobs') \in {n, n + 1}
        /\ jobs' = Append(jobs, NewJob(r.arg.kind, r.arg.params)) => DOMAIN jobs' = 1 .. (n + 1)
    <2>1. CASE UNCHANGED jobs
      <3>1. Grown /\ \A j \in DOMAIN jobs : JobOK(j)'
        BY <2>1, SameJobs DEF StudiesInv
      <3>2. Len(jobs') = n /\ n <= MaxJobs /\ DOMAIN jobs' = DOMAIN jobs
        BY <1>1, <2>1 DEF Shape
      <3>3. jobs' \in Seq({jobs'[k] : k \in DOMAIN jobs'})
        BY <1>1, <2>1 DEF Shape
      <3>4. QED
        BY <1>1, <3>1, <3>2, <3>3, AppendedJob, Zenon
    <2>2. CASE /\ n < MaxJobs /\ Valid(r.arg.kind, r.arg.params)
               /\ jobs' = Append(jobs, NewJob(r.arg.kind, r.arg.params))
      <3>1. Grown /\ \A j \in DOMAIN jobs' : JobOK(j)'
        BY <1>1, <2>2, AcceptedJob DEF StudiesInv
      <3>2. /\ Len(jobs') = n + 1 /\ jobs' \in Seq({jobs'[k] : k \in DOMAIN jobs'})
            /\ DOMAIN jobs' = 1 .. (n + 1)
        BY <1>1, <2>2, AppendedJob
      <3>3. n + 1 <= MaxJobs
        BY <1>4, <2>2, StudiesConstants
      <3>4. QED
        BY <3>1, <3>2, <3>3
    <2>3. QED
      BY <1>2, <2>1, <2>2
  <1>6. /\ DOMAIN posts' = PostSlots /\ posts'[s] = Answered(r, a)
        /\ \A t \in PostSlots : t # s => posts'[t] = posts[t]
    BY <1>1, <1>3
  <1>7. /\ posts'[s] = AsRequest(posts'[s]) /\ posts'[s].phase = "answered"
        /\ posts'[s].answer = a /\ posts'[s].live = r.live
    BY <1>1, <1>6, AnsweredRequest
  <1>8. Shape'
    <2>1. faults' \in 0 .. MaxFaults
      BY <1>1, <1>2, StudiesConstants DEF Shape
    <2>2. QED
      BY <1>1, <1>2, <1>5, <1>6, <2>1 DEF Shape
  <1>9. PageOK'
    BY <1>1, <1>2, <1>5, PageKept
  <1>10. \A t \in PollSlots : PollOK(t)'
    BY <1>1, <1>2, <1>5, PollsKept DEF StudiesInv
  <1>11. \A t \in LoadSlots : LoadOK(t)'
    BY <1>2, <1>5, LoadsKept DEF StudiesInv
  <1>12. ASSUME NEW t \in PostSlots
         PROVE  PostOK(t)'
    <2>1. CASE t # s
      BY <1>5, <1>6, <2>1, PostsKept DEF StudiesInv, PostOK
    <2>2. CASE t = s
      <3>1. a.code = "ok" => a.job \in DOMAIN jobs'
        <4>1. n + 1 \in 1 .. (n + 1)
          BY <1>4
        <4> HIDE DEF n
        <4>2. QED
          BY <1>3, <1>5, <4>1
      <3>2. QED
        BY <1>1, <1>7, <2>2, <3>1 DEF PostOK, AsRequest
    <2>3. QED
      BY <2>1, <2>2
  <1>13. IsFiniteSet(SentPosts') /\ Len(jobs') + Cardinality(SentPosts') <= clicks'
    <2>1. s \in SentPosts /\ SentPosts' = SentPosts \ {s}
      BY <1>1, <1>6, <1>7 DEF SentPosts
    <2>2. IsFiniteSet(SentPosts) /\ n + Cardinality(SentPosts) <= clicks /\ clicks \in Nat
      BY <1>1, StudiesConstants DEF StudiesInv, Shape
    <2>3. /\ IsFiniteSet(SentPosts \ {s}) /\ Cardinality(SentPosts \ {s}) = Cardinality(SentPosts) - 1
          /\ Cardinality(SentPosts) \in Nat
      BY <2>1, <2>2, FS_RemoveElement, FS_CardinalityType
    <2>4. QED
      BY <1>2, <1>4, <1>5, <2>1, <2>2, <2>3
  <1>14. QED
    BY <1>2, <1>5, <1>8, <1>9, <1>10, <1>11, <1>12, <1>13 DEF StudiesInv

(* ---------------------------- opening a page --------------------------- *)

LEMMA QuietPoll ==
  ASSUME NEW s \in PollSlots, polls'[s] \in {Late, Idle}
  PROVE  PollOK(s)' /\ ~polls'[s].live
  <1>1. /\ polls'[s].phase \in {"late", "off"} /\ polls'[s].live = FALSE
        /\ polls'[s] = AsRequest(polls'[s])
    <2>1. CASE polls'[s] = Late
      BY <2>1, RequestFacts
    <2>2. CASE polls'[s] = Idle
      BY <2>2, RequestFacts
    <2>3. QED
      BY <2>1, <2>2
  <1>2. ~polls'[s].live /\ polls'[s].live = (polls'[s].phase \in {"sent", "answered", "waiting"})
    <2>1. (polls'[s].phase \in {"sent", "answered", "waiting"}) = FALSE
      BY <1>1
    <2>2. polls'[s].live = FALSE
      BY <1>1
    <2>3. QED
      BY <2>1, <2>2, Zenon
  <1>3. QED
    BY <1>1, <1>2 DEF PollOK, AsRequest

LEMMA NewPoll ==
  ASSUME NEW s \in PollSlots, NEW j, polls'[s] = Sent(j), page' = "result", view'.job = j,
         view'.shown = Null
  PROVE  PollOK(s)'
  BY RequestFacts, ZenonT(40) DEF PollOK, AsRequest

(* At most the new chain of polls is live.                                 *)
OnePoll == \A s, t \in PollSlots : polls[s].live /\ polls[t].live => s = t

LEMMA MountedPolls ==
  ASSUME DOMAIN polls = PollSlots, NEW j, polls' = Send(Unmounted(polls), j),
         page' = "result", view'.job = j, view'.shown = Null
  PROVE  DOMAIN polls' = PollSlots /\ (\A s \in PollSlots : PollOK(s)') /\ OnePoll'
  <1> DEFINE rs == Unmounted(polls)
  <1>1. /\ DOMAIN rs = PollSlots /\ rs = [s \in DOMAIN rs |-> rs[s]]
        /\ \A s \in PollSlots : rs[s] \in {Late, Idle}
    BY UnmountedRequests
  <1> HIDE DEF rs
  <1>2. PICK m : \A s \in PollSlots : polls'[s] = IF s = m THEN Sent(j) ELSE rs[s]
    BY <1>1, SentRequest DEF rs, SentOne
  <1>3. \A s \in PollSlots : s # m => PollOK(s)' /\ ~polls'[s].live
    BY <1>1, <1>2, QuietPoll
  <1>4. \A s \in PollSlots : s = m => PollOK(s)'
    BY <1>2, NewPoll
  <1>5. DOMAIN polls' = PollSlots
    BY <1>1, SentRequest DEF rs
  <1>6. QED
    BY <1>3, <1>4, <1>5 DEF OnePoll

LEMMA UnmountedPolls ==
  ASSUME DOMAIN polls = PollSlots, polls' = Unmounted(polls)
  PROVE  DOMAIN polls' = PollSlots /\ (\A s \in PollSlots : PollOK(s)') /\ OnePoll'
  <1>1. DOMAIN polls' = PollSlots /\ \A s \in PollSlots : polls'[s] \in {Late, Idle}
    BY UnmountedRequests
  <1>2. \A s \in PollSlots : PollOK(s)' /\ ~polls'[s].live
    BY <1>1, QuietPoll
  <1>3. QED
    BY <1>1, <1>2 DEF OnePoll

LEMMA IdleLoad ==
  ASSUME NEW s \in LoadSlots, loads'[s] = Idle
  PROVE  LoadOK(s)'
  BY RequestFacts DEF LoadOK, AsRequest

LEMMA DroppedLoads ==
  ASSUME DOMAIN loads = LoadSlots, loads' = Dropped(loads)
  PROVE  DOMAIN loads' = LoadSlots /\ \A s \in LoadSlots : LoadOK(s)'
  BY DroppedRequests, IdleLoad

LEMMA SentLoads ==
  ASSUME NEW rs, DOMAIN rs = LoadSlots,
         loads' = Send(rs, Null), page' = "list",
         \A s \in LoadSlots : loads'[s] = rs[s] => LoadOK(s)'
  PROVE  DOMAIN loads' = LoadSlots /\ \A s \in LoadSlots : LoadOK(s)'
  <1>1. PICK m : \A s \in LoadSlots : loads'[s] = IF s = m THEN Sent(Null) ELSE rs[s]
    <2>1. SentOne(loads', rs, Null)
      BY SentRequest
    <2>2. QED
      BY <2>1 DEF SentOne
  <1>2. ASSUME NEW s \in LoadSlots, s = m
        PROVE  LoadOK(s)'
    <2>1. loads'[s] = Sent(Null)
      BY <1>1, <1>2
    <2>2. /\ loads'[s] = AsRequest(loads'[s]) /\ loads'[s].phase = "sent"
          /\ loads'[s].live = TRUE
      BY <2>1, RequestFacts
    <2>3. QED
      BY <2>2 DEF LoadOK, AsRequest
  <1>3. DOMAIN loads' = LoadSlots
    BY SentRequest
  <1>4. QED
    BY <1>1, <1>2, <1>3

LEMMA FreshViewOK ==
  ASSUME NEW j \in DOMAIN jobs, Shape, JobOK(j)
  PROVE  /\ FreshView(j) \in ResultPages(jobs[j].kind)
         /\ FreshView(j).job = j /\ FreshView(j).shown = Null
  <1>1. j \in JobIds
    <2>1. j \in 1 .. Len(jobs) /\ Len(jobs) \in Nat /\ Len(jobs) <= MaxJobs /\ MaxJobs \in Nat
      BY LenProperties, StudiesConstants DEF Shape
    <2>2. QED
      BY <2>1 DEF JobIds
  <1>2. "net_pnl" \in Metrics
    BY DEF Metrics, HigherIsBetter
  <1>3. QED
    BY <1>1, <1>2 DEF FreshView, ResultPages

LEMMA Opened ==
  ASSUME StudiesInv, UNCHANGED jobs,
         OpenForm \/ OpenList \/ \E j \in DOMAIN jobs : OpenResult(j)
  PROVE  /\ PageOK' /\ OnePoll'
         /\ DOMAIN polls' = PollSlots /\ \A s \in PollSlots : PollOK(s)'
         /\ DOMAIN loads' = LoadSlots /\ \A s \in LoadSlots : LoadOK(s)'
  <1>1. DOMAIN polls = PollSlots /\ DOMAIN loads = LoadSlots
    BY DEF StudiesInv, Shape
  <1>2. CASE OpenForm
    <2>1. /\ page' = "form" /\ form' = FreshForm /\ view' = Null /\ list' = Null
          /\ polls' = Unmounted(polls) /\ loads' = Dropped(loads)
      BY <1>2 DEF OpenForm
    <2>2. PageOK'
      BY <2>1, NewForm DEF PageOK
    <2>3. QED
      BY <1>1, <2>1, <2>2, UnmountedPolls, DroppedLoads
  <1>3. CASE OpenList
    <2>1. /\ page' = "list" /\ list' = FreshList /\ form' = Null /\ view' = Null
          /\ polls' = Unmounted(polls) /\ loads' = Send(Dropped(loads), Null)
      BY <1>3 DEF OpenList
    <2>2. FreshList \in ListPages /\ DOMAIN FreshList.rows = {}
      <3>1. <<>> \in [{} -> Statuses] /\ DOMAIN <<>> = {} /\ {} \in SUBSET JobIds
        OBVIOUS
      <3>2. QED
        BY <3>1 DEF FreshList, ListPages
    <2>3. PageOK'
      BY <2>1, <2>2 DEF PageOK
    <2>4. /\ DOMAIN Dropped(loads) = LoadSlots
          /\ Dropped(loads) = [s \in DOMAIN Dropped(loads) |-> Dropped(loads)[s]]
          /\ \A s \in LoadSlots : Dropped(loads)[s] = Idle
      BY <1>1, DroppedRequests
    <2>5. \A s \in LoadSlots : loads'[s] = Dropped(loads)[s] => LoadOK(s)'
      BY <2>4, IdleLoad
    <2>6. DOMAIN loads' = LoadSlots /\ \A s \in LoadSlots : LoadOK(s)'
      BY <2>1, <2>4, <2>5, SentLoads
    <2>7. QED
      BY <1>1, <2>1, <2>3, <2>6, UnmountedPolls
  <1>4. ASSUME NEW j \in DOMAIN jobs, OpenResult(j)
        PROVE  /\ PageOK' /\ OnePoll'
               /\ DOMAIN polls' = PollSlots /\ \A s \in PollSlots : PollOK(s)'
               /\ DOMAIN loads' = LoadSlots /\ \A s \in LoadSlots : LoadOK(s)'
    <2>1. /\ page' = "result" /\ view' = FreshView(j) /\ form' = Null /\ list' = Null
          /\ polls' = Send(Unmounted(polls), j) /\ loads' = Dropped(loads)
      BY <1>4 DEF OpenResult
    <2>2. /\ view' \in ResultPages(jobs[j].kind) /\ view'.job = j /\ view'.shown = Null
      BY <2>1, FreshViewOK DEF StudiesInv
    <2>3. PageOK'
      BY <2>1, <2>2 DEF PageOK, ResultPages, Verdicts, Endings
    <2>4. QED
      BY <1>1, <2>1, <2>2, <2>3, MountedPolls, DroppedLoads
  <1>5. QED
    BY <1>2, <1>3, <1>4

(* --------------------------- steps of the pages ------------------------ *)

LEMMA JobsRest ==
  ASSUME StudiesInv, UNCHANGED jobs
  PROVE  /\ Grown /\ \A j \in DOMAIN jobs' : JobOK(j)'
         /\ jobs' \in Seq({jobs'[j] : j \in DOMAIN jobs'}) /\ Len(jobs') <= MaxJobs
  <1>1. Grown /\ \A j \in DOMAIN jobs : JobOK(j)'
    BY SameJobs DEF StudiesInv
  <1>2. jobs \in Seq({jobs[j] : j \in DOMAIN jobs}) /\ Len(jobs) <= MaxJobs
    BY DEF StudiesInv, Shape
  <1>3. QED
    BY <1>1, <1>2

LEMMA PostsRest ==
  ASSUME StudiesInv, UNCHANGED jobs, posts' = posts \/ posts' = Left(posts)
  PROVE  /\ DOMAIN posts' = PostSlots /\ (\A s \in PostSlots : PostOK(s)')
         /\ SentPosts' = SentPosts
  <1>1. DOMAIN posts = PostSlots /\ \A s \in PostSlots : PostOK(s)
    BY DEF StudiesInv, Shape
  <1>2. \A s \in PostSlots : posts[s] = AsRequest(posts[s]) /\ posts[s].live \in BOOLEAN
    BY <1>1 DEF PostOK
  <1>3. /\ DOMAIN posts' = PostSlots
        /\ \A s \in PostSlots : /\ posts'[s] = AsRequest(posts'[s]) /\ posts'[s].live \in BOOLEAN
                                /\ posts'[s].phase = posts[s].phase /\ posts'[s].arg = posts[s].arg
                                /\ posts'[s].answer = posts[s].answer
    <2>1. CASE posts' = posts
      BY <1>1, <1>2, <2>1
    <2>2. CASE posts' = Left(posts)
      BY <1>1, <1>2, <2>2, LeftRequests, ZenonT(40)
    <2>3. QED
      BY <2>1, <2>2
  <1>4. \A s \in PostSlots : PostOK(s)'
    BY <1>1, <1>3, JobsRest, PostsKept
  <1>5. QED
    BY <1>3, <1>4 DEF SentPosts

LEMMA PageStep ==
  ASSUME StudiesInv, UNCHANGED jobs, PageOK', OnePoll',
         DOMAIN polls' = PollSlots, \A s \in PollSlots : PollOK(s)',
         DOMAIN loads' = LoadSlots, \A s \in LoadSlots : LoadOK(s)',
         DOMAIN posts' = PostSlots, \A s \in PostSlots : PostOK(s)',
         clicks' \in 0 .. MaxClicks, faults' \in 0 .. MaxFaults, visits' \in 0 .. MaxVisits,
         IsFiniteSet(SentPosts'), Len(jobs) + Cardinality(SentPosts') <= clicks'
  PROVE  StudiesInv'
  <1>1. Shape'
    BY JobsRest DEF Shape
  <1>2. \A j \in DOMAIN jobs' : JobOK(j)'
    BY JobsRest
  <1>3. QED
    BY <1>1, <1>2 DEF StudiesInv, OnePoll

(* Steps that send nothing.                                                *)
LEMMA QuietStep ==
  ASSUME StudiesInv, UNCHANGED <<jobs, clicks>>, PageOK', OnePoll',
         DOMAIN polls' = PollSlots, \A s \in PollSlots : PollOK(s)',
         DOMAIN loads' = LoadSlots, \A s \in LoadSlots : LoadOK(s)',
         posts' = posts \/ posts' = Left(posts),
         faults' = faults \/ Faulty, visits' = visits \/ (visits < MaxVisits /\ visits' = visits + 1)
  PROVE  StudiesInv'
  <1>1. /\ DOMAIN posts' = PostSlots /\ (\A s \in PostSlots : PostOK(s)')
        /\ SentPosts' = SentPosts
    BY PostsRest
  <1>2. faults' \in 0 .. MaxFaults /\ visits' \in 0 .. MaxVisits /\ clicks' \in 0 .. MaxClicks
    BY StudiesConstants DEF StudiesInv, Shape, Faulty
  <1>3. IsFiniteSet(SentPosts) /\ Len(jobs) + Cardinality(SentPosts) <= clicks
    BY DEF StudiesInv
  <1>4. QED
    BY <1>1, <1>2, <1>3, PageStep

LEMMA PollsRest ==
  ASSUME StudiesInv, UNCHANGED <<jobs, polls, page>>,
         view' = view \/ (view'.job = view.job /\ view'.shown = view.shown)
  PROVE  DOMAIN polls' = PollSlots /\ (\A s \in PollSlots : PollOK(s)') /\ OnePoll'
  BY JobsRest, PollsKept DEF StudiesInv, Shape, OnePoll

LEMMA LoadsRest ==
  ASSUME StudiesInv, UNCHANGED <<jobs, loads, page>>
  PROVE  DOMAIN loads' = LoadSlots /\ \A s \in LoadSlots : LoadOK(s)'
  BY JobsRest, LoadsKept DEF StudiesInv, Shape

LEMMA PageRest ==
  ASSUME StudiesInv, UNCHANGED <<jobs, page, form, view, list>>
  PROVE  PageOK'
  BY JobsRest, PageKept DEF StudiesInv

(* A result page that takes an answer, or whose state is touched.          *)
LEMMA ViewMoves ==
  ASSUME StudiesInv, page = "result", UNCHANGED <<jobs, page, form, list>>,
         view' \in ResultPages(jobs[view.job].kind), view'.job = view.job,
         view'.shown # Null => Carries(view'.shown, view.job)
  PROVE  PageOK'
  <1>1. view.job \in DOMAIN jobs /\ form = Null /\ list = Null
    BY DEF StudiesInv, PageOK
  <1>2. view'.shown # Null => Carries(view.shown, view.job)'
    <2>1. SUFFICES ASSUME view'.shown # Null
                   PROVE  Carries(view.shown, view.job)'
      OBVIOUS
    <2>2. Carries(view'.shown, view.job)
      BY <2>1
    <2>3. QED
      BY <2>2 DEF Carries, Finished, Outcomes
  <1>3. view' \in ResultPages(jobs'[view'.job].kind)
    BY DEF ResultPages, Verdicts, Endings
  <1>4. QED
    BY <1>1, <1>2, <1>3 DEF PageOK

(* A poll that is not live does not depend on anything.                    *)
LEMMA DeadPoll ==
  ASSUME NEW s \in PollSlots, PollOK(s), ~polls[s].live, polls'[s] = polls[s]
  PROVE  PollOK(s)' /\ ~polls'[s].live
  <1>1. polls[s].phase \notin {"sent", "answered", "waiting"}
    BY DEF PollOK
  <1>2. QED
    BY <1>1 DEF PollOK, AsRequest

(* One chain moves on, and the others are as dead as before.               *)
LEMMA OneChain ==
  ASSUME StudiesInv, NEW s \in PollSlots, polls[s].live, NEW e, polls' = [polls EXCEPT ![s] = e],
         ASSUME polls'[s] = e PROVE PollOK(s)'
  PROVE  DOMAIN polls' = PollSlots /\ (\A t \in PollSlots : PollOK(t)') /\ OnePoll'
  <1>1. /\ DOMAIN polls' = PollSlots /\ polls'[s] = e
        /\ \A t \in PollSlots : t # s => polls'[t] = polls[t]
    BY DEF StudiesInv, Shape
  <1>2. \A t \in PollSlots : PollOK(t) /\ (t # s => ~polls[t].live)
    BY DEF StudiesInv
  <1>3. \A t \in PollSlots : t # s => PollOK(t)' /\ ~polls'[t].live
    BY <1>1, <1>2, DeadPoll
  <1>4. PollOK(s)'
    BY <1>1
  <1>5. QED
    BY <1>1, <1>3, <1>4 DEF OnePoll

(* The answer is what the job is now, and what the page shows is no newer. *)
Replied(s, a) ==
    /\ polls' = [polls EXCEPT ![s] = Answered(polls[s], a)]
    /\ a.code \in {"ok", "missing", "failure"}
    /\ a.code = "ok" => a.job = Shown(polls[s].arg) /\ jobs[polls[s].arg].status # "gone"

LEMMA AnswerPollStep ==
  ASSUME StudiesInv, NEW s \in PollSlots, AnswerPoll(s)
  PROVE  StudiesInv'
  <1> DEFINE r == polls[s]
             j == r.arg
  <1>1. /\ UNCHANGED <<jobs, page, form, view, list, loads, posts, clicks, visits>>
        /\ faults' = faults \/ Faulty
    BY DEF AnswerPoll, Faulty
  <1>2. /\ r = AsRequest(r) /\ r.phase = "sent" /\ r.live /\ page = "result" /\ j = view.job
        /\ j \in DOMAIN jobs /\ JobOK(j) /\ view \in ResultPages(jobs[j].kind)
        /\ view.shown # Null => Carries(view.shown, j) /\ view.shown.status \notin Terminal
    <2>1. r.phase = "sent" /\ PollOK(s)
      BY DEF AnswerPoll, StudiesInv
    <2>2. r = AsRequest(r) /\ r.live
      BY <2>1 DEF PollOK
    <2>3. /\ page = "result" /\ j = view.job
          /\ view.shown # Null => view.shown.status \notin Terminal
      BY <2>1, <2>2 DEF PollOK
    <2>4. QED
      BY <2>1, <2>2, <2>3 DEF StudiesInv, PageOK
  <1>3. PICK a : Replied(s, a)
    <2>1. CASE polls' = [polls EXCEPT ![s] = Answered(@, [code |-> "missing"])]
      <3>1. Replied(s, [code |-> "missing"])
        BY <2>1 DEF Replied
      <3>2. QED
        BY <3>1
    <2>2. CASE /\ jobs[j].status # "gone"
               /\ polls' = [polls EXCEPT ![s] = Answered(@, [code |-> "ok", job |-> Shown(j)])]
      <3>1. Replied(s, [code |-> "ok", job |-> Shown(j)])
        BY <2>2 DEF Replied
      <3>2. QED
        BY <3>1
    <2>3. CASE polls' = [polls EXCEPT ![s] = Answered(@, Failure)]
      <3>1. Replied(s, Failure)
        BY <2>3 DEF Replied, Failure
      <3>2. QED
        BY <3>1
    <2>4. QED
      BY <2>1, <2>2, <2>3 DEF AnswerPoll
  <1>4. a.code = "ok" => /\ a.job \in Verdicts(jobs[j].kind) /\ Carries(a.job, j)
                         /\ a.job.status = "queued" /\ view.shown # Null
                                => view.shown.status = "queued"
    <2>1. SUFFICES ASSUME a.code = "ok"
                   PROVE  /\ a.job \in Verdicts(jobs[j].kind) /\ Carries(a.job, j)
                          /\ a.job.status = "queued" /\ view.shown # Null
                                => view.shown.status = "queued"
      OBVIOUS
    <2>2. a.job = [status |-> jobs[j].status, result |-> jobs[j].result] /\ jobs[j].status # "gone"
      BY <1>3, <2>1 DEF Shown, Replied
    <2>3. a.job.status = jobs[j].status /\ a.job.result = jobs[j].result
      BY <2>2
    <2>4. a.job \in Verdicts(jobs[j].kind)
      BY <1>2, <2>2 DEF JobOK, Verdicts
    <2>5. Carries(a.job, j)
      BY <1>2, <2>3 DEF JobOK, Carries
    <2>6. QED
      BY <1>2, <2>3, <2>4, <2>5 DEF Carries
  <1>5. ASSUME polls'[s] = Answered(r, a)
        PROVE  PollOK(s)'
    <2>1. /\ polls'[s] = AsRequest(polls'[s]) /\ polls'[s].phase = "answered"
          /\ polls'[s].answer = a /\ polls'[s].live = r.live /\ polls'[s].arg = j
      <3> DEFINE q == polls[s]
      <3>1. q = AsRequest(q)
        BY <1>2
      <3> HIDE DEF q
      <3>2. /\ Answered(q, a) = AsRequest(Answered(q, a)) /\ Answered(q, a).phase = "answered"
            /\ Answered(q, a).answer = a /\ Answered(q, a).live = q.live /\ Answered(q, a).arg = q.arg
        BY <3>1, AnsweredRequest
      <3>3. QED
        BY <1>5, <3>2 DEF q
    <2>2. polls'[s].live = (polls'[s].phase \in {"sent", "answered", "waiting"})
      <3>1. r.live = (r.phase \in {"sent", "answered", "waiting"})
        BY DEF StudiesInv, PollOK
      <3>2. (r.phase \in {"sent", "answered", "waiting"}) = TRUE
        BY <1>2
      <3>3. (polls'[s].phase \in {"sent", "answered", "waiting"}) = TRUE
        BY <2>1
      <3>4. QED
        BY <2>1, <3>1, <3>2, <3>3
    <2>3. a.code = "ok" => Carries(polls[s].answer.job, view.job)'
      BY <1>1, <1>2, <1>4, <2>1 DEF Carries, Finished, Outcomes
    <2>4. QED
      BY <1>1, <1>2, <1>3, <1>4, <2>1, <2>2, <2>3 DEF PollOK, AsRequest, Replied
  <1>6. DOMAIN polls' = PollSlots /\ (\A t \in PollSlots : PollOK(t)') /\ OnePoll'
    BY <1>2, <1>3, <1>5, OneChain DEF Replied
  <1>7. QED
    BY <1>1, <1>6, LoadsRest, PageRest, QuietStep

LEMMA ReceivePollStep ==
  ASSUME StudiesInv, NEW s \in PollSlots, ReceivePoll(s)
  PROVE  StudiesInv'
  <1> DEFINE r == polls[s]
             a == r.answer
             v == view
  <1>1. UNCHANGED <<jobs, page, form, list, loads, posts, clicks, faults, visits>>
    BY DEF ReceivePoll
  <1>2. PollOK(s) /\ r = AsRequest(r) /\ DOMAIN polls = PollSlots
    BY DEF StudiesInv, PollOK, Shape
  <1>3. CASE r.phase = "late"
    <2>1. polls' = [polls EXCEPT ![s] = Idle] /\ UNCHANGED view
      <3>1. ~r.live
        BY <1>2, <1>3 DEF PollOK
      <3>2. QED
        BY <3>1 DEF ReceivePoll, Settle
    <2>2. /\ DOMAIN polls' = PollSlots /\ polls'[s] = Idle
          /\ \A t \in PollSlots : t # s => polls'[t] = polls[t]
      BY <1>2, <2>1
    <2>3. PollOK(s)' /\ ~polls'[s].live
      BY <2>2, QuietPoll
    <2>4. \A t \in PollSlots : t # s => PollOK(t)'
      BY <1>1, <2>1, <2>2, JobsRest, PollsKept DEF StudiesInv
    <2>5. OnePoll'
      BY <2>2, <2>3 DEF OnePoll, StudiesInv
    <2>6. QED
      BY <1>1, <2>1, <2>2, <2>3, <2>4, <2>5, LoadsRest, PageRest, QuietStep
  <1>4. CASE r.phase = "answered"
    <2>1. r.live
      BY <1>2, <1>4 DEF PollOK
    <2>2. /\ page = "result" /\ r.arg = view.job /\ view.job \in DOMAIN jobs
          /\ view \in ResultPages(jobs[view.job].kind)
          /\ view.shown # Null => Carries(view.shown, view.job)
          /\ a.code \in {"ok", "missing", "failure"}
          /\ a.code = "ok" => /\ a.job \in Verdicts(jobs[view.job].kind) /\ Carries(a.job, view.job)
      BY <1>2, <1>4, <2>1 DEF PollOK, StudiesInv, PageOK
    <2>3. CASE a.code # "ok"
      <3>1. polls' = [polls EXCEPT ![s] = Idle] /\ view' = [view EXCEPT !.error = a.code]
        BY <1>4, <2>3 DEF ReceivePoll, Settle
      <3>2. /\ view' \in ResultPages(jobs[view.job].kind) /\ view'.job = view.job
            /\ view'.shown = view.shown
        BY <2>2, <2>3, <3>1 DEF ResultPages
      <3>3. PageOK'
        BY <1>1, <2>2, <3>2, ViewMoves
      <3>4. DOMAIN polls' = PollSlots /\ (\A t \in PollSlots : PollOK(t)') /\ OnePoll'
        BY <2>1, <3>1, QuietPoll, OneChain
      <3>5. QED
        BY <1>1, <3>3, <3>4, LoadsRest, QuietStep
    <2>4. CASE a.code = "ok"
      <3>1. view' = [view EXCEPT !.shown = a.job] \/ view' = [view EXCEPT !.shown = a.job, !.gaveUp = TRUE]
        BY <1>4, <2>1, <2>4 DEF ReceivePoll
      <3>2. /\ view' \in ResultPages(jobs[view.job].kind) /\ view'.job = view.job
            /\ view'.shown = a.job
        BY <2>2, <2>4, <3>1 DEF ResultPages
      <3>3. PageOK'
        BY <1>1, <2>2, <2>4, <3>2, ViewMoves
      <3>4. CASE polls' = [polls EXCEPT ![s] = Idle]
        <4>1. DOMAIN polls' = PollSlots /\ (\A t \in PollSlots : PollOK(t)') /\ OnePoll'
          BY <2>1, <3>4, QuietPoll, OneChain
        <4>2. QED
          BY <1>1, <3>3, <4>1, LoadsRest, QuietStep
      <3>5. CASE /\ polls' = [polls EXCEPT ![s].phase = "waiting", ![s].answer = Null]
                 /\ a.job.status \notin Terminal
        <4> DEFINE e == [phase |-> "waiting", live |-> r.live, arg |-> r.arg, answer |-> Null]
        <4>1. polls' = [polls EXCEPT ![s] = e]
          <5>1. [r EXCEPT !.phase = "waiting", !.answer = Null] = e
            <6>1. \A q : q = AsRequest(q) =>
                    [q EXCEPT !.phase = "waiting", !.answer = Null] =
                      [phase |-> "waiting", live |-> q.live, arg |-> q.arg, answer |-> Null]
              BY RearmedRequest
            <6>2. QED
              BY <1>2, <6>1
          <5>2. [polls EXCEPT ![s].phase = "waiting", ![s].answer = Null] =
                  [polls EXCEPT ![s] = [r EXCEPT !.phase = "waiting", !.answer = Null]]
            BY <1>2
          <5>3. QED
            BY <3>5, <5>1, <5>2
        <4>2. e = AsRequest(e) /\ e.phase = "waiting" /\ e.live = r.live /\ e.arg = r.arg
          BY DEF AsRequest
        <4> HIDE DEF e
        <4>3. e.live = (e.phase \in {"sent", "answered", "waiting"})
          <5>1. r.live = (r.phase \in {"sent", "answered", "waiting"})
            BY <1>2 DEF PollOK
          <5>2. (r.phase \in {"sent", "answered", "waiting"}) = TRUE
            BY <1>4
          <5>3. (e.phase \in {"sent", "answered", "waiting"}) = TRUE
            BY <4>2
          <5>4. QED
            BY <4>2, <5>1, <5>2, <5>3
        <4>4. ASSUME polls'[s] = e
              PROVE  PollOK(s)'
          BY <1>1, <2>2, <3>2, <3>5, <4>2, <4>3, <4>4 DEF PollOK, AsRequest
        <4>5. DOMAIN polls' = PollSlots /\ (\A t \in PollSlots : PollOK(t)') /\ OnePoll'
          BY <2>1, <4>1, <4>4, OneChain
        <4>6. QED
          BY <1>1, <3>3, <4>5, LoadsRest, QuietStep
      <3>6. QED
        BY <1>4, <2>1, <2>4, <3>4, <3>5 DEF ReceivePoll, Settle
    <2>5. QED
      BY <2>3, <2>4
  <1>5. QED
    BY <1>3, <1>4 DEF ReceivePoll

LEMMA PollTimerStep ==
  ASSUME StudiesInv, NEW s \in PollSlots, PollTimer(s)
  PROVE  StudiesInv'
  <1> DEFINE r == polls[s]
             e == [phase |-> "sent", live |-> r.live, arg |-> r.arg, answer |-> r.answer]
  <1>1. /\ UNCHANGED <<jobs, page, form, list, loads, posts, clicks, faults, visits>>
        /\ r.phase = "waiting" /\ view' = [view EXCEPT !.age = @ + 1]
    BY DEF PollTimer
  <1>2. PollOK(s) /\ r = AsRequest(r) /\ r.live
    BY <1>1 DEF StudiesInv, PollOK
  <1>3. /\ page = "result" /\ r.arg = view.job /\ view.job \in DOMAIN jobs
        /\ view \in ResultPages(jobs[view.job].kind)
        /\ view.shown # Null => Carries(view.shown, view.job) /\ view.shown.status \notin Terminal
    BY <1>2 DEF PollOK, StudiesInv, PageOK
  <1>4. /\ view' \in ResultPages(jobs[view.job].kind) /\ view'.job = view.job
        /\ view'.shown = view.shown
    BY <1>1, <1>3 DEF ResultPages
  <1>5. polls' = [polls EXCEPT ![s] = e]
    <2>1. polls' = [polls EXCEPT ![s] = [r EXCEPT !.phase = "sent"]]
      BY DEF PollTimer
    <2>2. [r EXCEPT !.phase = "sent"] = e
      <3>1. DOMAIN r = {"phase", "live", "arg", "answer"}
        BY <1>2 DEF AsRequest
      <3>2. [r EXCEPT !.phase = "sent"] = [x \in DOMAIN r |-> IF x = "phase" THEN "sent" ELSE r[x]]
        BY <3>1
      <3>3. QED
        BY <3>1, <3>2
    <2>3. QED
      BY <2>1, <2>2
  <1>6. e = AsRequest(e) /\ e.phase = "sent" /\ e.live = r.live /\ e.arg = r.arg
    BY DEF AsRequest
  <1> HIDE DEF e
  <1>7. e.live = (e.phase \in {"sent", "answered", "waiting"})
    <2>1. r.live = (r.phase \in {"sent", "answered", "waiting"})
      BY <1>2 DEF PollOK
    <2>2. (r.phase \in {"sent", "answered", "waiting"}) = TRUE
      BY <1>1
    <2>3. (e.phase \in {"sent", "answered", "waiting"}) = TRUE
      BY <1>6
    <2>4. QED
      BY <1>6, <2>1, <2>2, <2>3
  <1>8. ASSUME polls'[s] = e
        PROVE  PollOK(s)'
    BY <1>1, <1>3, <1>4, <1>6, <1>7, <1>8 DEF PollOK, AsRequest
  <1>9. DOMAIN polls' = PollSlots /\ (\A t \in PollSlots : PollOK(t)') /\ OnePoll'
    BY <1>2, <1>5, <1>8, OneChain
  <1>10. PageOK'
    BY <1>1, <1>3, <1>4, ViewMoves
  <1>11. QED
    BY <1>1, <1>9, <1>10, LoadsRest, QuietStep

LEMMA AnswerLoadStep ==
  ASSUME StudiesInv, NEW s \in LoadSlots, AnswerLoad(s)
  PROVE  StudiesInv'
  <1> DEFINE r == loads[s]
  <1>1. /\ UNCHANGED <<jobs, page, form, view, list, polls, posts, clicks, visits>>
        /\ faults' = faults \/ Faulty
    BY DEF AnswerLoad, Faulty
  <1>2. r = AsRequest(r) /\ r.live \in BOOLEAN /\ page = "list" /\ DOMAIN loads = LoadSlots
    BY DEF StudiesInv, LoadOK, AnswerLoad, Shape
  <1>3. PICK a : /\ loads' = [loads EXCEPT ![s] = Answered(r, a)]
                 /\ a.code = "ok" => a.jobs = Listing
    <2>1. CASE loads' = [loads EXCEPT ![s] = Answered(@, [code |-> "ok", jobs |-> Listing])]
      <3>1. loads' = [loads EXCEPT ![s] = Answered(r, [code |-> "ok", jobs |-> Listing])]
        BY <2>1
      <3>2. [code |-> "ok", jobs |-> Listing].jobs = Listing
        OBVIOUS
      <3>3. QED
        BY <3>1, <3>2
    <2>2. CASE loads' = [loads EXCEPT ![s] = Answered(@, Failure)]
      <3>1. loads' = [loads EXCEPT ![s] = Answered(r, Failure)] /\ Failure.code # "ok"
        BY <2>2 DEF Failure
      <3>2. QED
        BY <3>1
    <2>3. QED
      BY <2>1, <2>2 DEF AnswerLoad
  <1>4. DOMAIN Listing \subseteq DOMAIN jobs /\ Listing \in [DOMAIN Listing -> Statuses]
    <2>1. \A j \in DOMAIN jobs : jobs[j].status \in Statuses
      BY DEF StudiesInv, JobOK
    <2>2. QED
      BY <2>1 DEF Listing
  <1>5. /\ DOMAIN loads' = LoadSlots /\ loads'[s] = Answered(r, a)
        /\ \A t \in LoadSlots : t # s => loads'[t] = loads[t]
    BY <1>2, <1>3
  <1>6. /\ loads'[s] = AsRequest(loads'[s]) /\ loads'[s].phase = "answered"
        /\ loads'[s].answer = a /\ loads'[s].live = r.live
    <2> HIDE DEF r
    <2>1. /\ Answered(r, a) = AsRequest(Answered(r, a)) /\ Answered(r, a).phase = "answered"
          /\ Answered(r, a).answer = a /\ Answered(r, a).live = r.live
      BY <1>2, AnsweredRequest
    <2>2. QED
      BY <1>5, <2>1
  <1>7. ASSUME NEW t \in LoadSlots
        PROVE  LoadOK(t)'
    <2>1. CASE t # s
      BY <1>1, <1>5, <2>1, JobsRest, LoadsKept DEF StudiesInv
    <2>2. CASE t = s
      BY <1>1, <1>2, <1>3, <1>4, <1>6, <2>2 DEF LoadOK, AsRequest
    <2>3. QED
      BY <2>1, <2>2
  <1>8. QED
    BY <1>1, <1>5, <1>7, PollsRest, PageRest, QuietStep

LEMMA ReceiveLoadStep ==
  ASSUME StudiesInv, NEW s \in LoadSlots, ReceiveLoad(s)
  PROVE  StudiesInv'
  <1> DEFINE a == loads[s].answer
  <1>1. /\ UNCHANGED <<jobs, page, form, view, polls, posts, clicks, faults, visits>>
        /\ loads' = [loads EXCEPT ![s] = Idle] /\ LoadOK(s) /\ DOMAIN loads = LoadSlots
        /\ loads[s].phase = "answered"
        /\ list' = IF a.code = "ok" THEN [rows |-> a.jobs, loading |-> FALSE, error |-> FALSE]
                   ELSE [list EXCEPT !.loading = FALSE, !.error = TRUE]
    BY DEF ReceiveLoad, StudiesInv, Shape
  <1>2. page = "list" /\ list \in ListPages /\ DOMAIN list.rows \subseteq DOMAIN jobs
    BY <1>1 DEF LoadOK, StudiesInv, PageOK
  <1>3. list' \in ListPages /\ DOMAIN list'.rows \subseteq DOMAIN jobs
    <2>1. CASE a.code = "ok"
      <3>1. DOMAIN a.jobs \subseteq DOMAIN jobs /\ a.jobs \in [DOMAIN a.jobs -> Statuses]
        BY <1>1, <2>1 DEF LoadOK
      <3>2. DOMAIN jobs \subseteq JobIds
        <4>1. DOMAIN jobs = 1 .. Len(jobs) /\ Len(jobs) \in Nat /\ Len(jobs) <= MaxJobs
          BY LenProperties DEF StudiesInv, Shape
        <4>2. QED
          BY <4>1, StudiesConstants DEF JobIds
      <3>3. DOMAIN a.jobs \in SUBSET JobIds
        BY <3>1, <3>2
      <3>4. a.jobs \in UNION {[S -> Statuses] : S \in SUBSET JobIds}
        BY <3>1, <3>3
      <3>5. list' = [rows |-> a.jobs, loading |-> FALSE, error |-> FALSE]
        BY <1>1, <2>1
      <3>6. QED
        BY <3>1, <3>4, <3>5 DEF ListPages
    <2>2. CASE a.code # "ok"
      <3>1. list' = [list EXCEPT !.loading = FALSE, !.error = TRUE]
        BY <1>1, <2>2
      <3>2. list'.rows = list.rows /\ list' \in ListPages
        BY <1>2, <3>1 DEF ListPages
      <3>3. QED
        BY <1>2, <3>2
    <2>3. QED
      BY <2>1, <2>2
  <1>4. PageOK'
    BY <1>1, <1>2, <1>3 DEF PageOK, StudiesInv
  <1>5. /\ DOMAIN loads' = LoadSlots /\ loads'[s] = Idle
        /\ \A t \in LoadSlots : t # s => loads'[t] = loads[t]
    BY <1>1
  <1>6. \A t \in LoadSlots : LoadOK(t)'
    BY <1>1, <1>5, IdleLoad, JobsRest, LoadsKept DEF StudiesInv
  <1>7. QED
    BY <1>1, <1>4, <1>5, <1>6, PollsRest, QuietStep

LEMMA ListTimerStep ==
  ASSUME StudiesInv, ListTimer
  PROVE  StudiesInv'
  <1>1. /\ UNCHANGED <<jobs, page, form, view, list, polls, posts, clicks, faults, visits>>
        /\ page = "list" /\ loads' = Send(loads, Null) /\ DOMAIN loads = LoadSlots
    BY DEF ListTimer, StudiesInv, Shape
  <1>2. \A s \in LoadSlots : loads'[s] = loads[s] => LoadOK(s)'
    BY <1>1, JobsRest, LoadsKept DEF StudiesInv
  <1>3. DOMAIN loads' = LoadSlots /\ \A s \in LoadSlots : LoadOK(s)'
    BY <1>1, <1>2, SentLoads
  <1>4. QED
    BY <1>1, <1>3, PollsRest, PageRest, QuietStep

LEMMA VisitStep ==
  ASSUME StudiesInv, Visit
  PROVE  StudiesInv'
  <1>1. /\ UNCHANGED <<jobs, clicks, faults>> /\ posts' = Left(posts)
        /\ visits' = visits \/ (visits < MaxVisits /\ visits' = visits + 1)
    BY DEF Visit
  <1>2. OpenForm \/ OpenList \/ \E j \in DOMAIN jobs : OpenResult(j)
    <2>1. CASE OpenForm \/ OpenList
      BY <2>1
    <2>2. ASSUME page = "list", NEW j \in DOMAIN list.rows, OpenResult(j)
          PROVE  \E k \in DOMAIN jobs : OpenResult(k)
      BY <2>2 DEF StudiesInv, PageOK
    <2>3. QED
      BY <2>1, <2>2 DEF Visit
  <1>3. QED
    BY <1>1, <1>2, Opened, QuietStep

LEMMA RemountStep ==
  ASSUME StudiesInv, Remount
  PROVE  StudiesInv'
  <1>1. /\ UNCHANGED <<jobs, page, form, view, list, loads, posts, clicks, faults>>
        /\ visits < MaxVisits /\ visits' = visits + 1
        /\ page = "result" /\ view = FreshView(view.job)
        /\ polls' = Send(Unmounted(polls), view.job) /\ DOMAIN polls = PollSlots
    BY DEF Remount, StudiesInv, Shape
  <1>2. view.shown = Null
    BY <1>1 DEF FreshView
  <1>3. DOMAIN polls' = PollSlots /\ (\A s \in PollSlots : PollOK(s)') /\ OnePoll'
    <2> DEFINE j == view.job
    <2>1. /\ polls' = Send(Unmounted(polls), j) /\ page' = "result" /\ view'.job = j
          /\ view'.shown = Null
      BY <1>1, <1>2
    <2> HIDE DEF j
    <2>2. QED
      BY <1>1, <2>1, MountedPolls
  <1>4. QED
    BY <1>1, <1>3, LoadsRest, PageRest, QuietStep

(* ------------------------------ submissions ---------------------------- *)

(* A press of a button puts one request on the wire.                       *)
LEMMA SentPost ==
  ASSUME StudiesInv, UNCHANGED jobs, NEW kind, NEW p, Asked(kind, p),
         posts' = Send(posts, [kind |-> kind, params |-> p]),
         clicks < MaxClicks, clicks' = clicks + 1
  PROVE  /\ DOMAIN posts' = PostSlots /\ \A s \in PostSlots : PostOK(s)'
         /\ clicks' \in 0 .. MaxClicks
         /\ IsFiniteSet(SentPosts') /\ Len(jobs) + Cardinality(SentPosts') <= clicks'
  <1> DEFINE arg == [kind |-> kind, params |-> p]
  <1>1. arg.kind = kind /\ arg.params = p /\ DOMAIN posts = PostSlots
    BY DEF StudiesInv, Shape
  <1> HIDE DEF arg
  <1>2. DOMAIN posts' = PostSlots /\ SentOne(posts', posts, arg)
    BY <1>1, SentRequest DEF arg
  <1>3. PICK m : \A s \in PostSlots : posts'[s] = IF s = m THEN Sent(arg) ELSE posts[s]
    BY <1>1, <1>2 DEF SentOne
  <1>4. Grown /\ Asked(kind, p)'
    BY JobsRest, AskedKept
  <1>5. ASSUME NEW s \in PostSlots
        PROVE  PostOK(s)'
    <2>1. CASE s = m
      <3>1. /\ posts'[s] = AsRequest(posts'[s]) /\ posts'[s].phase = "sent"
            /\ posts'[s].live = TRUE /\ posts'[s].arg = arg
        BY <1>3, <2>1, RequestFacts
      <3>2. Asked(posts[s].arg.kind, posts[s].arg.params)'
        BY <1>1, <1>4, <3>1 DEF Asked, OfBestCell, Runnable, Finished
      <3>3. QED
        BY <3>1, <3>2 DEF PostOK, AsRequest
    <2>2. CASE s # m
      BY <1>3, <1>4, <2>2, PostsKept DEF StudiesInv, PostOK
    <2>3. QED
      BY <2>1, <2>2
  <1>6. clicks \in Nat /\ clicks' \in 0 .. MaxClicks
    BY StudiesConstants DEF StudiesInv, Shape
  <1>7. IsFiniteSet(SentPosts') /\ Len(jobs) + Cardinality(SentPosts') <= clicks'
    <2> DEFINE S == SentPosts
               T == S \cup {m}
    <2>1. /\ IsFiniteSet(S) /\ Cardinality(S) \in Nat
          /\ Len(jobs) + Cardinality(S) <= clicks /\ Len(jobs) \in Nat
      BY FS_CardinalityType, LenProperties DEF StudiesInv, Shape
    <2>2. SentPosts' \subseteq T
      BY <1>3 DEF SentPosts
    <2> HIDE DEF S
    <2>3. IsFiniteSet(T) /\ Cardinality(T) \in Nat /\ Cardinality(T) <= Cardinality(S) + 1
      <3>1. /\ IsFiniteSet(T)
            /\ Cardinality(T) = IF m \in S THEN Cardinality(S) ELSE Cardinality(S) + 1
        BY <2>1, FS_AddElement, Zenon
      <3>2. QED
        BY <2>1, <3>1
    <2> HIDE DEF T
    <2>4. IsFiniteSet(SentPosts') /\ Cardinality(SentPosts') <= Cardinality(T)
          /\ Cardinality(SentPosts') \in Nat
      BY <2>2, <2>3, FS_Subset, FS_CardinalityType
    <2>5. QED
      BY <1>6, <2>1, <2>3, <2>4
  <1>8. QED
    BY <1>2, <1>5, <1>6, <1>7

LEMMA SubmitSweepStep ==
  ASSUME StudiesInv, SubmitSweep
  PROVE  StudiesInv'
  <1>1. /\ UNCHANGED <<jobs, page, view, list, polls, loads, faults, visits>>
        /\ page = "form" /\ WithinCap /\ clicks < MaxClicks /\ clicks' = clicks + 1
        /\ form' = [form EXCEPT !.submitting = TRUE]
        /\ posts' = Send(posts, [kind |-> "sweep", params |-> SweepParams(form)])
    BY DEF SubmitSweep
  <1>2. /\ form \in Forms /\ \A a \in {"x", "y"} : form[a].param \in ParamsOf(form.type)
        /\ view = Null /\ list = Null
    BY <1>1 DEF StudiesInv, PageOK
  <1>3. Asked("sweep", SweepParams(form))
    <2> DEFINE p == SweepParams(form)
    <2>1. /\ p.strategy.type = form.type /\ p.x = form.x
          /\ p.y = IF form.yOn THEN form.y ELSE Null
      BY <1>2, BaseSpecType DEF SweepParams, Forms
    <2> HIDE DEF p
    <2>2. form.x \in Axes /\ form.y \in Axes /\ form.y # Null /\ form.yOn \in BOOLEAN
      BY <1>2, StudiesConstants DEF Forms
    <2>3. TotalCells(p.x, IF p.y = Null THEN p.x ELSE p.y, p.y # Null) <= CellCap
      <3>1. TotalCells(form.x, form.y, form.yOn) <= CellCap
        BY <1>1 DEF WithinCap
      <3>2. QED
        BY <2>1, <2>2, <3>1 DEF TotalCells
    <2>4. Runnable(p)
      BY <1>2, <2>1, <2>2, <2>3 DEF Runnable
    <2>5. QED
      BY <2>4 DEF Asked, p
  <1>4. PageOK'
    <2>1. /\ form' \in Forms /\ form'.type = form.type /\ form'.x = form.x /\ form'.y = form.y
      BY <1>1, <1>2 DEF Forms
    <2>2. QED
      BY <1>1, <1>2, <2>1 DEF PageOK
  <1>5. /\ DOMAIN posts' = PostSlots /\ \A s \in PostSlots : PostOK(s)'
        /\ clicks' \in 0 .. MaxClicks
        /\ IsFiniteSet(SentPosts') /\ Len(jobs) + Cardinality(SentPosts') <= clicks'
    BY <1>1, <1>3, SentPost
  <1>6. faults' \in 0 .. MaxFaults /\ visits' \in 0 .. MaxVisits
    BY <1>1 DEF StudiesInv, Shape
  <1>7. QED
    BY <1>1, <1>4, <1>5, <1>6, PollsRest, LoadsRest, PageStep

LEMMA EditFormStep ==
  ASSUME StudiesInv, EditForm
  PROVE  StudiesInv'
  <1>1. PICK f : Edited(f) /\ f \in Forms /\ \A a \in {"x", "y"} : f[a].param \in ParamsOf(f.type)
    <2>1. /\ page = "form" /\ form \in Forms
          /\ \A a \in {"x", "y"} : form[a].param \in ParamsOf(form.type)
      BY DEF EditForm, StudiesInv, PageOK
    <2>2. ASSUME NEW t \in StrategyTypes, SwitchStrategy(t)
          PROVE  Edited(form') /\ form' \in Forms
                 /\ \A a \in {"x", "y"} : form'[a].param \in ParamsOf(form'.type)
      <3>1. form' = [form EXCEPT !.type = t, !.x = AxesFor(t).x, !.y = AxesFor(t).y]
        BY <2>2 DEF SwitchStrategy, Edited
      <3>2. Edited(form')
        BY <2>2, <3>1 DEF SwitchStrategy, Edited
      <3>3. QED
        BY <2>1, <3>1, <3>2, SwitchedForm
    <2>3. ASSUME ToggleY
          PROVE  Edited(form') /\ form' \in Forms
                 /\ \A a \in {"x", "y"} : form'[a].param \in ParamsOf(form'.type)
      <3>1. form' = [form EXCEPT !.yOn = ~@] /\ Edited(form')
        BY <2>3 DEF ToggleY, Edited
      <3>2. /\ form' \in Forms /\ form'.type = form.type /\ form'.x = form.x /\ form'.y = form.y
        BY <2>1, <3>1 DEF Forms
      <3>3. QED
        BY <2>1, <3>1, <3>2
    <2>4. ASSUME NEW axis \in {"x", "y"}, PickParam(axis)
          PROVE  Edited(form') /\ form' \in Forms
                 /\ \A a \in {"x", "y"} : form'[a].param \in ParamsOf(form'.type)
      <3>1. PICK p \in ParamsOf(form.type) :
                Edited([form EXCEPT ![axis] = [@ EXCEPT !.param = p, !.range = "default"]])
        BY <2>4 DEF PickParam, AxisMenu
      <3>2. /\ form' = [form EXCEPT ![axis] = [@ EXCEPT !.param = p, !.range = "default"]]
            /\ Edited(form')
        BY <3>1 DEF Edited
      <3>3. [form[axis] EXCEPT !.param = p, !.range = "default"] \in Axes
        BY <2>1, <2>4, <3>1, ZenonT(40) DEF Forms, Axes
      <3>4. /\ form' \in Forms /\ form'.type = form.type
            /\ form'[axis] = [form[axis] EXCEPT !.param = p, !.range = "default"]
            /\ \A a \in {"x", "y"} : a # axis => form'[a] = form[a]
        BY <2>1, <2>4, <3>2, <3>3 DEF Forms
      <3>5. form'[axis].param = p
        BY <2>1, <2>4, <3>4 DEF Forms, Axes
      <3>6. QED
        BY <2>1, <3>1, <3>2, <3>4, <3>5
    <2>5. ASSUME NEW axis \in {"x", "y"}, TypeSteps(axis)
          PROVE  Edited(form') /\ form' \in Forms
                 /\ \A a \in {"x", "y"} : form'[a].param \in ParamsOf(form'.type)
      <3>1. PICK n \in Int : Edited([form EXCEPT ![axis].steps = n])
        BY <2>5, StudiesConstants DEF TypeSteps
      <3>2. form' = [form EXCEPT ![axis] = [@ EXCEPT !.steps = n]] /\ Edited(form')
        BY <3>1 DEF Edited
      <3>3. [form[axis] EXCEPT !.steps = n] \in Axes
        BY <2>1, <2>5, <3>1 DEF Forms, Axes
      <3>4. /\ form' \in Forms /\ form'.type = form.type
            /\ form'[axis] = [form[axis] EXCEPT !.steps = n]
            /\ \A a \in {"x", "y"} : a # axis => form'[a] = form[a]
        BY <2>1, <2>5, <3>2, <3>3 DEF Forms
      <3>5. form'[axis].param = form[axis].param
        BY <2>1, <2>5, <3>4 DEF Forms, Axes
      <3>6. QED
        BY <2>1, <2>5, <3>2, <3>4, <3>5
    <2>6. QED
      BY <2>2, <2>3, <2>4, <2>5 DEF EditForm
  <1>2. /\ page = "form" /\ form' = f /\ visits < MaxVisits /\ visits' = visits + 1
        /\ UNCHANGED <<jobs, page, view, list, polls, loads, posts, clicks, faults>>
    BY <1>1 DEF Edited
  <1>3. PageOK'
    BY <1>1, <1>2 DEF StudiesInv, PageOK
  <1>4. QED
    BY <1>2, <1>3, PollsRest, LoadsRest, QuietStep

LEMMA GridShown ==
  ASSUME StudiesInv, ShowsGrid
  PROVE  /\ page = "result" /\ view.error = "none" /\ view.shown # Null
         /\ view.job \in DOMAIN jobs /\ jobs[view.job].kind = "sweep"
         /\ view \in ResultPages("sweep") /\ view.shown.status = "completed"
         /\ Finished(view.job) /\ view.shown.result = jobs[view.job].result
  <1>1. /\ page = "result" /\ PageFace = "completed" /\ jobs[view.job].kind = "sweep"
        /\ view.job \in DOMAIN jobs /\ view \in ResultPages(jobs[view.job].kind)
        /\ view.shown # Null => Carries(view.shown, view.job)
    BY DEF ShowsGrid, StudiesInv, PageOK
  <1>2. view.error = "none" /\ view.shown # Null /\ view.shown.status = "completed"
    BY <1>1 DEF PageFace, RunningProgress, ResultPages
  <1>3. QED
    BY <1>1, <1>2 DEF Carries

LEMMA PickMetricStep ==
  ASSUME StudiesInv, PickMetric
  PROVE  StudiesInv'
  <1>1. PICK m \in Metrics : view' = [view EXCEPT !.metric = m]
    BY DEF PickMetric
  <1>2. /\ UNCHANGED <<jobs, page, form, list, polls, loads, posts, clicks, faults, visits>>
        /\ ShowsGrid
    BY DEF PickMetric
  <1>3. /\ view' \in ResultPages("sweep") /\ view'.job = view.job /\ view'.shown = view.shown
    BY <1>1, <1>2, GridShown DEF ResultPages
  <1>4. PageOK'
    BY <1>2, <1>3, GridShown, ViewMoves DEF StudiesInv, PageOK
  <1>5. QED
    BY <1>2, <1>3, <1>4, PollsRest, LoadsRest, QuietStep

LEMMA RunBestStep ==
  ASSUME StudiesInv, RunBest
  PROVE  StudiesInv'
  <1> DEFINE p == [strategy |-> BestSpec(jobs[view.job].params, view.shown.result),
                   from |-> view.job]
  <1>1. /\ UNCHANGED <<jobs, page, form, list, polls, loads, faults, visits>>
        /\ ShowsGrid /\ clicks < MaxClicks /\ clicks' = clicks + 1
        /\ view' = [view EXCEPT !.running = TRUE]
        /\ posts' = Send(posts, [kind |-> "single", params |-> p])
    BY DEF RunBest
  <1>2. Asked("single", p)
    BY <1>1, GridShown DEF Asked, OfBestCell
  <1>3. /\ view' \in ResultPages("sweep") /\ view'.job = view.job /\ view'.shown = view.shown
    BY <1>1, GridShown DEF ResultPages
  <1>4. PageOK'
    BY <1>1, <1>3, GridShown, ViewMoves DEF StudiesInv, PageOK
  <1> HIDE DEF p
  <1>5. /\ DOMAIN posts' = PostSlots /\ \A s \in PostSlots : PostOK(s)'
        /\ clicks' \in 0 .. MaxClicks
        /\ IsFiniteSet(SentPosts') /\ Len(jobs) + Cardinality(SentPosts') <= clicks'
    BY <1>1, <1>2, SentPost
  <1>6. faults' \in 0 .. MaxFaults /\ visits' \in 0 .. MaxVisits
    BY <1>1 DEF StudiesInv, Shape
  <1>7. QED
    BY <1>1, <1>3, <1>4, <1>5, <1>6, PollsRest, LoadsRest, PageStep

(* The slot of an answered request is free again; the others are as before.*)
LEMMA FreedPost ==
  ASSUME StudiesInv, UNCHANGED jobs, NEW s \in PostSlots, posts[s].phase = "answered",
         posts' = [posts EXCEPT ![s] = Idle] \/ posts' = [Left(posts) EXCEPT ![s] = Idle]
  PROVE  /\ DOMAIN posts' = PostSlots /\ (\A t \in PostSlots : PostOK(t)')
         /\ SentPosts' = SentPosts
  <1>1. DOMAIN posts = PostSlots /\ \A t \in PostSlots : PostOK(t)
    BY DEF StudiesInv, Shape
  <1>2. \A t \in PostSlots : posts[t] = AsRequest(posts[t]) /\ posts[t].live \in BOOLEAN
    BY <1>1 DEF PostOK
  <1>3. /\ DOMAIN posts' = PostSlots /\ posts'[s] = Idle
        /\ \A t \in PostSlots : t # s =>
              /\ posts'[t] = AsRequest(posts'[t]) /\ posts'[t].live \in BOOLEAN
              /\ posts'[t].phase = posts[t].phase /\ posts'[t].arg = posts[t].arg
              /\ posts'[t].answer = posts[t].answer
    <2>1. CASE posts' = [posts EXCEPT ![s] = Idle]
      BY <1>1, <1>2, <2>1
    <2>2. CASE posts' = [Left(posts) EXCEPT ![s] = Idle]
      <3>1. /\ DOMAIN Left(posts) = PostSlots
            /\ \A t \in PostSlots :
                  /\ Left(posts)[t] = AsRequest(Left(posts)[t]) /\ Left(posts)[t].live = FALSE
                  /\ Left(posts)[t].phase = posts[t].phase /\ Left(posts)[t].arg = posts[t].arg
                  /\ Left(posts)[t].answer = posts[t].answer
        BY <1>1, <1>2, LeftRequests
      <3>2. /\ DOMAIN posts' = PostSlots /\ posts'[s] = Idle
            /\ \A t \in PostSlots : t # s => posts'[t] = Left(posts)[t]
        BY <2>2, <3>1
      <3>3. QED
        BY <3>1, <3>2, ZenonT(40)
    <2>3. QED
      BY <2>1, <2>2
  <1>4. \A t \in PostSlots : t # s => PostOK(t)'
    BY <1>1, <1>3, JobsRest, PostsKept
  <1>5. /\ posts'[s] = AsRequest(posts'[s]) /\ posts'[s].phase = "off"
        /\ posts'[s].live = FALSE
    BY <1>3, RequestFacts
  <1>6. PostOK(s)'
    BY <1>5 DEF PostOK, AsRequest
  <1>7. SentPosts' = SentPosts
    BY <1>3, <1>5 DEF SentPosts
  <1>8. QED
    BY <1>3, <1>4, <1>6, <1>7

LEMMA ReceivePostStep ==
  ASSUME StudiesInv, NEW s \in PostSlots, ReceivePost(s)
  PROVE  StudiesInv'
  <1> DEFINE a == posts[s].answer
  <1>1. /\ UNCHANGED <<jobs, clicks, faults, visits>> /\ posts[s].phase = "answered"
        /\ posts' = [posts EXCEPT ![s] = Idle] \/ posts' = [Left(posts) EXCEPT ![s] = Idle]
    BY DEF ReceivePost
  <1>2. /\ DOMAIN posts' = PostSlots /\ (\A t \in PostSlots : PostOK(t)')
        /\ SentPosts' = SentPosts
    BY <1>1, FreedPost
  <1>3. /\ IsFiniteSet(SentPosts') /\ Len(jobs) + Cardinality(SentPosts') <= clicks'
        /\ clicks' \in 0 .. MaxClicks /\ faults' \in 0 .. MaxFaults /\ visits' \in 0 .. MaxVisits
    BY <1>1, <1>2 DEF StudiesInv, Shape
  <1>4. CASE a.code = "ok"
    <2>1. a.job \in DOMAIN jobs /\ OpenResult(a.job)
      BY <1>1, <1>4 DEF StudiesInv, PostOK, ReceivePost
    <2>2. /\ PageOK' /\ OnePoll'
          /\ DOMAIN polls' = PollSlots /\ \A t \in PollSlots : PollOK(t)'
          /\ DOMAIN loads' = LoadSlots /\ \A t \in LoadSlots : LoadOK(t)'
      BY <1>1, <2>1, Opened
    <2>3. QED
      BY <1>1, <1>2, <1>3, <2>2, PageStep
  <1>5. CASE a.code # "ok"
    <2>1. /\ UNCHANGED <<page, list, polls, loads>>
          /\ form' = IF posts[s].live /\ page = "form"
                     THEN [form EXCEPT !.submitting = FALSE] ELSE form
          /\ view' = IF posts[s].live /\ page = "result"
                     THEN [view EXCEPT !.running = FALSE] ELSE view
      BY <1>5 DEF ReceivePost
    <2>2. /\ page = "form" => /\ form \in Forms
                              /\ \A x \in {"x", "y"} : form[x].param \in ParamsOf(form.type)
          /\ page = "result" => /\ view.job \in DOMAIN jobs
                                /\ view \in ResultPages(jobs[view.job].kind)
                                /\ view.shown # Null => Carries(view.shown, view.job)
          /\ page # "form" => form = Null
          /\ page # "result" => view = Null
          /\ PageOK
      BY DEF StudiesInv, PageOK
    <2>3. view' = view \/ (view'.job = view.job /\ view'.shown = view.shown)
      <3>1. CASE page = "result"
        BY <2>1, <2>2, <3>1 DEF ResultPages
      <3>2. CASE page # "result"
        BY <2>1, <3>2
      <3>3. QED
        BY <3>1, <3>2
    <2>4. PageOK'
      <3>1. CASE page = "form"
        <4>1. form' \in Forms /\ \A x \in {"x", "y"} : form'[x].param \in ParamsOf(form'.type)
          BY <2>1, <2>2, <3>1 DEF Forms
        <4>2. QED
          BY <2>1, <2>2, <3>1, <4>1 DEF PageOK
      <3>2. CASE page = "result"
        <4>1. /\ view' \in ResultPages(jobs[view.job].kind) /\ view'.job = view.job
              /\ view'.shown = view.shown
          BY <2>1, <2>2, <3>2 DEF ResultPages
        <4>2. QED
          BY <1>1, <2>1, <2>2, <3>2, <4>1, ViewMoves
      <3>3. CASE page = "list"
        BY <1>1, <2>1, <3>3 DEF PageOK, StudiesInv
      <3>4. QED
        BY <2>2, <3>1, <3>2, <3>3 DEF PageOK
    <2>5. QED
      BY <1>1, <1>2, <1>3, <2>1, <2>3, <2>4, PollsRest, LoadsRest, PageStep
  <1>6. QED
    BY <1>4, <1>5

(* ----------------------------- the invariant --------------------------- *)

LEMMA StutterStep ==
  ASSUME StudiesInv, UNCHANGED vars
  PROVE  StudiesInv'
  BY PollsRest, LoadsRest, PageRest, QuietStep DEF vars

LEMMA InitInv ==
  ASSUME Init
  PROVE  StudiesInv
  <1>1. /\ jobs = <<>> /\ page = "form" /\ form = FreshForm /\ view = Null /\ list = Null
        /\ polls = [s \in PollSlots |-> Idle] /\ loads = [s \in LoadSlots |-> Idle]
        /\ posts = [s \in PostSlots |-> Idle]
        /\ clicks = 0 /\ faults = 0 /\ visits = 0
    BY DEF Init
  <1>2. /\ \A s \in PollSlots : polls[s] = Idle
        /\ \A s \in LoadSlots : loads[s] = Idle
        /\ \A s \in PostSlots : posts[s] = Idle
    BY <1>1
  <1>3. DOMAIN jobs = {} /\ Len(jobs) = 0 /\ \A S : jobs \in Seq(S)
    BY <1>1
  <1>4. Shape
    BY <1>1, <1>3, StudiesConstants DEF Shape
  <1>5. PageOK
    BY <1>1, NewForm DEF PageOK
  <1>6. \A s \in PostSlots : PostOK(s)
    BY <1>2, RequestFacts DEF PostOK, AsRequest
  <1>7. \A s \in PollSlots : PollOK(s) /\ ~polls[s].live
    <2>1. TAKE s \in PollSlots
    <2>2. /\ polls[s].phase = "off" /\ polls[s].live = FALSE
          /\ polls[s] = AsRequest(polls[s])
      BY <1>2, RequestFacts
    <2>3. polls[s].live = (polls[s].phase \in {"sent", "answered", "waiting"})
      <3>1. (polls[s].phase \in {"sent", "answered", "waiting"}) = FALSE
        BY <2>2
      <3>2. QED
        BY <2>2, <3>1, Zenon
    <2>4. QED
      BY <2>2, <2>3 DEF PollOK, AsRequest
  <1>8. \A s \in LoadSlots : LoadOK(s)
    BY <1>2, RequestFacts DEF LoadOK, AsRequest
  <1>9. IsFiniteSet(SentPosts) /\ Len(jobs) + Cardinality(SentPosts) <= clicks
    <2>1. SentPosts = {}
      BY <1>2, RequestFacts DEF SentPosts
    <2>2. QED
      BY <1>1, <1>3, <2>1, FS_EmptySet
  <1>10. QED
    BY <1>3, <1>4, <1>5, <1>6, <1>7, <1>8, <1>9 DEF StudiesInv

(* Every state the pages reach keeps the invariant.                        *)
THEOREM StudiesInvariant == Spec => []StudiesInv
  <1>1. Init => StudiesInv
    BY InitInv
  <1>2. StudiesInv /\ [Next]_vars => StudiesInv'
    <2> SUFFICES ASSUME StudiesInv, [Next]_vars
                 PROVE  StudiesInv'
      OBVIOUS
    <2>1. CASE Worker
      BY <2>1, WorkerStep
    <2>2. ASSUME NEW s \in PollSlots, AnswerPoll(s) \/ ReceivePoll(s) \/ PollTimer(s)
          PROVE  StudiesInv'
      BY <2>2, AnswerPollStep, ReceivePollStep, PollTimerStep
    <2>3. ASSUME NEW s \in LoadSlots, AnswerLoad(s) \/ ReceiveLoad(s)
          PROVE  StudiesInv'
      BY <2>3, AnswerLoadStep, ReceiveLoadStep
    <2>4. ASSUME NEW s \in PostSlots, AnswerPost(s) \/ ReceivePost(s)
          PROVE  StudiesInv'
      BY <2>4, AnswerPostStep, ReceivePostStep
    <2>5. CASE Visit \/ Remount \/ EditForm
      BY <2>5, VisitStep, RemountStep, EditFormStep
    <2>6. CASE SubmitSweep \/ PickMetric \/ RunBest \/ ListTimer
      BY <2>6, SubmitSweepStep, PickMetricStep, RunBestStep, ListTimerStep
    <2>7. CASE UNCHANGED vars
      BY <2>7, StutterStep
    <2>8. QED
      BY <2>1, <2>2, <2>3, <2>4, <2>5, <2>6, <2>7 DEF Next
  <1>3. QED
    BY <1>1, <1>2, PTL DEF Spec

(* ----------------------------- what it says ---------------------------- *)

(* At every moment exactly the mounted page has a state, and a request is  *)
(* in one of its five phases.                                              *)
THEOREM PagesHaveTheirState == Spec => []TypeOK
  <1>1. StudiesInv => TypeOK
    <2> SUFFICES ASSUME StudiesInv
                 PROVE  TypeOK
      OBVIOUS
    <2>1. /\ Len(jobs) <= MaxJobs /\ \A j \in DOMAIN jobs : jobs[j].status \in Statuses
          /\ clicks \in 0..MaxClicks /\ faults \in 0..MaxFaults /\ visits \in 0..MaxVisits
      BY DEF StudiesInv, Shape, JobOK
    <2>2. page \in {"form", "result", "list"}
      BY DEF StudiesInv, PageOK
    <2>3. page = "form" <=> form # Null
      BY StudiesConstants DEF StudiesInv, PageOK
    <2>4. page = "list" <=> list # Null
      BY StudiesConstants DEF StudiesInv, PageOK
    <2>5. page = "result" <=> view # Null
      <3>1. CASE page = "result"
        <4>1. /\ view.job \in DOMAIN jobs /\ view \in ResultPages(jobs[view.job].kind)
              /\ jobs[view.job].kind \in {"sweep", "single"}
          BY <3>1 DEF StudiesInv, PageOK, JobOK, Asked
        <4>2. QED
          BY <3>1, <4>1, StudiesConstants
      <3>2. CASE page # "result"
        BY <3>2 DEF StudiesInv, PageOK
      <3>3. QED
        BY <3>1, <3>2
    <2>6. /\ (form # Null) = (page = "form") /\ (view # Null) = (page = "result")
          /\ (list # Null) = (page = "list")
      BY <2>3, <2>4, <2>5
    <2>7. ASSUME NEW s \in PollSlots
          PROVE  RequestOK(polls[s])
      <3>1. /\ polls[s].phase \in {"off", "sent", "answered", "waiting", "late"}
            /\ polls[s].live = (polls[s].phase \in {"sent", "answered", "waiting"})
        BY DEF StudiesInv, PollOK
      <3>2. QED
        BY <3>1 DEF RequestOK
    <2>8. \A s \in LoadSlots : RequestOK(loads[s])
      BY DEF StudiesInv, LoadOK, RequestOK
    <2>9. \A s \in PostSlots : RequestOK(posts[s])
      BY DEF StudiesInv, PostOK, RequestOK
    <2>10. QED
      BY <2>1, <2>2, <2>6, <2>7, <2>8, <2>9 DEF TypeOK
  <1>2. QED
    BY <1>1, StudiesInvariant, PTL

(* However often pages are left, reopened or remounted, at most one chain  *)
(* of polls goes on and no cancelled one rearms its timer; and no press of *)
(* a button becomes two jobs.                                              *)
THEOREM NothingHappensTwice == Spec => []NothingTwice
  <1>1. StudiesInv => NothingTwice
    <2> SUFFICES ASSUME StudiesInv
                 PROVE  NothingTwice
      OBVIOUS
    <2>1. ASSUME NEW s \in PollSlots, polls[s].phase = "waiting"
          PROVE  polls[s].live /\ page = "result"
      BY <2>1 DEF StudiesInv, PollOK
    <2>2. Cardinality({s \in PollSlots : polls[s].live}) <= 1
      <3> DEFINE L == {s \in PollSlots : polls[s].live}
      <3>1. \A s, t \in L : s = t
        BY DEF StudiesInv
      <3> HIDE DEF L
      <3>2. Cardinality(L) <= 1
        <4>1. CASE L = {}
          BY <4>1, FS_EmptySet
        <4>2. CASE \E x : x \in L
          <5>1. PICK x : L = {x}
            BY <3>1, <4>2
          <5>2. QED
            BY <5>1, FS_Singleton
        <4>3. QED
          BY <4>1, <4>2
      <3>3. QED
        BY <3>2 DEF L
    <2>3. Len(jobs) <= clicks
      <3>1. /\ IsFiniteSet(SentPosts) /\ Len(jobs) + Cardinality(SentPosts) <= clicks
            /\ Len(jobs) \in Nat /\ clicks \in Nat
        BY LenProperties, StudiesConstants DEF StudiesInv, Shape
      <3>2. Cardinality(SentPosts) \in Nat
        BY <3>1, FS_CardinalityType
      <3>3. QED
        BY <3>1, <3>2
    <2>4. QED
      BY <2>1, <2>2, <2>3 DEF NothingTwice, OneLivePoller, OneJobPerClick
  <1>2. QED
    BY <1>1, StudiesInvariant, PTL

(* Every sweep the worker holds is one it can run, whatever was typed and  *)
(* whichever strategy was switched to on the form.                         *)
THEOREM SweepsCanBeRun == Spec => []SweepJobsRunnable
  <1>1. StudiesInv => SweepJobsRunnable
    <2> SUFFICES ASSUME StudiesInv, NEW j \in DOMAIN jobs, jobs[j].kind = "sweep"
                 PROVE  LET p == jobs[j].params IN
                        /\ p.x.param \in ParamsOf(p.strategy.type) /\ p.x.steps >= 1
                        /\ p.y # Null => /\ p.y.param \in ParamsOf(p.strategy.type)
                                         /\ p.y.steps >= 1
                        /\ TotalCells(p.x, IF p.y = Null THEN p.x ELSE p.y, p.y # Null) <= CellCap
      BY DEF SweepJobsRunnable
    <2>1. Asked(jobs[j].kind, jobs[j].params) /\ Valid("sweep", jobs[j].params)
      BY DEF StudiesInv, JobOK
    <2>2. QED
      BY <2>1 DEF Asked, Runnable, Valid
  <1>2. QED
    BY <1>1, StudiesInvariant, PTL

(* "Run best params" always repeats the very spec the worker ran for the   *)
(* best cell, also after the sweep's record expired or when both axes      *)
(* sweep one parameter.                                                    *)
THEOREM BestCellIsRepeated == Spec => []BestRunRepeatsBestCell
  <1>1. StudiesInv => BestRunRepeatsBestCell
    <2> SUFFICES ASSUME StudiesInv, NEW j \in DOMAIN jobs, jobs[j].kind = "single"
                 PROVE  LET sweep == jobs[jobs[j].params.from]
                            best  == BestCell(sweep.result)
                            p     == sweep.params
                        IN  sweep.result # Null =>
                              jobs[j].params.strategy = CellSpec(p.strategy, p.x, p.y, best[2], best[1])
      BY DEF BestRunRepeatsBestCell
    <2>1. OfBestCell(jobs[j].params)
      BY DEF StudiesInv, JobOK, Asked
    <2>2. QED
      BY <2>1, BestSpecIsCellSpec DEF OfBestCell
  <1>2. QED
    BY <1>1, StudiesInvariant, PTL

(* A verdict on the page is never taken back: not by an answer that was    *)
(* overtaken, not by an error, not by the expiry of the record.            *)
THEOREM VerdictsStay == Spec => ShownNeverRegresses
  <1> DEFINE Stays ==
        (Shows(view) /\ Shows(view') /\ view.job = view'.job /\ posts' = posts) =>
            /\ Rank[view'.shown.status] >= Rank[view.shown.status]
            /\ view.shown.status = "completed" => view'.shown = view.shown
            /\ (view.shown.status = "completed" /\ view.error = "none")
                    => view'.error = "none"
  <1>1. StudiesInv /\ [Next]_vars => [Stays]_vars
    <2> SUFFICES ASSUME StudiesInv, Next, Shows(view), Shows(view'), posts' = posts
                 PROVE  /\ Rank[view'.shown.status] >= Rank[view.shown.status]
                        /\ view.shown.status = "completed" => view'.shown = view.shown
                        /\ (view.shown.status = "completed" /\ view.error = "none")
                                => view'.error = "none"
      BY DEF Stays
    <2>1. /\ page = "result" /\ view \in ResultPages(jobs[view.job].kind)
          /\ view.shown.status \in {"queued", "running", "completed", "failed"}
      BY DEF Shows, StudiesInv, PageOK, ResultPages, Verdicts, Statuses
    <2>2. /\ Rank["queued"] = 0 /\ Rank["running"] = 1 /\ Rank["failed"] = 2
          /\ Rank["completed"] = 2
      BY DEF Rank
    <2>3. CASE view'.shown = view.shown /\ view'.error = view.error
      BY <2>1, <2>2, <2>3
    <2>4. ASSUME NEW s \in PollSlots, ReceivePoll(s)
          PROVE  \/ view'.shown = view.shown /\ view'.error = view.error
                 \/ /\ view.shown.status \in {"queued", "running"}
                    /\ Rank[view'.shown.status] >= Rank[view.shown.status]
      <3> DEFINE a == polls[s].answer
      <3>1. CASE ~polls[s].live
        <4>1. view' = view
          BY <2>4, <3>1 DEF ReceivePoll
        <4>2. QED
          BY <4>1
      <3>2. CASE polls[s].live
        <4>1. /\ polls[s].phase = "answered" /\ view.shown.status \notin Terminal
              /\ a.code \in {"ok", "missing", "failure"}
              /\ a.code = "ok" => /\ a.job \in Verdicts(jobs[view.job].kind)
                                  /\ a.job.status = "queued" => view.shown.status = "queued"
          <5>1. PollOK(s) /\ polls[s].phase \in {"answered", "late"}
            BY <2>4 DEF StudiesInv, ReceivePoll
          <5>2. polls[s].phase = "answered"
            BY <3>2, <5>1 DEF PollOK
          <5>3. QED
            BY <3>2, <5>1, <5>2 DEF PollOK, Shows
        <4>2. \/ a.code # "ok" /\ view' = [view EXCEPT !.error = a.code]
              \/ a.code = "ok" /\ view' = [view EXCEPT !.shown = a.job]
              \/ a.code = "ok" /\ view' = [view EXCEPT !.shown = a.job, !.gaveUp = TRUE]
          BY <2>4, <3>2, <4>1 DEF ReceivePoll
        <4>3. view.shown.status \in {"queued", "running"}
          BY <2>1, <4>1 DEF Terminal
        <4>4. CASE a.code # "ok"
          <5>1. view'.shown = view.shown
            BY <2>1, <4>2, <4>4 DEF ResultPages
          <5>2. QED
            BY <2>2, <4>3, <5>1
        <4>5. CASE a.code = "ok"
          <5>1. view'.shown = a.job
            BY <2>1, <4>2, <4>5 DEF ResultPages
          <5>2. /\ a.job.status \in {"queued", "running", "completed", "failed"}
                /\ a.job.status = "queued" => view.shown.status = "queued"
            BY <4>1, <4>5 DEF Verdicts, Statuses
          <5>3. QED
            BY <2>2, <4>3, <5>1, <5>2
        <4>6. QED
          BY <4>4, <4>5
      <3>3. QED
        BY <3>1, <3>2
    <2>5. CASE \E s \in PollSlots : ReceivePoll(s)
      BY <2>3, <2>4, <2>5
    <2>6. CASE \/ Worker \/ EditForm \/ SubmitSweep \/ ListTimer \/ Remount
               \/ \E s \in PollSlots : AnswerPoll(s)
               \/ \E s \in LoadSlots : AnswerLoad(s) \/ ReceiveLoad(s)
               \/ \E s \in PostSlots : AnswerPost(s)
      <3>1. UNCHANGED view
        BY <2>6, <2>1 DEF Worker, EditForm, SubmitSweep, ListTimer, Remount, AnswerPoll,
                    AnswerLoad, ReceiveLoad, AnswerPost, Edited
      <3>2. QED
        BY <2>3, <3>1
    <2>7. CASE PickMetric \/ RunBest \/ \E s \in PollSlots : PollTimer(s)
      <3>1. \/ \E m : view' = [view EXCEPT !.metric = m]
            \/ view' = [view EXCEPT !.running = TRUE]
            \/ view' = [view EXCEPT !.age = @ + 1]
        BY <2>7 DEF PickMetric, RunBest, PollTimer
      <3>2. view'.shown = view.shown /\ view'.error = view.error
        BY <2>1, <3>1 DEF ResultPages
      <3>3. QED
        BY <2>3, <3>2
    <2>8. CASE Visit
      <3>1. view' = Null
        BY <2>1, <2>8 DEF Visit, OpenForm, OpenList
      <3>2. QED
        BY <3>1 DEF Shows
    <2>9. ASSUME NEW s \in PostSlots, ReceivePost(s)
          PROVE  view'.shown = view.shown /\ view'.error = view.error
      <3>1. CASE OpenResult(posts[s].answer.job)
        <4>1. view'.shown = Null
          BY <3>1 DEF OpenResult, FreshView
        <4>2. QED
          BY <4>1 DEF Shows
      <3>2. CASE view' = [view EXCEPT !.running = FALSE] \/ view' = view
        BY <2>1, <3>2 DEF ResultPages
      <3>3. QED
        BY <2>9, <3>1, <3>2 DEF ReceivePost
    <2>10. QED
      BY <2>3, <2>5, <2>6, <2>7, <2>8, <2>9 DEF Next
  <1>2. QED
    BY <1>1, StudiesInvariant, PTL DEF Spec, ShownNeverRegresses, Stays

(* ------------------------------ the plateau ---------------------------- *)

(* A function on a finite set is greatest somewhere: a smallest subset     *)
(* without a greatest value would have one but for any of its elements.    *)
LEMMA GreatestSomewhere ==
  ASSUME NEW S, IsFiniteSet(S), S # {}, NEW f \in [S -> Int]
  PROVE  \E x \in S : \A y \in S : f[x] >= f[y]
  <1> DEFINE Greatest(U) == \E x \in U : \A y \in U : f[x] >= f[y]
             T == {U \in SUBSET S : U # {} /\ ~Greatest(U)}
  <1>1. SUFFICES ASSUME ~Greatest(S)
                 PROVE  FALSE
    OBVIOUS
  <1>2. T \subseteq FiniteSubsetsOf(S) /\ S \in T
    BY <1>1, FS_Subset DEF FiniteSubsetsOf
  <1>3. PICK U \in T : \A V \in T : <<V, U>> \notin StrictSubsetOrdering(S)
    <2>1. T # {}
      BY <1>2
    <2> HIDE DEF T
    <2>2. QED
      BY <1>2, <2>1, FS_StrictSubsetOrderingWellFounded, WFMin
  <1>4. U \subseteq S /\ U # {} /\ ~Greatest(U)
    BY DEF T
  <1>5. PICK x : x \in U
    BY <1>4
  <1> DEFINE V == U \ {x}
  <1>6. V # {}
    <2>1. SUFFICES ASSUME V = {}
                   PROVE  FALSE
      OBVIOUS
    <2>2. U = {x} /\ f[x] \in Int
      BY <1>4, <1>5, <2>1
    <2>3. QED
      BY <1>4, <2>2
  <1>7. <<V, U>> \in StrictSubsetOrdering(S)
    BY <1>4, <1>5 DEF StrictSubsetOrdering
  <1>8. Greatest(V)
    <2>1. V \notin T
      BY <1>3, <1>7
    <2>2. V \in SUBSET S
      BY <1>4
    <2> HIDE DEF V, Greatest
    <2>3. QED
      BY <1>6, <2>1, <2>2
  <1>9. PICK m \in V : \A y \in V : f[m] >= f[y]
    BY <1>8
  <1>10. \A y \in U : f[y] \in Int /\ (y = x \/ y \in V)
    BY <1>4
  <1>11. CASE f[m] >= f[x]
    <2>1. \A y \in U : f[m] >= f[y]
      BY <1>9, <1>10, <1>11
    <2>2. QED
      BY <1>4, <1>9, <2>1
  <1>12. CASE ~(f[m] >= f[x])
    <2>1. \A y \in U : f[x] >= f[y]
      BY <1>5, <1>9, <1>10, <1>12
    <2>2. QED
      BY <1>4, <1>5, <2>1
  <1>13. QED
    BY <1>11, <1>12

LEMMA GridCells ==
  ASSUME NEW grid \in Grids, NEW m \in Metrics
  PROVE  /\ IsFiniteSet(Positions(grid))
         /\ \A p \in Positions(grid) :
               /\ grid[p[1]][p[2]] \in Cells
               /\ Score(grid[p[1]][p[2]], m) \in Int \cup {Null}
  <1>1. /\ grid \in Seq(Seq(Cells)) /\ Len(grid) >= 1
        /\ \A y \in DOMAIN grid : DOMAIN grid[y] = DOMAIN grid[1]
    BY StudiesAssumption
  <1>2. DOMAIN grid = 1 .. Len(grid) /\ Len(grid) \in Nat
    BY <1>1, LenProperties
  <1>3. 1 \in DOMAIN grid /\ \A y \in DOMAIN grid : grid[y] \in Seq(Cells)
    BY <1>1, <1>2, ElementOfSeq
  <1>4. DOMAIN grid[1] = 1 .. Len(grid[1]) /\ Len(grid[1]) \in Nat
    BY <1>3, LenProperties
  <1>5. Positions(grid) = (DOMAIN grid) \X (DOMAIN grid[1])
    BY DEF Positions
  <1>6. IsFiniteSet(Positions(grid))
    <2>1. IsFiniteSet(DOMAIN grid) /\ IsFiniteSet(DOMAIN grid[1])
      <3>1. /\ 1 \in Int /\ Len(grid) \in Int /\ Len(grid[1]) \in Int
        BY <1>2, <1>4
      <3>2. IsFiniteSet(1 .. Len(grid)) /\ IsFiniteSet(1 .. Len(grid[1]))
        BY <3>1, FS_Interval, Zenon
      <3>3. QED
        BY <1>2, <1>4, <3>2, Zenon
    <2>2. QED
      BY <1>5, <2>1, FS_Product
  <1>7. ASSUME NEW p \in Positions(grid)
        PROVE  /\ grid[p[1]][p[2]] \in Cells
               /\ Score(grid[p[1]][p[2]], m) \in Int \cup {Null}
    <2>1. p[1] \in DOMAIN grid /\ p[2] \in DOMAIN grid[1]
      BY <1>5
    <2>2. grid[p[1]] \in Seq(Cells) /\ p[2] \in DOMAIN grid[p[1]]
      BY <1>1, <1>3, <2>1
    <2>3. grid[p[1]][p[2]] \in Cells
      <3>1. \A s \in Seq(Cells) : \A i \in DOMAIN s : s[i] \in Cells
        BY LenProperties, ElementOfSeq
      <3>2. QED
        BY <2>2, <3>1
    <2>4. \A c \in Cells : Score(c, m) \in Int \cup {Null}
      <3>1. Metrics = {"net_pnl", "sharpe", "max_drawdown"}
        BY DEF Metrics, HigherIsBetter
      <3>2. \A c \in Cells : c[m] \in Int \cup {Null}
        BY <3>1 DEF Cells
      <3>3. QED
        BY <3>1, <3>2 DEF Score
    <2>5. QED
      BY <2>3, <2>4
  <1>8. QED
    BY <1>6, <1>7

(* The peak is at least every number of the grid.                          *)
LEMMA PeakIsGreatest ==
  ASSUME NEW grid \in Grids, NEW m \in Metrics, Numbers(grid, m) # {}
  PROVE  /\ Peak(grid, m) \in Int
         /\ \A p \in Numbers(grid, m) : /\ Score(grid[p[1]][p[2]], m) \in Int
                                        /\ Peak(grid, m) >= Score(grid[p[1]][p[2]], m)
  <1> DEFINE N == Numbers(grid, m)
             f == [p \in N |-> Score(grid[p[1]][p[2]], m)]
             V == {Score(grid[p[1]][p[2]], m) : p \in N}
  <1>1. N \subseteq Positions(grid) /\ IsFiniteSet(N)
    BY GridCells, FS_Subset DEF Numbers
  <1>2. f \in [N -> Int]
    BY GridCells DEF Numbers
  <1>3. \A v : v \in V <=> \E p \in N : v = f[p]
    OBVIOUS
  <1>4. Peak(grid, m) = CHOOSE x \in V : \A y \in V : x >= y
    BY DEF Peak, Max
  <1>5. \A p \in N : f[p] = Score(grid[p[1]][p[2]], m)
    OBVIOUS
  <1> HIDE DEF N, f, V
  <1>6. PICK p \in N : \A q \in N : f[p] >= f[q]
    BY <1>1, <1>2, GreatestSomewhere DEF N
  <1>7. f[p] \in V /\ \A y \in V : f[p] >= y
    BY <1>3, <1>6
  <1>8. Peak(grid, m) \in V /\ \A y \in V : Peak(grid, m) >= y
    BY <1>4, <1>7
  <1>9. QED
    BY <1>2, <1>3, <1>5, <1>8 DEF N

(* A cell outlined as plateau ran, is within a tenth of the best cell that *)
(* ran, and has two neighbours that are as good.                           *)
THEOREM PlateausAreReal == Spec => []PlateauIsReal
  <1>1. StudiesInv => PlateauIsReal
    <2> SUFFICES ASSUME StudiesInv, ShowsGrid
                 PROVE  PlateauIsReal
      BY Zenon DEF PlateauIsReal
    <2> DEFINE grid == view.shown.result
               m    == view.metric
               ran  == {p \in Numbers(grid, m) : ~grid[p[1]][p[2]].err}
               val(p) == Score(grid[p[1]][p[2]], m)
               good == {p \in ran : \A q \in ran : 10 * val(p) >= 9 * val(q)}
    <2>1. grid \in Grids /\ m \in Metrics
      <3>1. Finished(view.job) /\ jobs[view.job].kind = "sweep"
            /\ view.shown.result = jobs[view.job].result /\ view \in ResultPages("sweep")
        BY GridShown
      <3>2. QED
        BY <3>1 DEF Finished, Outcomes, ResultPages
    <2>2. SUFFICES ASSUME NEW p \in Plateau(grid, m)
                   PROVE  p \in good /\ Cardinality(Neighbours(p) \cap good) >= 2
      BY Zenon DEF PlateauIsReal
    <2> HIDE DEF grid, m
    <2>3. ASSUME NEW q, Passes(grid, m, q)
          PROVE  q \in good
      <3>1. q \in Numbers(grid, m) /\ q \in ran /\ 10 * val(q) >= 9 * Peak(grid, m)
        BY <2>3 DEF Passes
      <3>2. /\ Peak(grid, m) \in Int
            /\ \A x \in Numbers(grid, m) : val(x) \in Int /\ Peak(grid, m) >= val(x)
        BY <2>1, <3>1, PeakIsGreatest
      <3>3. ASSUME NEW x \in ran
            PROVE  10 * val(q) >= 9 * val(x)
        <4>1. val(x) \in Int /\ Peak(grid, m) >= val(x) /\ val(q) \in Int
          BY <3>1, <3>2
        <4> HIDE DEF val
        <4>2. QED
          BY <3>1, <3>2, <4>1
      <3>4. QED
        BY <3>1, <3>3
    <2>4. Passes(grid, m, p) /\ Cardinality({q \in Neighbours(p) : Passes(grid, m, q)}) >= 2
      BY DEF Plateau, Quantify
    <2> HIDE DEF good
    <2>5. {q \in Neighbours(p) : Passes(grid, m, q)} \subseteq Neighbours(p) \cap good
      BY <2>3
    <2>6. IsFiniteSet(Neighbours(p))
      <3>1. \A a, b, c, d : IsFiniteSet({a, b, c, d})
        <4>1. TAKE a, b, c, d
        <4>2. IsFiniteSet({a, b})
          <5>1. {a, b} = {a} \cup {b} /\ IsFiniteSet({a})
            BY FS_Singleton
          <5>2. QED
            BY <5>1, FS_AddElement
        <4>3. IsFiniteSet({a, b, c})
          <5>1. {a, b, c} = {a, b} \cup {c}
            OBVIOUS
          <5>2. QED
            BY <4>2, <5>1, FS_AddElement
        <4>4. QED
          <5>1. {a, b, c, d} = {a, b, c} \cup {d}
            OBVIOUS
          <5>2. QED
            BY <4>3, <5>1, FS_AddElement
      <3>2. QED
        BY <3>1 DEF Neighbours
    <2>7. Cardinality(Neighbours(p) \cap good) >= 2
      <3> DEFINE A == {q \in Neighbours(p) : Passes(grid, m, q)}
                 B == Neighbours(p) \cap good
      <3>1. IsFiniteSet(B) /\ A \subseteq B /\ Cardinality(A) >= 2
        BY <2>4, <2>5, <2>6, FS_Subset
      <3> HIDE DEF A, B
      <3>2. IsFiniteSet(A) /\ Cardinality(A) <= Cardinality(B)
        BY <3>1, FS_Subset
      <3>3. Cardinality(A) \in Nat /\ Cardinality(B) \in Nat
        BY <3>1, <3>2, FS_CardinalityType
      <3>4. QED
        BY <3>1, <3>2, <3>3 DEF B
    <2>8. QED
      BY <2>3, <2>4, <2>7
  <1>2. QED
    BY <1>1, StudiesInvariant, PTL

(* --------------------------- the equity curve -------------------------- *)

(* A slope s bounds the tangent t, a ratio, at either end of its step.     *)
Fits(t, s) ==
    /\ t[1] \in Int /\ t[2] \in Nat \ {0}
    /\ s >= 0 => 0 <= t[1] /\ t[1] <= 3 * (t[2] * s)
    /\ s <= 0 => 3 * (t[2] * s) <= t[1] /\ t[1] <= 0

LEMMA Pairs ==
  \A a, b : <<a, b>>[1] = a /\ <<a, b>>[2] = b
  OBVIOUS

LEMMA EndFits ==
  ASSUME NEW s \in Int
  PROVE  Fits(<<s, 1>>, s) /\ Fits(<<0, 1>>, s)
  BY Pairs DEF Fits

LEMMA SignOfProduct ==
  ASSUME NEW a \in Int, NEW b \in Int
  PROVE  /\ a >= 0 /\ b >= 0 => a * b >= 0
         /\ a >= 0 /\ b <= 0 => a * b <= 0
         /\ a <= 0 /\ b >= 0 => a * b <= 0
         /\ a <= 0 /\ b <= 0 => a * b >= 0
  <1>1. a * b \in Int
    OBVIOUS
  <1>2. CASE a >= 0
    <2>1. a \in Nat
      BY <1>2
    <2>2. b >= 0 => a * b >= a * 0
      BY <2>1, Products
    <2>3. b <= 0 => a * b <= a * 0
      BY <2>1, Products
    <2>4. a * 0 = 0
      OBVIOUS
    <2>5. a <= 0 => a = 0
      BY <1>2
    <2>6. QED
      BY <2>2, <2>3, <2>4, <2>5
  <1>3. CASE a <= 0
    <2> DEFINE c == 0 - a
    <2>1. c \in Nat
      BY <1>3
    <2>2. b >= 0 => c * b >= c * 0
      BY <2>1, Products
    <2>3. b <= 0 => c * b <= c * 0
      BY <2>1, Products
    <2>4. c * 0 = 0 /\ c * b = 0 - a * b
      OBVIOUS
    <2>5. a >= 0 => a = 0
      BY <1>3
    <2> HIDE DEF c
    <2>6. QED
      BY <1>1, <2>2, <2>3, <2>4, <2>5
  <1>4. QED
    BY <1>2, <1>3

(* Where the curve goes on in its direction, the tangent is the harmonic   *)
(* mean of the two slopes, which is less than twice either.                *)
LEMMA MeanFits ==
  ASSUME NEW a \in Int, NEW b \in Int, a * b > 0
  PROVE  LET t == IF b > 0 THEN <<2 * a * b, a + b>> ELSE <<0 - 2 * a * b, 0 - (a + b)>>
         IN  Fits(t, a) /\ Fits(t, b)
  <1> DEFINE p == a * b
             q == a * a
             r == b * b
  <1>1. /\ p \in Int /\ q \in Int /\ r \in Int /\ p > 0 /\ q >= 0 /\ r >= 0
        /\ 2 * a * b = 2 * p
    <2>1. q >= 0 /\ r >= 0
      BY SignOfProduct
    <2>2. QED
      BY <2>1
  <1>2. (a + b) * a = q + p /\ (a + b) * b = p + r
    OBVIOUS
  <1>3. (0 - (a + b)) * a = 0 - (q + p) /\ (0 - (a + b)) * b = 0 - (p + r)
    OBVIOUS
  <1>4. CASE b > 0
    <2>1. a > 0
      BY <1>1, <1>4, SignOfProduct
    <2> DEFINE t == <<2 * a * b, a + b>>
    <2>2. t[1] = 2 * p /\ t[2] = a + b
      BY <1>1, Pairs
    <2>3. t[2] * a = q + p /\ t[2] * b = p + r /\ t[2] \in Nat \ {0}
      BY <1>2, <1>4, <2>1, <2>2
    <2> HIDE DEF p, q, r, t
    <2>4. Fits(t, a) /\ Fits(t, b)
      BY <1>1, <1>4, <2>1, <2>2, <2>3 DEF Fits
    <2>5. QED
      BY <1>4, <2>4 DEF t
  <1>5. CASE b <= 0
    <2>1. a < 0 /\ b < 0
      <3>1. b # 0
        BY <1>1
      <3>2. QED
        BY <1>1, <1>5, <3>1, SignOfProduct
    <2> DEFINE t == <<0 - 2 * a * b, 0 - (a + b)>>
    <2>2. t[1] = 0 - 2 * p /\ t[2] = 0 - (a + b)
      BY <1>1, Pairs
    <2>3. /\ t[2] * a = 0 - (q + p) /\ t[2] * b = 0 - (p + r)
          /\ t[2] \in Nat \ {0}
      BY <1>3, <2>1, <2>2
    <2> HIDE DEF p, q, r, t
    <2>4. Fits(t, a) /\ Fits(t, b)
      BY <1>1, <1>5, <2>1, <2>2, <2>3 DEF Fits
    <2>5. QED
      BY <1>5, <2>4 DEF t
  <1>6. QED
    BY <1>4, <1>5

(* The points of a curve.                                                  *)
Points(ys, n) ==
    n \in Nat /\ n >= 2 /\ Len(ys) = n /\ \A i \in 1 .. n : ys[i] \in Int

LEMMA TangentIs ==
  ASSUME NEW n, NEW ys, Points(ys, n), NEW i \in 1 .. n
  PROVE  /\ i = 1 => Views!Tangent(ys, i) = <<Views!Slope(ys, 1), 1>>
         /\ i = n => Views!Tangent(ys, i) = <<Views!Slope(ys, n - 1), 1>>
         /\ i \in 2 .. (n - 1) =>
              LET a == Views!Slope(ys, i - 1)
                  b == Views!Slope(ys, i)
              IN  Views!Tangent(ys, i) =
                    IF a * b <= 0 THEN <<0, 1>>
                    ELSE IF b > 0 THEN <<2 * a * b, a + b>>
                    ELSE <<0 - 2 * a * b, 0 - (a + b)>>
  <1>1. n \in Nat /\ n >= 2 /\ Len(ys) = n
    BY DEF Points
  <1>2. CASE i = 1
    <2>1. i # n /\ i \notin 2 .. (n - 1)
      BY <1>1, <1>2
    <2>2. QED
      BY <1>1, <1>2, <2>1, Zenon DEF Views!Tangent
  <1>3. CASE i = n
    <2>1. i # 1 /\ i \notin 2 .. (n - 1)
      BY <1>1, <1>3
    <2>2. QED
      BY <1>1, <1>3, <2>1, Zenon DEF Views!Tangent
  <1>4. CASE i \in 2 .. (n - 1)
    <2>1. i # 1 /\ i # n
      BY <1>1, <1>4
    <2> DEFINE a == Views!Slope(ys, i - 1)
               b == Views!Slope(ys, i)
    <2>2. CASE a * b <= 0
      BY <1>1, <1>4, <2>1, <2>2, Zenon DEF Views!Tangent
    <2>3. CASE ~(a * b <= 0)
      BY <1>1, <1>4, <2>1, <2>3, Zenon DEF Views!Tangent
    <2>4. QED
      BY <2>1, <2>2, <2>3
  <1>5. QED
    BY <1>1, <1>2, <1>3, <1>4

LEMMA TangentFits ==
  ASSUME NEW n, NEW ys, Points(ys, n), NEW i \in 1 .. n
  PROVE  /\ i < n => Fits(Views!Tangent(ys, i), Views!Slope(ys, i))
         /\ i > 1 => Fits(Views!Tangent(ys, i), Views!Slope(ys, i - 1))
  <1>1. n \in Nat /\ n >= 2
    BY DEF Points
  <1>2. \A j \in 1 .. (n - 1) : Views!Slope(ys, j) \in Int
    BY <1>1 DEF Points, Views!Slope
  <1>3. CASE i = 1
    <2>1. Views!Tangent(ys, i) = <<Views!Slope(ys, i), 1>> /\ Views!Slope(ys, i) \in Int
      BY <1>1, <1>2, <1>3, TangentIs
    <2>2. QED
      BY <1>3, <2>1, EndFits
  <1>4. CASE i = n
    <2>1. Views!Tangent(ys, i) = <<Views!Slope(ys, i - 1), 1>> /\ Views!Slope(ys, i - 1) \in Int
      BY <1>1, <1>2, <1>4, TangentIs
    <2>2. QED
      BY <1>4, <2>1, EndFits
  <1>5. CASE i \in 2 .. (n - 1)
    <2> DEFINE a == Views!Slope(ys, i - 1)
               b == Views!Slope(ys, i)
    <2>1. a \in Int /\ b \in Int
      BY <1>1, <1>2, <1>5
    <2>2. Views!Tangent(ys, i) =
                    IF a * b <= 0 THEN <<0, 1>>
                    ELSE IF b > 0 THEN <<2 * a * b, a + b>>
                    ELSE <<0 - 2 * a * b, 0 - (a + b)>>
      BY <1>5, TangentIs
    <2> HIDE DEF a, b
    <2>3. CASE a * b <= 0
      <3>1. Views!Tangent(ys, i) = <<0, 1>>
        BY <2>2, <2>3
      <3>2. Fits(<<0, 1>>, a) /\ Fits(<<0, 1>>, b)
        BY <2>1, EndFits
      <3>3. QED
        BY <3>1, <3>2 DEF a, b
    <2>4. CASE ~(a * b <= 0)
      <3>1. a * b > 0
        BY <2>1, <2>4
      <3>2. Fits(Views!Tangent(ys, i), a) /\ Fits(Views!Tangent(ys, i), b)
        BY <2>1, <2>2, <2>4, <3>1, MeanFits, Zenon
      <3>3. QED
        BY <3>2 DEF a, b
    <2>5. QED
      BY <2>3, <2>4
  <1>6. QED
    BY <1>1, <1>3, <1>4, <1>5

(* A third of a step along a tangent that fits stays within the step.      *)
LEMMA ThirdStays ==
  ASSUME NEW y \in Int, NEW z \in Int, NEW t, Fits(t, z - y)
  PROVE  LET lo == IF y < z THEN y ELSE z
             hi == y + z - lo
         IN  /\ lo * (3 * t[2]) <= 3 * t[2] * y + t[1] /\ 3 * t[2] * y + t[1] <= hi * (3 * t[2])
             /\ lo * (3 * t[2]) <= 3 * t[2] * z - t[1] /\ 3 * t[2] * z - t[1] <= hi * (3 * t[2])
  <1> DEFINE d == t[2]
             s == z - y
  <1>1. t[1] \in Int /\ d \in Nat \ {0} /\ s \in Int
    BY DEF Fits
  <1>2. d * y \in Int /\ d * z \in Int
    BY <1>1
  <1>3. /\ y * (3 * d) = 3 * (d * y) /\ z * (3 * d) = 3 * (d * z)
        /\ 3 * d * y = 3 * (d * y) /\ 3 * d * z = 3 * (d * z)
        /\ d * s = d * z - d * y
    BY <1>1
  <1>4. /\ s >= 0 => 0 <= t[1] /\ t[1] <= 3 * (d * s)
        /\ s <= 0 => 3 * (d * s) <= t[1] /\ t[1] <= 0
    BY DEF Fits
  <1> HIDE DEF d
  <1>5. CASE y < z
    <2>1. s >= 0 /\ y + z - y = z
      BY <1>5
    <2> HIDE DEF s
    <2>2. QED
      BY <1>1, <1>2, <1>3, <1>4, <1>5, <2>1 DEF d
  <1>6. CASE ~(y < z)
    <2>1. s <= 0 /\ y + z - z = y
      BY <1>6
    <2> HIDE DEF s
    <2>2. QED
      BY <1>1, <1>2, <1>3, <1>4, <1>6, <2>1 DEF d
  <1>7. QED
    BY <1>5, <1>6

LEMMA SplineStays ==
  ASSUME NEW n, NEW ys, Points(ys, n), NEW i \in 1 .. (n - 1)
  PROVE  LET lo == IF ys[i] < ys[i + 1] THEN ys[i] ELSE ys[i + 1]
             hi == ys[i] + ys[i + 1] - lo
         IN  \A k \in 1 .. 2 : LET c == Views!ControlPoints(ys, i)[k]
                               IN  lo * c[2] <= c[1] /\ c[1] <= hi * c[2]
  <1> DEFINE y == ys[i]
             z == ys[i + 1]
             a == Views!Tangent(ys, i)
             b == Views!Tangent(ys, i + 1)
             lo == IF y < z THEN y ELSE z
             hi == y + z - lo
             C == Views!ControlPoints(ys, i)
  <1>1. n \in Nat /\ i \in 1 .. n /\ i + 1 \in 1 .. n /\ i < n /\ i + 1 > 1 /\ (i + 1) - 1 = i
    BY DEF Points
  <1>2. y \in Int /\ z \in Int /\ Views!Slope(ys, i) = z - y
    BY <1>1 DEF Points, Views!Slope
  <1>3. Fits(a, z - y) /\ Fits(b, z - y)
    <2>1. Fits(a, Views!Slope(ys, i))
      BY <1>1, TangentFits
    <2>2. Fits(b, Views!Slope(ys, (i + 1) - 1))
      BY <1>1, TangentFits
    <2>3. QED
      BY <1>1, <1>2, <2>1, <2>2
  <1>4. /\ C[1][1] = 3 * a[2] * y + a[1] /\ C[1][2] = 3 * a[2]
        /\ C[2][1] = 3 * b[2] * z - b[1] /\ C[2][2] = 3 * b[2]
    <2>1. /\ C[1] = <<3 * a[2] * y + a[1], 3 * a[2]>>
          /\ C[2] = <<3 * b[2] * z - b[1], 3 * b[2]>>
      BY Pairs, Zenon DEF Views!ControlPoints
    <2> HIDE DEF a, b, y, z, C
    <2>2. QED
      BY <2>1, Pairs
  <1> HIDE DEF a, b, y, z, C
  <1>5. /\ lo * (3 * a[2]) <= 3 * a[2] * y + a[1] /\ 3 * a[2] * y + a[1] <= hi * (3 * a[2])
        /\ lo * (3 * b[2]) <= 3 * b[2] * z - b[1] /\ 3 * b[2] * z - b[1] <= hi * (3 * b[2])
    BY <1>2, <1>3, ThirdStays, Zenon
  <1> HIDE DEF lo, hi
  <1>6. \A k \in 1 .. 2 : lo * C[k][2] <= C[k][1] /\ C[k][1] <= hi * C[k][2]
    <2>1. \A k \in 1 .. 2 : k = 1 \/ k = 2
      OBVIOUS
    <2>2. lo * C[1][2] <= C[1][1] /\ C[1][1] <= hi * C[1][2]
      BY <1>4, <1>5, Zenon
    <2>3. lo * C[2][2] <= C[2][1] /\ C[2][1] <= hi * C[2][2]
      BY <1>4, <1>5, Zenon
    <2>4. QED
      BY <2>1, <2>2, <2>3, Zenon
  <1>7. QED
    BY <1>6, Zenon DEF lo, hi, y, z, C

(* The page's own copies of the operators are the library's.               *)
LEMMA ViewOperators ==
  /\ \A f, S : Views!SumFunctionOnSet(f, S) = SumFunctionOnSet(f, S)
  /\ \A f : Views!Total(f) = SumFunctionOnSet(f, DOMAIN f)
  /\ \A S : Views!Cardinality(S) = Cardinality(S)
  /\ \A S : Views!Min(S) = Min(S)
  <1>1. \A f, S : Views!SumFunctionOnSet(f, S) = SumFunctionOnSet(f, S)
    BY DEF Views!SumFunctionOnSet, Views!FoldFunctionOnSet, Views!MapThenFoldSet,
           SumFunctionOnSet, FoldFunctionOnSet, MapThenFoldSet
  <1>2. \A f : Views!Total(f) = SumFunctionOnSet(f, DOMAIN f)
    BY <1>1 DEF Views!Total, Views!SumFunction
  <1>3. \A S : Views!Cardinality(S) = Cardinality(S)
    BY DEF Views!Cardinality, Cardinality
  <1>4. \A S : Views!Min(S) = Min(S)
    BY DEF Views!Min, Min
  <1>5. QED
    BY <1>1, <1>2, <1>3, <1>4

LEMMA TradeFacts ==
  ASSUME NEW trades \in Seq(Views!Trade)
  PROVE  /\ Len(trades) \in Nat /\ DOMAIN trades = 1 .. Len(trades)
         /\ IsFiniteSet(DOMAIN trades) /\ Cardinality(DOMAIN trades) = Len(trades)
         /\ \A i \in DOMAIN trades :
               /\ Views!Gross(trades[i]) \in Int
               /\ trades[i].fees \in Int /\ trades[i].exposure \in Int
               /\ trades[i].pnl # Null =>
                     /\ trades[i].pnl = Views!Gross(trades[i])
                     /\ Views!Net(trades[i]) = Views!Gross(trades[i]) - trades[i].fees
  <1>1. /\ Len(trades) \in Nat /\ DOMAIN trades = 1 .. Len(trades)
        /\ \A i \in DOMAIN trades : trades[i] \in Views!Trade
    OBVIOUS
  <1>2. IsFiniteSet(DOMAIN trades) /\ Cardinality(DOMAIN trades) = Len(trades)
    BY <1>1, FS_Interval, SMTT(30)
  <1>3. \A t \in Views!Trade : /\ Views!Gross(t) \in Int /\ t.fees \in Int /\ t.exposure \in Int
                               /\ t.pnl # Null => /\ t.pnl = Views!Gross(t)
                                                  /\ Views!Net(t) = Views!Gross(t) - t.fees
    BY DEF Views!Trade, Views!Gross, Views!Net
  <1>4. QED
    BY <1>1, <1>2, <1>3

(* What each trade adds to the curve.                                      *)
CurveSteps(trades) ==
    [i \in DOMAIN trades |-> IF Views!HasPnl(trades) THEN Views!Gross(trades[i]) - trades[i].fees
                             ELSE trades[i].exposure]
UpTo(trades, k) == {i \in DOMAIN trades : Views!Place(trades, i) <= k}

LEMMA CurveIs ==
  ASSUME NEW trades \in Seq(Views!Trade), Views!EquityCurve(trades) # <<>>
  PROVE  /\ Points(Views!EquityCurve(trades), Len(trades))
         /\ Views!EquityCurve(trades)[Len(trades)] =
               SumFunctionOnSet(CurveSteps(trades), DOMAIN trades)
  <1> DEFINE n == Len(trades)
             S == DOMAIN trades
             steps == CurveSteps(trades)
             curve == Views!EquityCurve(trades)
  <1>1. n \in Nat /\ S = 1 .. n /\ IsFiniteSet(S) /\ Cardinality(S) = n
    BY TradeFacts
  <1>2. n >= 2 /\ curve = [k \in S |-> SumFunctionOnSet(steps, UpTo(trades, k))]
    <2>1. curve = IF n < 2 THEN <<>>
                  ELSE [k \in S |-> SumFunctionOnSet(steps, UpTo(trades, k))]
      BY ViewOperators DEF Views!EquityCurve, Views!Cumulative, CurveSteps, UpTo
    <2> HIDE DEF curve, steps
    <2>2. ~(n < 2)
      BY <2>1 DEF curve
    <2>3. QED
      BY <1>1, <2>1, <2>2
  <1>3. \A i \in S : steps[i] \in Int
    BY TradeFacts DEF CurveSteps
  <1>4. \A k : UpTo(trades, k) \subseteq S /\ IsFiniteSet(UpTo(trades, k))
    <2>1. \A k : UpTo(trades, k) \subseteq S
      BY DEF UpTo
    <2>2. QED
      BY <1>1, <2>1, FS_Subset
  <1> HIDE DEF steps
  <1>5. \A k \in S : SumFunctionOnSet(steps, UpTo(trades, k)) \in Int
    <2> TAKE k \in S
    <2>1. \A i \in UpTo(trades, k) : steps[i] \in Int
      BY <1>3, <1>4
    <2>2. QED
      BY <1>4, <2>1, SumInt
  <1>6. UpTo(trades, n) = S
    <2>1. ASSUME NEW i \in S PROVE Views!Place(trades, i) <= n
      <3> DEFINE before == {j \in S : \/ trades[j].ts < trades[i].ts
                                      \/ trades[j].ts = trades[i].ts /\ j <= i}
      <3>1. Views!Place(trades, i) = Cardinality(before)
        BY ViewOperators DEF Views!Place
      <3>2. before \subseteq S
        OBVIOUS
      <3> HIDE DEF before
      <3>3. Cardinality(before) <= Cardinality(S)
        BY <1>1, <3>2, FS_Subset
      <3>4. QED
        BY <1>1, <3>1, <3>3
    <2>2. QED
      BY <2>1 DEF UpTo
  <1>7. Len(curve) = n /\ n \in S /\ \A k \in S : curve[k] = SumFunctionOnSet(steps, UpTo(trades, k))
    <2>1. DOMAIN curve = 1 .. n /\ \A k \in S : curve[k] = SumFunctionOnSet(steps, UpTo(trades, k))
      BY <1>1, <1>2
    <2> HIDE DEF curve
    <2>2. QED
      BY <1>1, <1>2, <2>1, LenProperties
  <1> HIDE DEF curve
  <1>8. Points(curve, n)
    BY <1>1, <1>2, <1>5, <1>7 DEF Points
  <1>9. curve[n] = SumFunctionOnSet(steps, S)
    BY <1>6, <1>7
  <1>10. QED
    BY <1>8, <1>9 DEF curve, steps

GrossOf(trades) == [i \in DOMAIN trades |-> Views!Gross(trades[i])]
FeesOf(trades)  == [i \in DOMAIN trades |-> trades[i].fees]

(* The engine's totals, and what wins and losses make of the gross.        *)
LEMMA TotalsAre ==
  ASSUME NEW r, r.trades \in Seq(Views!Trade),
         r = Views!EngineResult(r.trades, r.max_drawdown)
  PROVE  LET S == DOMAIN r.trades
             wins == SumFunctionOnSet(Views!Wins(r.trades), S)
             losses == SumFunctionOnSet(Views!Losses(r.trades), S)
         IN  /\ r.total_pnl = SumFunctionOnSet(GrossOf(r.trades), S)
             /\ r.total_fees = SumFunctionOnSet(FeesOf(r.trades), S)
             /\ wins \in Nat /\ losses \in Nat /\ r.total_pnl = wins - losses
             /\ Views!StatsGrid(r).factor = IF wins = 0 /\ losses = 0 THEN Null ELSE <<wins, losses>>
  <1> DEFINE ts == r.trades
             S == DOMAIN ts
             W == Views!Wins(ts)
             L == Views!Losses(ts)
             G == GrossOf(ts)
             F == FeesOf(ts)
  <1>1. DOMAIN W = S /\ DOMAIN L = S /\ DOMAIN G = S /\ DOMAIN F = S
    BY DEF Views!Wins, Views!Losses, GrossOf, FeesOf
  <1>2. IsFiniteSet(S) /\ \A i \in S : Views!Gross(ts[i]) \in Int
    BY TradeFacts
  <1>3. \A i \in S : W[i] \in Nat /\ L[i] \in Nat /\ G[i] = W[i] - L[i]
    BY <1>2 DEF Views!Wins, Views!Losses, GrossOf
  <1>4. /\ Views!Total(W) = SumFunctionOnSet(W, S) /\ Views!Total(L) = SumFunctionOnSet(L, S)
        /\ Views!Total(G) = SumFunctionOnSet(G, S) /\ Views!Total(F) = SumFunctionOnSet(F, S)
    BY <1>1, ViewOperators, Zenon
  <1>5. r.total_pnl = Views!Total(G) /\ r.total_fees = Views!Total(F)
    <2>1. \A d : /\ Views!EngineResult(ts, d).total_pnl = Views!Total(G)
                 /\ Views!EngineResult(ts, d).total_fees = Views!Total(F)
      BY DEF Views!EngineResult, GrossOf, FeesOf
    <2> HIDE DEF G, F
    <2>2. QED
      BY <2>1, Zenon
  <1>6. Views!StatsGrid(r).factor =
          IF Views!Total(W) = 0 /\ Views!Total(L) = 0 THEN Null ELSE <<Views!Total(W), Views!Total(L)>>
    BY DEF Views!StatsGrid
  <1> HIDE DEF W, L, G, F, S
  <1>7. SumFunctionOnSet(W, S) \in Nat /\ SumFunctionOnSet(L, S) \in Nat
    BY <1>2, <1>3, SumIsNat
  <1>8. SumFunctionOnSet(G, S) = SumFunctionOnSet(W, S) - SumFunctionOnSet(L, S)
    <2>1. Differs(G, W, L, S)
      BY <1>3 DEF Differs
    <2>2. QED
      BY <1>2, <2>1, SumLess
  <1>9. /\ r.total_pnl = SumFunctionOnSet(G, S) /\ r.total_fees = SumFunctionOnSet(F, S)
        /\ r.total_pnl = SumFunctionOnSet(W, S) - SumFunctionOnSet(L, S)
    BY <1>4, <1>5, <1>8, Zenon
  <1>10. Views!StatsGrid(r).factor =
           IF SumFunctionOnSet(W, S) = 0 /\ SumFunctionOnSet(L, S) = 0 THEN Null
           ELSE <<SumFunctionOnSet(W, S), SumFunctionOnSet(L, S)>>
    BY <1>4, <1>6, Zenon
  <1>11. QED
    BY <1>7, <1>9, <1>10, Zenon DEF W, L, G, F, S

(* With a P&L for every trade the curve ends at the net of the totals, and *)
(* so does the table if it shows every trade.                              *)
LEMMA NetOfAll ==
  ASSUME NEW trades \in Seq(Views!Trade), Views!EquityCurve(trades) # <<>>,
         \A i \in DOMAIN trades : trades[i].pnl # Null
  PROVE  LET S == DOMAIN trades
             net == SumFunctionOnSet(GrossOf(trades), S) - SumFunctionOnSet(FeesOf(trades), S)
         IN  /\ SumFunctionOnSet(CurveSteps(trades), S) = net
             /\ Views!TradesTable(trades).more \/ Views!Total(Views!TradesTable(trades).rows) = net
  <1> DEFINE n == Len(trades)
             S == DOMAIN trades
             steps == CurveSteps(trades)
             G == GrossOf(trades)
             F == FeesOf(trades)
             table == Views!TradesTable(trades)
  <1>1. n \in Nat /\ n >= 2 /\ S = 1 .. n /\ IsFiniteSet(S)
    BY TradeFacts, CurveIs DEF Points
  <1>2. Views!HasPnl(trades)
    <2>1. 1 \in S
      BY <1>1
    <2>2. QED
      BY <2>1 DEF Views!HasPnl
  <1>3. \A i \in S : /\ G[i] = Views!Gross(trades[i]) /\ G[i] \in Int
                     /\ F[i] = trades[i].fees /\ F[i] \in Int
                     /\ steps[i] = G[i] - F[i] /\ Views!Net(trades[i]) = steps[i]
    BY <1>2, TradeFacts DEF GrossOf, FeesOf, CurveSteps
  <1>4. SumFunctionOnSet(steps, S) = SumFunctionOnSet(G, S) - SumFunctionOnSet(F, S)
    <2> HIDE DEF steps, G, F, S
    <2>1. Differs(steps, G, F, S)
      BY <1>3 DEF Differs
    <2>2. QED
      BY <1>1, <2>1, SumLess
  <1>5. CASE ~table.more
    <2>1. RowCap \in Nat /\ n <= RowCap
      <3>1. ~(n > RowCap)
        BY <1>5 DEF Views!TradesTable
      <3>2. RowCap \in Nat
        BY StudiesAssumption
      <3> HIDE DEF n, table
      <3>3. QED
        BY <1>1, <3>1, <3>2
    <2>2. Min({n, RowCap}) = n
      <3>1. n \in Int /\ RowCap \in Int
        BY <1>1, <2>1
      <3> HIDE DEF n
      <3>2. QED
        BY <2>1, <3>1, MinOfTwo
    <2>3. table.rows = [i \in 1 .. n |-> Views!Net(trades[i])]
      <3>1. table.rows = [i \in 1 .. Views!Min({n, RowCap}) |-> Views!Net(trades[i])]
        BY DEF Views!TradesTable
      <3>2. QED
        BY <2>2, <3>1, ViewOperators
    <2> DEFINE rows == table.rows
    <2>4. DOMAIN rows = S /\ \A i \in S : steps[i] \in Int /\ rows[i] = steps[i]
      BY <1>1, <1>3, <2>3
    <2>5. Views!Total(rows) = SumFunctionOnSet(rows, S)
      BY <2>4, ViewOperators, Zenon
    <2> HIDE DEF rows, steps, S
    <2>6. SumFunctionOnSet(rows, S) = SumFunctionOnSet(steps, S)
      BY <1>1, <2>4, SumSame
    <2>7. Views!Total(rows) = SumFunctionOnSet(G, S) - SumFunctionOnSet(F, S)
      BY <1>4, <2>5, <2>6
    <2>8. QED
      BY <1>4, <2>7, Zenon DEF rows, steps, S
  <1>6. QED
    BY <1>4, <1>5, Zenon

LEMMA ResultShown ==
  ASSUME StudiesInv, ShowsResult
  PROVE  LET r == view.shown.result
         IN  /\ r.trades \in Seq(Views!Trade)
             /\ r = Views!EngineResult(r.trades, r.max_drawdown)
             /\ Curve = Views!EquityCurve(r.trades) /\ Body.stats = Views!StatsGrid(r)
             /\ Body.table = Views!TradesTable(r.trades)
  <1> DEFINE r == view.shown.result
  <1>1. /\ page = "result" /\ PageFace = "completed" /\ jobs[view.job].kind = "single"
        /\ view.job \in DOMAIN jobs /\ view \in ResultPages(jobs[view.job].kind)
        /\ view.shown # Null => Carries(view.shown, view.job)
    BY DEF ShowsResult, StudiesInv, PageOK
  <1>2. view.error = "none" /\ view.shown # Null /\ view.shown.status = "completed"
    BY <1>1 DEF PageFace, RunningProgress, ResultPages
  <1>3. r \in Results
    BY <1>1, <1>2 DEF Carries, Finished, Outcomes
  <1>4. r.trades \in Seq(Views!Trade) /\ r = Views!EngineResult(r.trades, r.max_drawdown)
    BY <1>3, StudiesAssumption
  <1>5. /\ Curve = Views!EquityCurve(r.trades) /\ Body.stats = Views!StatsGrid(r)
        /\ Body.table = Views!TradesTable(r.trades)
    BY DEF Curve, Body, Views!ResultView
  <1>6. QED
    BY <1>4, <1>5

(* Whatever trades a backtest made and whenever, the chart ends at the net *)
(* of the totals above it and agrees with the table under it, and its      *)
(* spline draws no dip or peak that no trade made.                         *)
THEOREM CurvesAreFaithful == Spec => []CurveIsFaithful
  <1>1. StudiesInv => CurveEndsAtNet
    <2> SUFFICES ASSUME StudiesInv, ShowsResult, Curve # <<>>,
                        \A i \in DOMAIN view.shown.result.trades :
                            view.shown.result.trades[i].pnl # Null
                 PROVE  /\ Curve[Len(Curve)] = view.shown.result.total_pnl - view.shown.result.total_fees
                        /\ Body.table.more \/ Curve[Len(Curve)] = Views!Total(Body.table.rows)
                        /\ Body.stats.factor # Null /\ Body.stats.factor[2] = 0
                               => view.shown.result.total_pnl > 0
      BY Zenon DEF CurveEndsAtNet
    <2> DEFINE r == view.shown.result
               ts == r.trades
               S == DOMAIN ts
               wins == SumFunctionOnSet(Views!Wins(ts), S)
               losses == SumFunctionOnSet(Views!Losses(ts), S)
    <2>1. /\ ts \in Seq(Views!Trade) /\ r = Views!EngineResult(ts, r.max_drawdown)
          /\ Curve = Views!EquityCurve(ts) /\ Body.stats = Views!StatsGrid(r)
          /\ Body.table = Views!TradesTable(ts)
      BY ResultShown, Zenon
    <2>2. /\ Points(Curve, Len(ts)) /\ Curve[Len(ts)] = SumFunctionOnSet(CurveSteps(ts), S)
      <3>1. Views!EquityCurve(ts) # <<>>
        BY <2>1
      <3>2. QED
        BY <2>1, <3>1, CurveIs, Zenon
    <2>3. /\ SumFunctionOnSet(CurveSteps(ts), S) = SumFunctionOnSet(GrossOf(ts), S) - SumFunctionOnSet(FeesOf(ts), S)
          /\ \/ Views!TradesTable(ts).more
             \/ Views!Total(Views!TradesTable(ts).rows) =
                  SumFunctionOnSet(GrossOf(ts), S) - SumFunctionOnSet(FeesOf(ts), S)
      <3>1. Views!EquityCurve(ts) # <<>> /\ \A i \in DOMAIN ts : ts[i].pnl # Null
        BY <2>1
      <3>2. QED
        BY <2>1, <3>1, NetOfAll, Zenon
    <2>4. /\ r.total_pnl = SumFunctionOnSet(GrossOf(ts), S)
          /\ r.total_fees = SumFunctionOnSet(FeesOf(ts), S)
          /\ wins \in Nat /\ losses \in Nat /\ r.total_pnl = wins - losses
          /\ Views!StatsGrid(r).factor = IF wins = 0 /\ losses = 0 THEN Null ELSE <<wins, losses>>
      BY <2>1, TotalsAre, Zenon
    <2>5. Len(Curve) = Len(ts)
      BY <2>2 DEF Points
    <2> HIDE DEF r, ts, S, wins, losses
    <2>6. Curve[Len(Curve)] = r.total_pnl - r.total_fees
      BY <2>2, <2>3, <2>4, <2>5, Zenon
    <2>7. Body.table.more \/ Curve[Len(Curve)] = Views!Total(Body.table.rows)
      BY <2>1, <2>2, <2>3, <2>5, Zenon
    <2>8. Body.stats.factor # Null /\ Body.stats.factor[2] = 0 => r.total_pnl > 0
      <3>1. ASSUME Body.stats.factor # Null, Body.stats.factor[2] = 0
            PROVE  r.total_pnl > 0
        <4>1. Body.stats.factor = <<wins, losses>> /\ ~(wins = 0 /\ losses = 0)
          BY <2>1, <2>4, <3>1, Zenon
        <4>2. losses = 0
          <5>1. <<wins, losses>>[2] = losses
            BY Pairs
          <5>2. <<wins, losses>>[2] = 0
            BY <3>1, <4>1, Zenon
          <5>3. QED
            BY <5>1, <5>2
        <4>3. QED
          BY <2>4, <4>1, <4>2
      <3>2. QED
        BY <3>1
    <2>9. QED
      BY <2>6, <2>7, <2>8, Zenon DEF r
  <1>2. StudiesInv => CurveNeverOvershoots
    <2> SUFFICES ASSUME StudiesInv, ShowsResult, Curve # <<>>, NEW i \in 1 .. (Len(Curve) - 1)
                 PROVE  LET lo == IF Curve[i] < Curve[i + 1] THEN Curve[i] ELSE Curve[i + 1]
                            hi == Curve[i] + Curve[i + 1] - lo
                        IN  \A k \in 1 .. 2 : LET c == Views!ControlPoints(Curve, i)[k]
                                              IN  lo * c[2] <= c[1] /\ c[1] <= hi * c[2]
      BY Zenon DEF CurveNeverOvershoots
    <2> DEFINE ts == view.shown.result.trades
    <2>1. ts \in Seq(Views!Trade) /\ Curve = Views!EquityCurve(ts)
      BY ResultShown, Zenon
    <2>2. Points(Curve, Len(ts))
      <3>1. Views!EquityCurve(ts) # <<>>
        BY <2>1
      <3>2. QED
        BY <2>1, <3>1, CurveIs, Zenon
    <2>3. Len(Curve) = Len(ts) /\ i \in 1 .. (Len(ts) - 1)
      BY <2>2 DEF Points
    <2>4. QED
      BY <2>2, <2>3, SplineStays, Zenon
  <1>3. StudiesInv => CurveIsFaithful
    BY <1>1, <1>2 DEF CurveIsFaithful
  <1>4. QED
    BY <1>3, StudiesInvariant, PTL

=============================================================================
