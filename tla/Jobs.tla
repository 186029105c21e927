-------------------------------- MODULE Jobs --------------------------------
(***************************************************************************)
(* The life of one API key's backtest jobs: the submission handler         *)
(* (api/main.py), the job records in Redis (api/job_store.py) and the ARQ  *)
(* worker that runs them (worker/backtest_worker.py).                      *)
(*                                                                         *)
(* Every mark_* operation of the store is a GET followed, one network round*)
(* trip later, by a SET of the whole record; the two halves are separate   *)
(* actions here, so that anything may happen in between.  Time is counted  *)
(* in ticks; only the order SyncTimeout, JobTimeout < RunningTTL matters.  *)
(***************************************************************************)
EXTENDS Integers, Sequences, FiniteSets

CONSTANTS
    Reqs,            \* request handlers that may be active at the same time
    MaxSubmissions,  \* bound: job records ever created
    Cap,             \* tier.concurrent_backtests
    ListSlack,       \* the handler lists the newest Cap + ListSlack jobs
    HistoryCap,      \* entries the listing keeps per key
    MaxSlots,        \* WorkerSettings.max_jobs
    MaxTries,        \* ARQ's default limit on runs of one job
    RunningTTL,      \* RUNNING_TTL_SECONDS, in ticks
    ResultTTL,       \* RESULT_TTL_SECONDS, in ticks
    JobTimeout,      \* WORKER_JOB_TIMEOUT_S, in ticks
    SyncTimeout,     \* SYNC_TIMEOUT of wait_for_result, in ticks
    MaxFaults        \* bound: crashes, shutdowns and Redis errors of the worker

ASSUME JobsAssumption ==
    /\ MaxSubmissions \in Nat /\ MaxFaults \in Nat
    /\ Cap \in Nat \ {0} /\ ListSlack \in Nat
    /\ HistoryCap \in Nat /\ Cap + ListSlack <= HistoryCap
    /\ MaxSlots \in Nat \ {0} /\ MaxTries \in Nat \ {0}
    /\ RunningTTL \in Nat /\ ResultTTL \in Nat
    /\ JobTimeout \in Nat \ {0} /\ SyncTimeout \in Nat \ {0}
    /\ JobTimeout < RunningTTL /\ SyncTimeout < RunningTTL
    /\ RunningTTL <= ResultTTL
    /\ IsFiniteSet(Reqs)

Jobs == 1 .. MaxSubmissions
NoJob == 0

VARIABLES
    store,      \* store[j]   : the record under key job:{j}
    ttl,        \* ttl[j]     : ticks until that key expires
    index,      \* the key's user_jobs listing, oldest first
    submitted,  \* job ids handed out so far
    pc,         \* pc[r]      : where request handler r is
    target,     \* target[r]  : the job r has created
    read,       \* read[r]    : the record r's mark_failed has read
    waited,     \* waited[r]  : ticks r has polled for an inline result
    accepted,   \* jobs whose enqueue call returned
    worker,     \* the worker process: up, stopping or down
    queue,      \* jobs in the ARQ queue, running ones included
    locked,     \* jobs with an ARQ in-progress key
    tries,      \* tries[j]   : runs of j ARQ has started
    run,        \* run[j]     : where the worker's coroutine for j is
    held,       \* held[j]    : the record that coroutine read or last wrote
    cancel,     \* cancel[j]  : why that coroutine was cancelled
    age,        \* age[j]     : ticks since it started
    excused,    \* history: jobs whose report a fault swallowed
    lapsed,     \* history: jobs whose record expired while in flight
    faults      \* faults so far

storeVars  == <<store, ttl>>
reqVars    == <<pc, target, read, waited>>
apiVars    == <<index, submitted, accepted>>
runVars    == <<run, held, cancel, age>>
arqVars    == <<queue, locked, tries>>
vars == <<storeVars, reqVars, apiVars, runVars, arqVars, worker, excused, lapsed,
          faults>>

-----------------------------------------------------------------------------
(* The record and its writers.                                             *)

Statuses == {"queued", "running", "completed", "failed"}
Record == [status : Statuses, result : BOOLEAN, error : BOOLEAN]
Absent == [status |-> "absent", result |-> FALSE, error |-> FALSE]

Fresh == [status |-> "queued", result |-> FALSE, error |-> FALSE]
Running(rec) == [rec EXCEPT !.status = "running"]
Completed(rec) == [rec EXCEPT !.status = "completed", !.result = TRUE]
Failed_WipesResult(rec) ==
    [rec EXCEPT !.status = "failed", !.error = TRUE, !.result = FALSE]
Failed(rec) == [rec EXCEPT !.status = "failed", !.error = TRUE]

Present(rec) == rec.status # "absent"
InFlight(rec) == rec.status \in {"queued", "running"}
Terminal(rec) == rec.status \in {"completed", "failed"}

(* mark_running's own guard: only a queued record starts running.          *)
MayRun_Always(rec) == Present(rec)
MayRun(rec) == rec.status = "queued"

Write(j, rec, ticks) ==
    /\ store' = [store EXCEPT ![j] = rec]
    /\ ttl' = [ttl EXCEPT ![j] = ticks]

CreateTTL_TooShort == 1
CreateTTL == RunningTTL

(* mark_running rewrites the key with a full RUNNING_TTL.                  *)
RunTTL_Remaining(j) == IF ttl[j] = 0 THEN 1 ELSE ttl[j]
RunTTL_Extends(j) == ttl[j] + RunningTTL
RunTTL(j) == RunningTTL

-----------------------------------------------------------------------------
Init ==
    /\ store = [j \in Jobs |-> Absent]
    /\ ttl = [j \in Jobs |-> 0]
    /\ index = <<>>
    /\ submitted = 0
    /\ pc = [r \in Reqs |-> "idle"]
    /\ target = [r \in Reqs |-> NoJob]
    /\ read = [r \in Reqs |-> Absent]
    /\ waited = [r \in Reqs |-> 0]
    /\ accepted = {}
    /\ worker = "up"
    /\ queue = {}
    /\ locked = {}
    /\ tries = [j \in Jobs |-> 0]
    /\ run = [j \in Jobs |-> "none"]
    /\ held = [j \in Jobs |-> Absent]
    /\ cancel = [j \in Jobs |-> "no"]
    /\ age = [j \in Jobs |-> 0]
    /\ excused = {}
    /\ lapsed = {}
    /\ faults = 0

-----------------------------------------------------------------------------
(* POST /v1/backtest and POST /v1/backtest/sweep.                          *)

Newest(s, n) == SubSeq(s, IF Len(s) > n THEN Len(s) - n + 1 ELSE 1, Len(s))
Listed == {Newest(index, Cap + ListSlack)[i] :
             i \in 1 .. Len(Newest(index, Cap + ListSlack))}
ListedInFlight == {j \in Listed : InFlight(store[j])}

Goto(r, label) == pc' = [pc EXCEPT ![r] = label]

Reply(r) ==
    /\ Goto(r, "idle")
    /\ target' = [target EXCEPT ![r] = NoJob]
    /\ read' = [read EXCEPT ![r] = Absent]
    /\ waited' = [waited EXCEPT ![r] = 0]

(* The in-flight count, read in one go: a job indexed between the ZREVRANGE*)
(* and the GETs is one indexed just after them.  A 429 changes nothing.    *)
(* The job id is drawn here; create uses it first.                         *)
Admits_OffByOne(n) == n <= Cap
Admits(n) == n < Cap
Admit(r) ==
    /\ pc[r] = "idle"
    /\ submitted < MaxSubmissions
    /\ Admits(Cardinality(ListedInFlight))
    /\ submitted' = submitted + 1
    /\ target' = [target EXCEPT ![r] = submitted + 1]
    /\ Goto(r, "admitted")
    /\ UNCHANGED <<storeVars, read, waited, index, accepted, runVars, arqVars,
                   worker, excused, lapsed, faults>>

(* JobStore.create: the record first, then the listing and its trim.       *)
CreateWrite(r) ==
    /\ pc[r] = "admitted"
    /\ Write(target[r], Fresh, CreateTTL)
    /\ Goto(r, "written")
    /\ UNCHANGED <<target, read, waited, apiVars, runVars, arqVars, worker,
                   excused, lapsed, faults>>

CreateIndex(r) ==
    /\ pc[r] = "written"
    /\ index' = Newest(Append(index, target[r]), HistoryCap)
    /\ Goto(r, "created")
    /\ UNCHANGED <<storeVars, target, read, waited, submitted, accepted, runVars,
                   arqVars, worker, excused, lapsed, faults>>

(* arq.enqueue_job returns: the handler answers 202, or polls for the      *)
(* inline result (wait_for_result).                                        *)
EnqueueOk(r) ==
    /\ pc[r] = "created"
    /\ queue' = queue \cup {target[r]}
    /\ accepted' = accepted \cup {target[r]}
    /\ \/ Goto(r, "poll") /\ UNCHANGED <<target, read, waited>>
       \/ Reply(r)
    /\ UNCHANGED <<storeVars, index, submitted, runVars, locked, tries, worker,
                   excused, lapsed, faults>>

(* arq.enqueue_job raises, whether or not the queue took the job.          *)
EnqueueFails(r) ==
    /\ pc[r] = "created"
    /\ queue' \in {queue, queue \cup {target[r]}}
    /\ Goto(r, "fail_get")
    /\ UNCHANGED <<storeVars, target, read, waited, apiVars, runVars, locked, tries,
                   worker, excused, lapsed, faults>>

(* The handler's own mark_failed, then the 503.                            *)
ApiFailGet(r) ==
    /\ pc[r] = "fail_get"
    /\ IF Present(store[target[r]])
         THEN /\ read' = [read EXCEPT ![r] = store[target[r]]]
              /\ Goto(r, "fail_set")
              /\ UNCHANGED <<target, waited>>
         ELSE Reply(r)
    /\ UNCHANGED <<storeVars, apiVars, runVars, arqVars, worker, excused, lapsed, faults>>

ApiFailSet(r) ==
    /\ pc[r] = "fail_set"
    /\ Write(target[r], Failed(read[r]), ResultTTL)
    /\ Reply(r)
    /\ UNCHANGED <<apiVars, runVars, arqVars, worker, excused, lapsed, faults>>

(* One poll of the inline wait that ends it: a verdict (200 or 422), a     *)
(* record that is gone, or the deadline (504).                             *)
PollEnds(r) ==
    /\ pc[r] = "poll"
    /\ \/ ~InFlight(store[target[r]])
       \/ waited[r] = SyncTimeout
    /\ Reply(r)
    /\ UNCHANGED <<storeVars, apiVars, runVars, arqVars, worker, excused, lapsed, faults>>

(* A Redis error, a lost client or an API restart ends the handler between *)
(* two of its steps; what it has done so far stays.                        *)
RequestDies(r) ==
    /\ pc[r] # "idle"
    /\ Reply(r)
    /\ UNCHANGED <<storeVars, apiVars, runVars, arqVars, worker, excused, lapsed, faults>>

-----------------------------------------------------------------------------
(* The worker: ARQ's loop around run_backtest_job and run_sweep_job.       *)

Active == {j \in Jobs : run[j] # "none"}

At(j, label) == run' = [run EXCEPT ![j] = label]

(* The coroutine for j ends.  ARQ runs the job again when the coroutine     *)
(* ended by a shutdown's CancelledError; any other end, a timeout included,*)
(* takes it off the queue.                                                 *)
EndRun(j, again) ==
    /\ At(j, "none")
    /\ held' = [held EXCEPT ![j] = Absent]
    /\ cancel' = [cancel EXCEPT ![j] = "no"]
    /\ age' = [age EXCEPT ![j] = 0]
    /\ locked' = locked \ {j}
    /\ queue' = IF again THEN queue ELSE queue \ {j}
    /\ UNCHANGED tries

StartRun(j) ==
    /\ worker = "up"
    /\ j \in queue \ locked
    /\ Cardinality(Active) < MaxSlots
    /\ tries[j] < MaxTries
    /\ locked' = locked \cup {j}
    /\ tries' = [tries EXCEPT ![j] = @ + 1]
    /\ At(j, "mark_get")
    /\ UNCHANGED <<storeVars, reqVars, apiVars, held, cancel, age, queue, worker,
                   excused, lapsed, faults>>

(* ARQ gives a job up after MaxTries runs without calling the coroutine.   *)
Abandon(j) ==
    /\ worker = "up"
    /\ j \in queue \ locked
    /\ tries[j] = MaxTries
    /\ queue' = queue \ {j}
    /\ excused' = excused \cup {j}
    /\ UNCHANGED <<storeVars, reqVars, apiVars, runVars, locked, tries, worker, lapsed, faults>>

MarkRunningGet(j) ==
    /\ run[j] = "mark_get"
    /\ IF MayRun(store[j])
         THEN At(j, "mark_set") /\ held' = [held EXCEPT ![j] = store[j]]
         ELSE At(j, "body") /\ UNCHANGED held
    /\ UNCHANGED <<storeVars, reqVars, apiVars, cancel, age, arqVars, worker,
                   excused, lapsed, faults>>

MarkRunningSet(j) ==
    /\ run[j] = "mark_set"
    /\ Write(j, Running(held[j]), RunTTL(j))
    /\ held' = [held EXCEPT ![j] = Running(@)]
    /\ At(j, "body")
    /\ UNCHANGED <<reqVars, apiVars, cancel, age, arqVars, worker, excused, lapsed, faults>>

(* run_backtest or run_sweep returns a payload, or raises.                 *)
BodyReturns(j) ==
    /\ run[j] = "body"
    /\ At(j, "done_get")
    /\ UNCHANGED <<storeVars, reqVars, apiVars, held, cancel, age, arqVars, worker,
                   excused, lapsed, faults>>

BodyRaises(j) ==
    /\ run[j] = "body"
    /\ At(j, "fail_get")
    /\ UNCHANGED <<storeVars, reqVars, apiVars, held, cancel, age, arqVars, worker,
                   excused, lapsed, faults>>

(* mark_completed: a record that is gone swallows the payload.             *)
MarkCompletedGet(j) ==
    /\ run[j] = "done_get"
    /\ IF Present(store[j])
         THEN /\ At(j, "done_set")
              /\ held' = [held EXCEPT ![j] = store[j]]
              /\ UNCHANGED <<cancel, age, arqVars>>
         ELSE EndRun(j, FALSE)
    /\ UNCHANGED <<storeVars, reqVars, apiVars, worker, excused, lapsed, faults>>

MarkCompletedSet(j) ==
    /\ run[j] = "done_set"
    /\ Write(j, Completed(held[j]), ResultTTL)
    /\ EndRun(j, FALSE)
    /\ UNCHANGED <<reqVars, apiVars, worker, excused, lapsed, faults>>

(* mark_failed, from either except clause; the exception is then re-raised.*)
MarkFailedGet(j) ==
    /\ run[j] = "fail_get"
    /\ IF Present(store[j])
         THEN /\ At(j, "fail_set")
              /\ held' = [held EXCEPT ![j] = store[j]]
              /\ UNCHANGED <<cancel, age, arqVars>>
         ELSE EndRun(j, cancel[j] = "shutdown")
    /\ UNCHANGED <<storeVars, reqVars, apiVars, worker, excused, lapsed, faults>>

MarkFailedSet(j) ==
    /\ run[j] = "fail_set"
    /\ Write(j, Failed(held[j]), ResultTTL)
    /\ EndRun(j, cancel[j] = "shutdown")
    /\ UNCHANGED <<reqVars, apiVars, worker, excused, lapsed, faults>>

-----------------------------------------------------------------------------
(* Cancellation, Redis errors and crashes.                                 *)

InTry == {"body", "done_get", "done_set"}

(* The record a pending SET of j would have written, had it landed.        *)
Pending(j) ==
    CASE run[j] = "mark_set" -> Running(held[j])
      [] run[j] = "done_set" -> Completed(held[j])
      [] run[j] = "fail_set" -> Failed(held[j])
PendingTTL(j) == IF run[j] = "mark_set" THEN RunTTL(j) ELSE ResultTTL
HasPending(j) == run[j] \in {"mark_set", "done_set", "fail_set"}

(* An interrupted SET may have reached Redis before the interruption.      *)
MayHaveLanded(j) ==
    \/ UNCHANGED storeVars
    \/ HasPending(j) /\ Write(j, Pending(j), PendingTTL(j))

(* job_timeout: inside the try block the CancelledError handler reports;   *)
(* outside it (mark_running, or a mark_failed already under way) the run   *)
(* just ends.                                                              *)
TimeoutHandler_Missing(j) == FALSE
TimeoutHandler(j) == run[j] \in InTry
Timeout(j) ==
    /\ run[j] # "none"
    /\ cancel[j] = "no"
    /\ age[j] = JobTimeout
    /\ MayHaveLanded(j)
    /\ IF TimeoutHandler(j)
         THEN /\ At(j, "fail_get")
              /\ cancel' = [cancel EXCEPT ![j] = "timeout"]
              /\ UNCHANGED <<held, age, arqVars, excused, lapsed>>
         ELSE /\ EndRun(j, FALSE)
              /\ excused' = IF run[j] \in InTry THEN excused ELSE excused \cup {j}
    /\ UNCHANGED <<reqVars, apiVars, worker, lapsed, faults>>

(* SIGTERM: ARQ cancels every coroutine and stops taking jobs.             *)
Shutdown ==
    /\ worker = "up"
    /\ faults < MaxFaults
    /\ faults' = faults + 1
    /\ worker' = "stopping"
    /\ \E landed \in SUBSET {j \in Jobs : HasPending(j)} :
         /\ store' = [j \in Jobs |-> IF j \in landed THEN Pending(j) ELSE store[j]]
         /\ ttl' = [j \in Jobs |-> IF j \in landed THEN PendingTTL(j) ELSE ttl[j]]
    /\ LET caught == {j \in Active : run[j] \in InTry}
           ended == Active \ caught
       IN /\ run' = [j \in Jobs |-> IF j \in caught THEN "fail_get" ELSE "none"]
          /\ cancel' = [j \in Jobs |-> IF j \in caught THEN "shutdown" ELSE "no"]
          /\ held' = [j \in Jobs |-> IF j \in caught THEN held[j] ELSE Absent]
          /\ age' = [j \in Jobs |-> IF j \in caught THEN age[j] ELSE 0]
          /\ locked' = locked \ ended
    /\ UNCHANGED <<reqVars, apiVars, queue, tries, excused, lapsed>>

Stopped ==
    /\ worker = "stopping"
    /\ Active = {}
    /\ worker' = "down"
    /\ UNCHANGED <<storeVars, reqVars, apiVars, runVars, arqVars, excused, lapsed, faults>>

(* The process dies (OOM, SIGKILL, power): its in-progress keys remain.    *)
Crash ==
    /\ worker # "down"
    /\ faults < MaxFaults
    /\ faults' = faults + 1
    /\ worker' = "down"
    /\ run' = [j \in Jobs |-> "none"]
    /\ held' = [j \in Jobs |-> Absent]
    /\ cancel' = [j \in Jobs |-> "no"]
    /\ age' = [j \in Jobs |-> 0]
    /\ UNCHANGED <<storeVars, reqVars, apiVars, arqVars, excused, lapsed>>

(* systemd: Restart=always.                                                *)
Restart ==
    /\ worker = "down"
    /\ worker' = "up"
    /\ UNCHANGED <<storeVars, reqVars, apiVars, runVars, arqVars, excused, lapsed, faults>>

(* ARQ's in-progress key outlives a crashed run by its own time to live.   *)
LockExpires(j) ==
    /\ j \in locked
    /\ run[j] = "none"
    /\ locked' = locked \ {j}
    /\ UNCHANGED <<storeVars, reqVars, apiVars, runVars, queue, tries, worker,
                   excused, lapsed, faults>>

(* A store call of the worker raises.  Inside the try block the Exception  *)
(* handler reports; elsewhere the run ends and its report is lost.         *)
RedisError(j) ==
    /\ run[j] \notin {"none", "body"}
    /\ faults < MaxFaults
    /\ faults' = faults + 1
    /\ MayHaveLanded(j)
    /\ IF run[j] \in InTry
         THEN At(j, "fail_get") /\ UNCHANGED <<held, cancel, age, arqVars, excused, lapsed>>
         ELSE EndRun(j, FALSE) /\ excused' = excused \cup {j}
    /\ UNCHANGED <<reqVars, apiVars, worker, lapsed>>

-----------------------------------------------------------------------------
(* Time.  A tick is long against one handler step, so a request is idle or *)
(* polling when it passes; a run may be anywhere, but not past its timeout.*)
Tick ==
    /\ \A r \in Reqs : pc[r] = "idle" \/ (pc[r] = "poll" /\ waited[r] < SyncTimeout)
    /\ \A j \in Active : cancel[j] = "no" => age[j] < JobTimeout
    /\ ttl' = [j \in Jobs |-> IF ttl[j] > 0 THEN ttl[j] - 1 ELSE 0]
    /\ store' = [j \in Jobs |-> IF ttl[j] > 1 THEN store[j] ELSE Absent]
    /\ lapsed' = lapsed \cup {j \in Jobs : ttl[j] = 1 /\ InFlight(store[j])}
    /\ waited' = [r \in Reqs |-> IF pc[r] = "poll" THEN waited[r] + 1 ELSE 0]
    /\ age' = [j \in Jobs |-> IF j \in Active /\ cancel[j] = "no" THEN age[j] + 1
                                                                ELSE age[j]]
    /\ UNCHANGED <<pc, target, read, apiVars, run, held, cancel, arqVars, worker,
                   excused, faults>>

-----------------------------------------------------------------------------
Handler(r) ==
    \/ CreateWrite(r) \/ CreateIndex(r)
    \/ EnqueueOk(r) \/ EnqueueFails(r)
    \/ ApiFailGet(r) \/ ApiFailSet(r)
    \/ PollEnds(r) \/ RequestDies(r)

Coroutine(j) ==
    \/ MarkRunningGet(j) \/ MarkRunningSet(j)
    \/ MarkCompletedGet(j) \/ MarkCompletedSet(j)
    \/ MarkFailedGet(j) \/ MarkFailedSet(j)
    \/ Timeout(j)

Next ==
    \/ \E r \in Reqs : Admit(r) \/ Handler(r)
    \/ \E j \in Jobs :
         \/ StartRun(j) \/ Abandon(j)
         \/ Coroutine(j)
         \/ BodyReturns(j) \/ BodyRaises(j)
         \/ LockExpires(j) \/ RedisError(j)
    \/ Shutdown \/ Stopped \/ Crash \/ Restart
    \/ Tick

(* Both event loops keep running their ready coroutines and time passes.   *)
(* Nothing makes a backtest return, a worker come back or a client submit. *)
Fairness ==
    /\ WF_vars(Tick)
    /\ \A r \in Reqs : WF_vars(Handler(r))
    /\ \A j \in Jobs : WF_vars(Coroutine(j))

Spec == Init /\ [][Next]_vars
FairSpec == Spec /\ Fairness
-----------------------------------------------------------------------------
(* Properties.                                                             *)

Labels == {"idle", "admitted", "written", "created", "fail_get", "fail_set", "poll"}
RunLabels == {"none", "mark_get", "mark_set", "body",
              "done_get", "done_set", "fail_get", "fail_set"}

(* Every variable has its type.                                            *)
TypeOK ==
    /\ store \in [Jobs -> Record \cup {Absent}]
    /\ ttl \in [Jobs -> 0 .. ResultTTL]
    /\ index \in Seq(Jobs)
    /\ submitted \in 0 .. MaxSubmissions
    /\ pc \in [Reqs -> Labels]
    /\ target \in [Reqs -> Jobs \cup {NoJob}]
    /\ read \in [Reqs -> Record \cup {Absent}]
    /\ waited \in [Reqs -> 0 .. SyncTimeout]
    /\ accepted \in SUBSET Jobs
    /\ worker \in {"up", "stopping", "down"}
    /\ queue \in SUBSET Jobs
    /\ locked \in SUBSET Jobs
    /\ tries \in [Jobs -> 0 .. MaxTries]
    /\ run \in [Jobs -> RunLabels]
    /\ held \in [Jobs -> Record \cup {Absent}]
    /\ cancel \in [Jobs -> {"no", "timeout", "shutdown"}]
    /\ age \in [Jobs -> 0 .. JobTimeout]
    /\ excused \in SUBSET Jobs
    /\ lapsed \in SUBSET Jobs
    /\ faults \in 0 .. MaxFaults

(* What a poll shows is consistent with the status it shows: no result and *)
(* no error while in flight, a result once completed, an error once failed,*)
(* whatever retries, timeouts and late writes the record went through.     *)
Consistent(rec) ==
    /\ InFlight(rec) => ~rec.result /\ ~rec.error
    /\ rec.status = "completed" => rec.result
    /\ rec.status = "failed" => rec.error
StatusCarriesItsPayload == \A j \in Jobs : Consistent(store[j])

(* The check-then-create race of two submissions overruns the tier's cap by*)
(* at most one job per additional concurrent request: jobs in flight among *)
(* the listed ones, plus requests already admitted.                        *)
Admitted == {r \in Reqs : pc[r] \notin {"idle", "poll"}}
BudgetOverrunBounded ==
    Cardinality((ListedInFlight \cap accepted) \ lapsed) + Cardinality(Admitted)
        < Cap + Cardinality(Reqs)

(* The handler's comment "should be impossible inside 30 s": while a caller*)
(* waits inline, the record it polls has not expired.                      *)
SyncNeverSeesGone ==
    \A r \in Reqs : pc[r] = "poll" => Present(store[target[r]])

(* A run whose mark_running took effect cannot outlive its record: the     *)
(* result it computes has somewhere to go.                                 *)
RunNeverOutlivesRecord ==
    \A j \in Jobs :
        run[j] = "body" /\ held[j].status = "running" => Present(store[j])

(* A job ARQ considers finished is not shown as queued or running, unless a*)
(* fault swallowed the report: timeouts and shutdowns are reported too.    *)
FinishedJobsAreAnswered ==
    \A j \in accepted \ (queue \cup excused) : ~InFlight(store[j])

(* Jobs implements the promise of JobContract for every accepted job.      *)
Phase(j) ==
    CASE j \notin accepted -> "unborn"
      [] j \in accepted /\ InFlight(store[j]) -> "inflight"
      [] j \in accepted /\ Terminal(store[j]) -> "answered"
      [] j \in accepted /\ ~Present(store[j]) -> "gone"
Contract == INSTANCE JobContract
    WITH phase <- [j \in Jobs |-> Phase(j)],
         kept <- [j \in Jobs |-> j \in accepted /\ store[j].result]
ImplementsContract == Contract!Spec

(* api/tiers.py: concurrent_backtests is "how many backtest jobs this key  *)
(* may have running at once".  Two submissions that list before either     *)
(* creates are both admitted, so the code does not keep it.                *)
TierCap == Cardinality({j \in accepted : InFlight(store[j])}) <= Cap

(* api/job_store.py: error is "only populated when status == FAILED".  A   *)
(* run cancelled by a shutdown is marked failed, run again and completed   *)
(* over the old error.                                                     *)
ErrorOnlyWhenFailed ==
    \A j \in accepted : store[j].error => store[j].status = "failed"
=============================================================================
