---------------------------- MODULE JobContract ----------------------------
(***************************************************************************)
(* What the backtest service promises about a job it has accepted, as the  *)
(* caller of GET /v1/backtest/{job_id} can observe it: the job is in       *)
(* flight, then answered (completed or failed), then forgotten.  Nothing   *)
(* here mentions Redis, the queue or the worker; module Jobs implements it.*)
(***************************************************************************)
CONSTANT Jobs

VARIABLES
    phase,   \* phase[j] : what a poll of job j shows
    kept     \* kept[j]  : a poll of job j returns a result payload

vars == <<phase, kept>>

Phases == {"unborn", "inflight", "answered", "gone"}

Init ==
    /\ phase = [j \in Jobs |-> "unborn"]
    /\ kept = [j \in Jobs |-> FALSE]

(* The 202 was sent: the job is in flight and has no result yet.           *)
Accept(j) ==
    /\ phase[j] = "unborn"
    /\ phase'[j] = "inflight"
    /\ ~kept'[j]

(* A worker reported: either verdict ends the flight.                      *)
Answer(j) ==
    /\ phase[j] = "inflight"
    /\ phase'[j] = "answered"

(* A second run of the same job may replace the verdict.  It never puts the*)
(* job back in flight and never takes a result away.                       *)
Revise(j) ==
    /\ phase[j] = "answered"
    /\ phase'[j] = "answered"
    /\ kept[j] => kept'[j]

(* The record reached its time to live.                                    *)
Forget(j) ==
    /\ phase[j] \in {"inflight", "answered"}
    /\ phase'[j] = "gone"
    /\ ~kept'[j]

(* A report that was under way when the record expired brings it back.     *)
Resurface(j) ==
    /\ phase[j] = "gone"
    /\ \/ phase'[j] = "inflight" /\ ~kept'[j]
       \/ phase'[j] = "answered"

Idle(j) == phase'[j] = phase[j] /\ kept'[j] = kept[j]

Step(j) ==
    Accept(j) \/ Answer(j) \/ Revise(j) \/ Forget(j) \/ Resurface(j) \/ Idle(j)

(* Records expire independently, so one instant may forget several jobs.   *)
Next == \A j \in Jobs : Step(j)

Safety == Init /\ [][Next]_vars

(* No accepted job stays in flight for ever: it is answered or forgotten,  *)
(* and the caller's budget comes back either way.                          *)
BudgetReturns == \A j \in Jobs : phase[j] = "inflight" ~> phase[j] # "inflight"

Spec == Safety /\ BudgetReturns
=============================================================================
