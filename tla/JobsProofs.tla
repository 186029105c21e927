----------------------------- MODULE JobsProofs -----------------------------
(***************************************************************************)
(* Proofs about module Jobs, for every value of its constants.             *)
(*                                                                         *)
(* Each theorem is an invariant proved step by step under the ones before  *)
(* it: types and the ownership of job ids, then the worker's bookkeeping,  *)
(* then what records show.                                                 *)
(***************************************************************************)
EXTENDS Jobs, SequenceTheorems, FiniteSetTheorems, TLAPS

-----------------------------------------------------------------------------
(* The inductive invariants.                                               *)

(* Handlers between admission and answer own distinct ids that nobody has  *)
(* accepted yet, so a handler never writes over an accepted job.           *)
Owning(r) == pc[r] \in {"admitted", "written", "created", "fail_get", "fail_set"}
OwnershipInv ==
    /\ accepted \subseteq 1 .. submitted
    /\ \A r \in Reqs :
         /\ Owning(r) => target[r] \in 1 .. submitted /\ target[r] \notin accepted
         /\ pc[r] = "poll" => target[r] \in accepted
    /\ \A r, s \in Reqs : r # s /\ Owning(r) /\ Owning(s) => target[r] # target[s]

(* A coroutine only runs for a job that is queued and locked.              *)
WorkerInv == \A j \in Jobs : run[j] # "none" => j \in queue /\ j \in locked

(* The copies of a record that a mark_* operation holds between its GET and*)
(* its SET are as consistent as the record itself, and mark_running only   *)
(* holds one it may start.                                                 *)
CopiesInv ==
    /\ \A j \in Jobs :
         /\ Consistent(store[j]) /\ Consistent(held[j])
         /\ run[j] = "mark_set" => held[j].status = "queued"
    /\ \A r \in Reqs : Consistent(read[r])

-----------------------------------------------------------------------------
LEMMA JobsArePositive == Jobs \subseteq Nat /\ NoJob \notin Jobs
  BY JobsAssumption DEF Jobs, NoJob

(* The writers of job_store.py map records to records.                     *)
LEMMA RecordWriters ==
  ASSUME NEW rec \in Record \cup {Absent}
  PROVE  /\ Fresh \in Record
         /\ Running(rec) \in Record
         /\ Completed(rec) \in Record
         /\ Failed(rec) \in Record
  <1> USE DEF Record, Statuses, Absent, Fresh, Running, Completed, Failed
  <1>1. Fresh \in Record
    OBVIOUS
  <1>2. CASE rec \in Record
    BY <1>1, <1>2
  <1>3. CASE rec = Absent
    BY <1>1, <1>3
  <1>4. QED
    BY <1>2, <1>3

LEMMA NewestType ==
  ASSUME NEW S, NEW s \in Seq(S), NEW n \in Nat
  PROVE  Newest(s, n) \in Seq(S)
  <1>1. Len(s) \in Nat
    BY LenProperties
  <1> DEFINE m == IF Len(s) > n THEN Len(s) - n + 1 ELSE 1
  <1>2. m \in 1 .. Len(s) + 1
    BY <1>1
  <1>3. SubSeq(s, m, Len(s)) \in Seq(S)
    BY <1>1, <1>2, SubSeqProperties
  <1>4. QED
    BY <1>3 DEF Newest

(* Types of the pieces several actions share.                              *)
LEMMA ReplyType ==
  ASSUME TypeOK, NEW r \in Reqs, Reply(r)
  PROVE  /\ pc' \in [Reqs -> Labels]
         /\ target' \in [Reqs -> Jobs \cup {NoJob}]
         /\ read' \in [Reqs -> Record \cup {Absent}]
         /\ waited' \in [Reqs -> 0 .. SyncTimeout]
  BY JobsAssumption DEF TypeOK, Reply, Goto, Labels

LEMMA WriteType ==
  ASSUME TypeOK, NEW j \in Jobs, NEW rec \in Record \cup {Absent},
         NEW ticks \in 0 .. ResultTTL, Write(j, rec, ticks)
  PROVE  /\ store' \in [Jobs -> Record \cup {Absent}]
         /\ ttl' \in [Jobs -> 0 .. ResultTTL]
  BY DEF TypeOK, Write

LEMMA EndRunType ==
  ASSUME TypeOK, NEW j \in Jobs, NEW again \in BOOLEAN, EndRun(j, again)
  PROVE  /\ run' \in [Jobs -> RunLabels]
         /\ held' \in [Jobs -> Record \cup {Absent}]
         /\ cancel' \in [Jobs -> {"no", "timeout", "shutdown"}]
         /\ age' \in [Jobs -> 0 .. JobTimeout]
         /\ locked' \in SUBSET Jobs
         /\ queue' \in SUBSET Jobs
         /\ tries' = tries
  BY JobsAssumption DEF TypeOK, EndRun, At, RunLabels

LEMMA TTLTypes ==
  /\ RunningTTL \in 0 .. ResultTTL
  /\ ResultTTL \in 0 .. ResultTTL
  BY JobsAssumption

LEMMA PendingType ==
  ASSUME TypeOK, NEW j \in Jobs, HasPending(j)
  PROVE  Pending(j) \in Record /\ PendingTTL(j) \in 0 .. ResultTTL
  <1>1. held[j] \in Record \cup {Absent}
    BY DEF TypeOK
  <1>2. PendingTTL(j) \in 0 .. ResultTTL
    BY TTLTypes DEF PendingTTL, RunTTL
  <1>3. CASE run[j] = "mark_set"
    BY <1>1, <1>2, <1>3, RecordWriters DEF Pending
  <1>4. CASE run[j] = "done_set"
    BY <1>1, <1>2, <1>4, RecordWriters DEF Pending
  <1>5. CASE run[j] = "fail_set"
    BY <1>1, <1>2, <1>5, RecordWriters DEF Pending
  <1>6. QED
    BY <1>3, <1>4, <1>5 DEF HasPending

LEMMA LandedType ==
  ASSUME TypeOK, NEW j \in Jobs, MayHaveLanded(j)
  PROVE  /\ store' \in [Jobs -> Record \cup {Absent}]
         /\ ttl' \in [Jobs -> 0 .. ResultTTL]
  <1>1. CASE UNCHANGED storeVars
    BY <1>1 DEF TypeOK, storeVars
  <1>2. CASE HasPending(j) /\ Write(j, Pending(j), PendingTTL(j))
    BY <1>2, PendingType, WriteType
  <1>3. QED
    BY <1>1, <1>2 DEF MayHaveLanded

LEMMA OwnedJob ==
  ASSUME TypeOK, OwnershipInv, NEW r \in Reqs, Owning(r)
  PROVE  target[r] \in Jobs
  <1>1. target[r] \in 1 .. submitted
    BY DEF OwnershipInv
  <1>2. 1 .. submitted \subseteq Jobs
    BY JobsAssumption DEF TypeOK, Jobs
  <1>3. QED
    BY <1>1, <1>2

LEMMA NextJob ==
  ASSUME TypeOK, submitted < MaxSubmissions
  PROVE  submitted + 1 \in Jobs /\ submitted + 1 \in 0 .. MaxSubmissions
  BY JobsAssumption DEF TypeOK, Jobs

-----------------------------------------------------------------------------
(* Types.                                                                  *)

LEMMA TypeStep ==
  ASSUME TypeOK, OwnershipInv, [Next]_vars
  PROVE  TypeOK'
  <1> USE DEF vars, storeVars, reqVars, apiVars, runVars, arqVars
  <1>1. ASSUME NEW r \in Reqs, Admit(r)
        PROVE  TypeOK'
    BY <1>1, NextJob DEF TypeOK, Admit, Goto, Labels
  <1>2. ASSUME NEW r \in Reqs, CreateWrite(r)
        PROVE  TypeOK'
    <2>1. target[r] \in Jobs
      BY <1>2, OwnedJob DEF CreateWrite, Owning
    <2>2. store' \in [Jobs -> Record \cup {Absent}] /\ ttl' \in [Jobs -> 0 .. ResultTTL]
      BY <1>2, <2>1, WriteType, RecordWriters, TTLTypes DEF CreateWrite, CreateTTL
    <2>3. QED
      BY <1>2, <2>2 DEF TypeOK, CreateWrite, Goto, Labels
  <1>3. ASSUME NEW r \in Reqs, CreateIndex(r)
        PROVE  TypeOK'
    <2>1. target[r] \in Jobs
      BY <1>3, OwnedJob DEF CreateIndex, Owning
    <2>2. Append(index, target[r]) \in Seq(Jobs)
      BY <2>1 DEF TypeOK
    <2>3. HistoryCap \in Nat
      BY JobsAssumption
    <2>4. index' \in Seq(Jobs)
      BY <1>3, <2>2, <2>3, NewestType DEF CreateIndex
    <2>5. QED
      BY <1>3, <2>4 DEF TypeOK, CreateIndex, Goto, Labels
  <1>4. ASSUME NEW r \in Reqs, EnqueueOk(r)
        PROVE  TypeOK'
    <2>1. target[r] \in Jobs
      BY <1>4, OwnedJob DEF EnqueueOk, Owning
    <2>2. CASE Reply(r)
      BY <1>4, <2>1, <2>2, ReplyType DEF TypeOK, EnqueueOk
    <2>3. CASE Goto(r, "poll") /\ UNCHANGED <<target, read, waited>>
      BY <1>4, <2>1, <2>3 DEF TypeOK, EnqueueOk, Goto, Labels
    <2>4. QED
      BY <1>4, <2>2, <2>3 DEF EnqueueOk
  <1>5. ASSUME NEW r \in Reqs, EnqueueFails(r)
        PROVE  TypeOK'
    <2>1. target[r] \in Jobs
      BY <1>5, OwnedJob DEF EnqueueFails, Owning
    <2>2. QED
      BY <1>5, <2>1 DEF TypeOK, EnqueueFails, Goto, Labels
  <1>6. ASSUME NEW r \in Reqs, ApiFailGet(r)
        PROVE  TypeOK'
    <2>1. target[r] \in Jobs
      BY <1>6, OwnedJob DEF ApiFailGet, Owning
    <2>2. CASE Present(store[target[r]])
      <3>1. /\ read' = [read EXCEPT ![r] = store[target[r]]]
            /\ pc' = [pc EXCEPT ![r] = "fail_set"]
            /\ UNCHANGED <<target, waited>>
        BY <1>6, <2>2 DEF ApiFailGet, Goto
      <3>2. UNCHANGED <<storeVars, apiVars, runVars, arqVars, worker, excused, lapsed, faults>>
        BY <1>6 DEF ApiFailGet
      <3>3. store[target[r]] \in Record \cup {Absent}
        BY <2>1 DEF TypeOK
      <3>4. read' \in [Reqs -> Record \cup {Absent}]
        BY <3>1, <3>3 DEF TypeOK
      <3>5. pc' \in [Reqs -> Labels]
        BY <3>1 DEF TypeOK, Labels
      <3>6. QED
        BY <3>1, <3>2, <3>4, <3>5 DEF TypeOK, storeVars, apiVars, runVars, arqVars
    <2>3. CASE ~Present(store[target[r]])
      BY <1>6, <2>3, ReplyType DEF TypeOK, ApiFailGet
    <2>4. QED
      BY <2>2, <2>3
  <1>7. ASSUME NEW r \in Reqs, ApiFailSet(r)
        PROVE  TypeOK'
    <2>1. target[r] \in Jobs /\ read[r] \in Record \cup {Absent}
      BY <1>7, OwnedJob DEF ApiFailSet, Owning, TypeOK
    <2>2. store' \in [Jobs -> Record \cup {Absent}] /\ ttl' \in [Jobs -> 0 .. ResultTTL]
      BY <1>7, <2>1, WriteType, RecordWriters, TTLTypes DEF ApiFailSet
    <2>3. QED
      BY <1>7, <2>2, ReplyType DEF TypeOK, ApiFailSet
  <1>8. ASSUME NEW r \in Reqs, PollEnds(r)
        PROVE  TypeOK'
    BY <1>8, ReplyType, JobsAssumption DEF TypeOK, PollEnds, Labels
  <1>9. ASSUME NEW r \in Reqs, RequestDies(r)
        PROVE  TypeOK'
    BY <1>9, ReplyType, JobsAssumption DEF TypeOK, RequestDies, Labels
  <1>10. ASSUME NEW j \in Jobs, StartRun(j)
        PROVE  TypeOK'
    <2>1. tries[j] + 1 \in 0 .. MaxTries
      BY <1>10, JobsAssumption DEF TypeOK, StartRun
    <2>2. QED
      BY <1>10, <2>1 DEF TypeOK, StartRun, At, RunLabels
  <1>11. ASSUME NEW j \in Jobs, Abandon(j)
        PROVE  TypeOK'
    BY <1>11, JobsAssumption DEF TypeOK, Abandon, RunLabels
  <1>12. ASSUME NEW j \in Jobs, MarkRunningGet(j)
        PROVE  TypeOK'
    BY <1>12, JobsAssumption DEF TypeOK, MarkRunningGet, At, RunLabels
  <1>13. ASSUME NEW j \in Jobs, MarkRunningSet(j)
        PROVE  TypeOK'
    BY <1>13, WriteType, RecordWriters, TTLTypes, JobsAssumption DEF TypeOK, MarkRunningSet, At, RunTTL, RunLabels
  <1>14. ASSUME NEW j \in Jobs, BodyReturns(j)
        PROVE  TypeOK'
    BY <1>14, JobsAssumption DEF TypeOK, BodyReturns, At, RunLabels
  <1>15. ASSUME NEW j \in Jobs, BodyRaises(j)
        PROVE  TypeOK'
    BY <1>15, JobsAssumption DEF TypeOK, BodyRaises, At, RunLabels
  <1>16. ASSUME NEW j \in Jobs, MarkCompletedGet(j)
        PROVE  TypeOK'
    BY <1>16, EndRunType, JobsAssumption DEF TypeOK, MarkCompletedGet, At, RunLabels
  <1>17. ASSUME NEW j \in Jobs, MarkCompletedSet(j)
        PROVE  TypeOK'
    BY <1>17, WriteType, RecordWriters, TTLTypes, EndRunType, JobsAssumption DEF TypeOK, MarkCompletedSet, At, RunLabels
  <1>18. ASSUME NEW j \in Jobs, MarkFailedGet(j)
        PROVE  TypeOK'
    BY <1>18, EndRunType, JobsAssumption DEF TypeOK, MarkFailedGet, At, RunLabels
  <1>19. ASSUME NEW j \in Jobs, MarkFailedSet(j)
        PROVE  TypeOK'
    BY <1>19, WriteType, RecordWriters, TTLTypes, EndRunType, JobsAssumption DEF TypeOK, MarkFailedSet, At, RunLabels
  <1>20. ASSUME NEW j \in Jobs, Timeout(j)
        PROVE  TypeOK'
    <2>1. store' \in [Jobs -> Record \cup {Absent}] /\ ttl' \in [Jobs -> 0 .. ResultTTL]
      BY <1>20, LandedType DEF Timeout
    <2>2. CASE TimeoutHandler(j)
      BY <1>20, <2>1, <2>2 DEF TypeOK, Timeout, At, RunLabels
    <2>3. CASE ~TimeoutHandler(j)
      <3>1. EndRun(j, FALSE) /\ excused' \in SUBSET Jobs
        BY <1>20, <2>3 DEF TypeOK, Timeout
      <3>2. QED
        BY <1>20, <2>1, <3>1, EndRunType DEF TypeOK, Timeout
    <2>4. QED
      BY <2>2, <2>3
  <1>21. ASSUME NEW j \in Jobs, LockExpires(j)
        PROVE  TypeOK'
    BY <1>21, JobsAssumption DEF TypeOK, LockExpires, RunLabels
  <1>22. ASSUME NEW j \in Jobs, RedisError(j)
        PROVE  TypeOK'
    <2>1. store' \in [Jobs -> Record \cup {Absent}] /\ ttl' \in [Jobs -> 0 .. ResultTTL]
      BY <1>22, LandedType DEF RedisError
    <2>2. faults' \in 0 .. MaxFaults
      BY <1>22, JobsAssumption DEF TypeOK, RedisError
    <2>3. CASE run[j] \in InTry
      BY <1>22, <2>1, <2>2, <2>3 DEF TypeOK, RedisError, At, RunLabels
    <2>4. CASE run[j] \notin InTry
      <3>1. EndRun(j, FALSE) /\ excused' \in SUBSET Jobs
        BY <1>22, <2>4 DEF TypeOK, RedisError
      <3>2. QED
        BY <1>22, <2>1, <2>2, <3>1, EndRunType DEF TypeOK, RedisError
    <2>5. QED
      BY <2>3, <2>4
  <1>23. CASE Shutdown
    <2>1. /\ store' \in [Jobs -> Record \cup {Absent}]
          /\ ttl' \in [Jobs -> 0 .. ResultTTL]
      BY <1>23, PendingType DEF TypeOK, Shutdown
    <2>2. /\ run' \in [Jobs -> RunLabels]
          /\ cancel' \in [Jobs -> {"no", "timeout", "shutdown"}]
          /\ locked' \in SUBSET Jobs
      BY <1>23 DEF TypeOK, Shutdown, RunLabels
    <2>3. /\ held' \in [Jobs -> Record \cup {Absent}]
          /\ age' \in [Jobs -> 0 .. JobTimeout]
      BY <1>23, JobsAssumption DEF TypeOK, Shutdown
    <2>4. /\ faults' \in 0 .. MaxFaults
          /\ worker' = "stopping"
      BY <1>23, JobsAssumption DEF TypeOK, Shutdown
    <2>5. UNCHANGED <<reqVars, apiVars, queue, tries, excused, lapsed>>
      BY <1>23 DEF Shutdown
    <2>6. QED
      BY <2>1, <2>2, <2>3, <2>4, <2>5 DEF TypeOK, reqVars, apiVars
  <1>24. CASE Stopped
    BY <1>24, PendingType, JobsAssumption DEF TypeOK, Stopped, Active, RunLabels
  <1>25. CASE Crash
    BY <1>25, PendingType, JobsAssumption DEF TypeOK, Crash, Active, RunLabels
  <1>26. CASE Restart
    BY <1>26, PendingType, JobsAssumption DEF TypeOK, Restart, Active, RunLabels
  <1>27. CASE Tick
    <2>1. ttl' \in [Jobs -> 0 .. ResultTTL] /\ store' \in [Jobs -> Record \cup {Absent}]
      BY <1>27, JobsAssumption DEF TypeOK, Tick
    <2>2. waited' \in [Reqs -> 0 .. SyncTimeout]
      <3>1. ASSUME NEW r \in Reqs, pc[r] = "poll"
            PROVE  waited[r] + 1 \in 0 .. SyncTimeout
        <4>1. waited[r] < SyncTimeout
          BY <1>27, <3>1 DEF Tick
        <4>2. waited[r] \in 0 .. SyncTimeout
          BY DEF TypeOK
        <4>3. QED
          BY <4>1, <4>2, JobsAssumption
      <3>2. 0 \in 0 .. SyncTimeout
        BY JobsAssumption
      <3>3. QED
        BY <1>27, <3>1, <3>2 DEF TypeOK, Tick
    <2>3. age' \in [Jobs -> 0 .. JobTimeout]
      <3>1. ASSUME NEW j \in Jobs, j \in Active, cancel[j] = "no"
            PROVE  age[j] + 1 \in 0 .. JobTimeout
        BY <1>27, <3>1, JobsAssumption DEF TypeOK, Tick
      <3>2. QED
        BY <1>27, <3>1 DEF TypeOK, Tick
    <2>4. QED
      BY <1>27, <2>1, <2>2, <2>3 DEF TypeOK, Tick
  <1>28. CASE UNCHANGED vars
    BY <1>28 DEF TypeOK
  <1>29. QED
    BY <1>1, <1>2, <1>3, <1>4, <1>5, <1>6, <1>7, <1>8, <1>9, <1>10, <1>11, <1>12, <1>13, <1>14, <1>15, <1>16, <1>17, <1>18, <1>19, <1>20, <1>21, <1>22, <1>23, <1>24, <1>25, <1>26, <1>27, <1>28 DEF Next, Handler, Coroutine

-----------------------------------------------------------------------------
(* Frames: what the two sides leave alone.                                 *)

Request == \E r \in Reqs : Admit(r) \/ Handler(r)
Background ==
    \/ \E j \in Jobs :
         \/ StartRun(j) \/ Abandon(j)
         \/ Coroutine(j)
         \/ BodyReturns(j) \/ BodyRaises(j)
         \/ LockExpires(j) \/ RedisError(j)
    \/ Shutdown \/ Stopped \/ Crash \/ Restart
    \/ Tick

LEMMA NextSplits == Next <=> Request \/ Background
  BY DEF Next, Request, Background

LEMMA BackgroundFrame ==
  ASSUME Background
  PROVE  UNCHANGED <<pc, target, read, submitted, accepted, index>>
  BY DEF Background, Coroutine, StartRun, Abandon, MarkRunningGet, MarkRunningSet,
         BodyReturns, BodyRaises, MarkCompletedGet, MarkCompletedSet, MarkFailedGet,
         MarkFailedSet, Timeout, LockExpires, RedisError, Shutdown, Stopped, Crash,
         Restart, Tick, reqVars, apiVars

LEMMA RequestFrame ==
  ASSUME NEW r \in Reqs, Admit(r) \/ Handler(r)
  PROVE  /\ UNCHANGED <<run, held, cancel, locked, excused, lapsed>>
         /\ queue \subseteq queue'
  BY DEF Handler, Admit, CreateWrite, CreateIndex, EnqueueOk, EnqueueFails,
         ApiFailGet, ApiFailSet, PollEnds, RequestDies, runVars, arqVars

-----------------------------------------------------------------------------
(* Ownership of job ids.                                                   *)

LEMMA OwnershipStep ==
  ASSUME TypeOK, OwnershipInv, [Next]_vars
  PROVE  OwnershipInv'
  <1>1. CASE Background
    BY <1>1, BackgroundFrame DEF OwnershipInv, Owning
  <1>2. CASE UNCHANGED vars
    BY <1>2 DEF OwnershipInv, Owning, vars, reqVars, apiVars
  <1>3. ASSUME NEW r \in Reqs, Admit(r)
        PROVE  OwnershipInv'
    <2>1. submitted \in Nat /\ submitted' = submitted + 1
      BY <1>3, JobsAssumption DEF Admit, TypeOK
    <2>2. 1 .. submitted \subseteq 1 .. submitted' /\ submitted' \in 1 .. submitted'
      BY <2>1
    <2>3. submitted' \notin 1 .. submitted
      BY <2>1
    <2>4. accepted' = accepted /\ target' = [target EXCEPT ![r] = submitted']
      BY <1>3, <2>1 DEF Admit
    <2>5. pc' = [pc EXCEPT ![r] = "admitted"]
      BY <1>3 DEF Admit, Goto
    <2>6. QED
      BY <2>2, <2>3, <2>4, <2>5 DEF OwnershipInv, Owning, TypeOK
  <1>4. ASSUME NEW r \in Reqs, CreateWrite(r) \/ CreateIndex(r) \/ EnqueueFails(r)
        PROVE  OwnershipInv'
    <2>1. UNCHANGED <<target, submitted, accepted>>
      BY <1>4 DEF CreateWrite, CreateIndex, EnqueueFails, apiVars
    <2>2. Owning(r)
      BY <1>4 DEF CreateWrite, CreateIndex, EnqueueFails, Owning
    <2>3. \E label \in {"written", "created", "fail_get"} :
             pc' = [pc EXCEPT ![r] = label]
      BY <1>4 DEF CreateWrite, CreateIndex, EnqueueFails, Goto
    <2>4. QED
      BY <2>1, <2>2, <2>3 DEF OwnershipInv, Owning, TypeOK
  <1>5. ASSUME NEW r \in Reqs, EnqueueOk(r)
        PROVE  OwnershipInv'
    <2>1. /\ submitted' = submitted
          /\ accepted' = accepted \cup {target[r]}
          /\ Owning(r)
      BY <1>5 DEF EnqueueOk, Owning
    <2>2. /\ \A s \in Reqs : s # r => pc'[s] = pc[s] /\ target'[s] = target[s]
          /\ pc'[r] = "idle" \/ (pc'[r] = "poll" /\ target'[r] = target[r])
      BY <1>5 DEF EnqueueOk, Reply, Goto, TypeOK
    <2>3. \A s \in Reqs : Owning(s)' => s # r /\ Owning(s) /\ target'[s] = target[s]
      BY <2>2 DEF Owning
    <2>4. accepted' \subseteq 1 .. submitted'
      BY <2>1 DEF OwnershipInv
    <2>5. \A s \in Reqs :
            /\ Owning(s)' => target'[s] \in 1 .. submitted' /\ target'[s] \notin accepted'
            /\ pc'[s] = "poll" => target'[s] \in accepted'
      BY <2>1, <2>2, <2>3 DEF OwnershipInv
    <2>6. \A s, t \in Reqs :
            s # t /\ Owning(s)' /\ Owning(t)' => target'[s] # target'[t]
      BY <2>3 DEF OwnershipInv
    <2>7. QED
      BY <2>4, <2>5, <2>6 DEF OwnershipInv
  <1>6. ASSUME NEW r \in Reqs,
               ApiFailGet(r) \/ ApiFailSet(r) \/ PollEnds(r) \/ RequestDies(r)
        PROVE  OwnershipInv'
    <2>1. UNCHANGED <<submitted, accepted>>
      BY <1>6 DEF ApiFailGet, ApiFailSet, PollEnds, RequestDies, apiVars
    <2>2. /\ \A s \in Reqs : s # r => pc'[s] = pc[s] /\ target'[s] = target[s]
          /\ \/ pc'[r] = "idle"
             \/ Owning(r) /\ pc'[r] = "fail_set" /\ target'[r] = target[r]
      BY <1>6 DEF ApiFailGet, ApiFailSet, PollEnds, RequestDies, Reply, Goto, TypeOK,
                  Owning
    <2>3. QED
      BY <2>1, <2>2 DEF OwnershipInv, Owning
  <1>7. QED
    BY <1>1, <1>2, <1>3, <1>4, <1>5, <1>6, NextSplits DEF Request, Handler

(* Every variable keeps its type, for every value of the constants.        *)
THEOREM TypeCorrect == Spec => [](TypeOK /\ OwnershipInv)
  <1>1. Init => TypeOK /\ OwnershipInv
    <2>1. SUFFICES ASSUME Init PROVE TypeOK /\ OwnershipInv
      OBVIOUS
    <2>2. <<>> \in Seq(Jobs)
      OBVIOUS
    <2>3. TypeOK
      BY <2>1, <2>2, JobsAssumption DEF Init, TypeOK, Labels, RunLabels
    <2>4. OwnershipInv
      BY <2>1 DEF Init, OwnershipInv, Owning
    <2>5. QED
      BY <2>3, <2>4
  <1>2. TypeOK /\ OwnershipInv /\ [Next]_vars => TypeOK' /\ OwnershipInv'
    BY TypeStep, OwnershipStep
  <1>3. QED
    BY <1>1, <1>2, PTL DEF Spec

-----------------------------------------------------------------------------
(* The worker's bookkeeping.                                               *)

LEMMA WorkerStep ==
  ASSUME TypeOK, WorkerInv, [Next]_vars
  PROVE  WorkerInv'
  <1>1. CASE Request
    BY <1>1, RequestFrame DEF Request, WorkerInv
  <1>2. CASE UNCHANGED vars
    BY <1>2 DEF WorkerInv, vars, runVars, arqVars
  <1>3. ASSUME NEW j \in Jobs,
               \/ StartRun(j) \/ Abandon(j) \/ LockExpires(j)
               \/ MarkRunningGet(j) \/ MarkRunningSet(j)
               \/ BodyReturns(j) \/ BodyRaises(j)
        PROVE  WorkerInv'
    BY <1>3 DEF StartRun, Abandon, LockExpires, MarkRunningGet, MarkRunningSet,
                BodyReturns, BodyRaises, At, WorkerInv, TypeOK, runVars, arqVars
  <1>4. ASSUME NEW j \in Jobs,
               \/ MarkCompletedGet(j) \/ MarkCompletedSet(j)
               \/ MarkFailedGet(j) \/ MarkFailedSet(j)
               \/ Timeout(j) \/ RedisError(j)
        PROVE  WorkerInv'
    <2>1. run[j] # "none"
      BY <1>4 DEF MarkCompletedGet, MarkCompletedSet, MarkFailedGet, MarkFailedSet,
                  Timeout, RedisError
    <2>2. /\ \A k \in Jobs \ {j} : run'[k] = run[k]
          /\ queue \ {j} \subseteq queue' /\ locked \ {j} \subseteq locked'
          /\ run'[j] = "none" \/ (queue' = queue /\ locked' = locked)
      BY <1>4, SMTT(30) DEF MarkCompletedGet, MarkCompletedSet, MarkFailedGet, MarkFailedSet,
                  Timeout, RedisError, EndRun, At, TypeOK, arqVars
    <2>3. QED
      BY <2>1, <2>2 DEF WorkerInv
  <1>5. CASE Shutdown
    BY <1>5 DEF Shutdown, WorkerInv, Active
  <1>6. CASE Stopped \/ Crash \/ Restart \/ Tick
    BY <1>6 DEF Stopped, Crash, Restart, Tick, WorkerInv, runVars, arqVars
  <1>7. QED
    BY <1>1, <1>2, <1>3, <1>4, <1>5, <1>6, NextSplits DEF Background, Coroutine

LEMMA WorkerInvariant == Spec => []WorkerInv
  <1>1. Init => WorkerInv
    BY DEF Init, WorkerInv
  <1>2. TypeOK /\ WorkerInv /\ [Next]_vars => WorkerInv'
    BY WorkerStep
  <1>3. QED
    BY <1>1, <1>2, TypeCorrect, PTL DEF Spec

-----------------------------------------------------------------------------
(* What a record shows.                                                    *)

LEMMA ConsistentWriters ==
  ASSUME NEW rec \in Record \cup {Absent}, Consistent(rec)
  PROVE  /\ Consistent(Absent) /\ Consistent(Fresh)
         /\ Consistent(Completed(rec)) /\ Consistent(Failed(rec))
         /\ rec.status = "queued" => Consistent(Running(rec))
  <1> USE DEF Consistent, InFlight, Record, Statuses, Absent
  <1>1. Consistent(Absent) /\ Consistent(Fresh)
    BY DEF Fresh
  <1>2. CASE rec \in Record
    BY <1>1, <1>2 DEF Completed, Failed, Running
  <1>3. CASE rec = Absent
    BY <1>1, <1>3 DEF Completed, Failed, Running
  <1>4. QED
    BY <1>2, <1>3

LEMMA PendingConsistent ==
  ASSUME TypeOK, CopiesInv, NEW j \in Jobs, HasPending(j)
  PROVE  Consistent(Pending(j))
  <1>1. held[j] \in Record \cup {Absent} /\ Consistent(held[j])
    BY DEF TypeOK, CopiesInv
  <1>2. run[j] = "mark_set" => held[j].status = "queued"
    BY DEF CopiesInv
  <1>3. QED
    BY <1>1, <1>2, ConsistentWriters DEF HasPending, Pending

LEMMA LandedConsistent ==
  ASSUME TypeOK, CopiesInv, NEW j \in Jobs, MayHaveLanded(j)
  PROVE  \A k \in Jobs : Consistent(store'[k])
  <1>1. CASE UNCHANGED storeVars
    BY <1>1 DEF CopiesInv, storeVars
  <1>2. CASE HasPending(j) /\ Write(j, Pending(j), PendingTTL(j))
    BY <1>2, PendingConsistent DEF Write, TypeOK, CopiesInv
  <1>3. QED
    BY <1>1, <1>2 DEF MayHaveLanded

(* The end of a run drops its copy.                                        *)
LEMMA EndRunCopies ==
  ASSUME TypeOK, CopiesInv, NEW j \in Jobs, NEW again, EndRun(j, again)
  PROVE  \A k \in Jobs : /\ Consistent(held'[k])
                         /\ run'[k] = "mark_set" => held'[k].status = "queued"
  <1>1. Consistent(Absent)
    BY DEF Consistent, InFlight, Absent
  <1>2. QED
    BY <1>1 DEF EndRun, At, TypeOK, CopiesInv

LEMMA CopiesStep ==
  ASSUME TypeOK, OwnershipInv, CopiesInv, [Next]_vars
  PROVE  CopiesInv'
  <1>1. Consistent(Absent) /\ Consistent(Fresh)
    BY DEF Consistent, InFlight, Absent, Fresh
  <1>2. CASE UNCHANGED vars
    BY <1>2 DEF CopiesInv, vars, storeVars, runVars, reqVars
  <1>3. CASE Request
    <2>1. PICK r \in Reqs : Admit(r) \/ Handler(r)
      BY <1>3 DEF Request
    <2>2. UNCHANGED <<run, held>>
      BY <2>1, RequestFrame
    <2>3. \A s \in Reqs : Consistent(read'[s])
      <3>1. CASE ApiFailGet(r) /\ Present(store[target[r]])
        <4>1. target[r] \in Jobs
          BY <3>1, OwnedJob DEF ApiFailGet, Owning
        <4>2. read' = [read EXCEPT ![r] = store[target[r]]]
          BY <3>1 DEF ApiFailGet
        <4>3. QED
          BY <4>1, <4>2 DEF TypeOK, CopiesInv
      <3>2. CASE ~(ApiFailGet(r) /\ Present(store[target[r]]))
        <4>1. read' = read \/ read' = [read EXCEPT ![r] = Absent]
          BY <2>1, <3>2 DEF Handler, Admit, CreateWrite, CreateIndex, EnqueueOk,
                EnqueueFails, ApiFailGet, ApiFailSet, PollEnds, RequestDies, Reply
        <4>2. QED
          BY <1>1, <4>1 DEF TypeOK, CopiesInv
      <3>3. QED
        BY <3>1, <3>2
    <2>4. \A j \in Jobs : Consistent(store'[j])
      <3>1. CASE CreateWrite(r)
        BY <1>1, <3>1 DEF CreateWrite, Write, TypeOK, CopiesInv
      <3>2. CASE ApiFailSet(r)
        <4>1. read[r] \in Record \cup {Absent} /\ Consistent(read[r])
          BY DEF TypeOK, CopiesInv
        <4>2. Consistent(Failed(read[r]))
          BY <4>1, ConsistentWriters
        <4>3. QED
          BY <3>2, <4>2 DEF ApiFailSet, Write, TypeOK, CopiesInv
      <3>3. CASE ~CreateWrite(r) /\ ~ApiFailSet(r)
        <4>1. store' = store
          BY <2>1, <3>3 DEF Handler, Admit, CreateIndex, EnqueueOk, EnqueueFails,
                ApiFailGet, PollEnds, RequestDies, storeVars
        <4>2. QED
          BY <4>1 DEF CopiesInv
      <3>4. QED
        BY <3>1, <3>2, <3>3
    <2>5. QED
      BY <2>2, <2>3, <2>4 DEF CopiesInv
  <1>4. CASE Background
    <2>1. read' = read
      BY <1>4, BackgroundFrame
    <2> DEFINE CopiesOK == \A k \in Jobs :
                 /\ Consistent(held'[k])
                 /\ run'[k] = "mark_set" => held'[k].status = "queued"
               StoreOK == \A k \in Jobs : Consistent(store'[k])
    <2>2. SUFFICES StoreOK /\ CopiesOK
      BY <2>1 DEF CopiesInv
    <2>3. ASSUME NEW j \in Jobs,
                 \/ StartRun(j) \/ Abandon(j) \/ LockExpires(j)
                 \/ BodyReturns(j) \/ BodyRaises(j)
          PROVE  StoreOK /\ CopiesOK
      BY <2>3 DEF StartRun, Abandon, LockExpires, BodyReturns, BodyRaises, At,
            TypeOK, CopiesInv, storeVars, runVars
    <2>4. ASSUME NEW j \in Jobs, MarkRunningGet(j)
          PROVE  StoreOK /\ CopiesOK
      BY <2>4 DEF MarkRunningGet, MayRun, At, TypeOK, CopiesInv, storeVars
    <2>5. ASSUME NEW j \in Jobs, MarkRunningSet(j)
          PROVE  StoreOK /\ CopiesOK
      <3>1. /\ held[j] \in Record \cup {Absent} /\ Consistent(held[j])
            /\ held[j].status = "queued"
        BY <2>5 DEF TypeOK, CopiesInv, MarkRunningSet
      <3>2. Consistent(Running(held[j]))
        BY <3>1, ConsistentWriters
      <3>3. /\ store' = [store EXCEPT ![j] = Running(held[j])]
            /\ held' = [held EXCEPT ![j] = Running(held[j])]
            /\ run' = [run EXCEPT ![j] = "body"]
        BY <2>5 DEF MarkRunningSet, Write, At, TypeOK
      <3>4. QED
        BY <3>2, <3>3 DEF TypeOK, CopiesInv
    <2>6. ASSUME NEW j \in Jobs, MarkCompletedGet(j) \/ MarkFailedGet(j)
          PROVE  StoreOK /\ CopiesOK
      <3>1. StoreOK
        BY <2>6 DEF MarkCompletedGet, MarkFailedGet, CopiesInv, storeVars
      <3>2. CASE Present(store[j])
        BY <2>6, <3>1, <3>2 DEF MarkCompletedGet, MarkFailedGet, At, TypeOK, CopiesInv
      <3>3. CASE ~Present(store[j])
        <4>1. \E again \in BOOLEAN : EndRun(j, again)
          BY <2>6, <3>3 DEF MarkCompletedGet, MarkFailedGet
        <4>2. QED
          BY <3>1, <4>1, EndRunCopies
      <3>4. QED
        BY <3>2, <3>3
    <2>7. ASSUME NEW j \in Jobs, MarkCompletedSet(j) \/ MarkFailedSet(j)
          PROVE  StoreOK /\ CopiesOK
      <3>1. \E again \in BOOLEAN : EndRun(j, again)
        BY <2>7 DEF MarkCompletedSet, MarkFailedSet
      <3>2. held[j] \in Record \cup {Absent} /\ Consistent(held[j])
        BY DEF TypeOK, CopiesInv
      <3>3. Consistent(Completed(held[j])) /\ Consistent(Failed(held[j]))
        BY <3>2, ConsistentWriters
      <3>4. StoreOK
        BY <2>7, <3>3 DEF MarkCompletedSet, MarkFailedSet, Write, TypeOK, CopiesInv
      <3>5. QED
        BY <3>1, <3>4, EndRunCopies
    <2>8. ASSUME NEW j \in Jobs, Timeout(j) \/ RedisError(j)
          PROVE  StoreOK /\ CopiesOK
      <3>1. StoreOK
        BY <2>8, LandedConsistent DEF Timeout, RedisError
      <3>2. \/ EndRun(j, FALSE)
            \/ held' = held /\ run' = [run EXCEPT ![j] = "fail_get"]
        BY <2>8 DEF Timeout, RedisError, At
      <3>3. QED
        BY <3>1, <3>2, EndRunCopies DEF TypeOK, CopiesInv
    <2>9. CASE Shutdown
      <3>1. CopiesOK
        BY <1>1, <2>9 DEF Shutdown, CopiesInv
      <3>2. PICK landed \in SUBSET {j \in Jobs : HasPending(j)} :
               store' = [j \in Jobs |-> IF j \in landed THEN Pending(j) ELSE store[j]]
        BY <2>9 DEF Shutdown
      <3>3. StoreOK
        BY <3>2, PendingConsistent DEF CopiesInv
      <3>4. QED
        BY <3>1, <3>3
    <2>10. CASE Stopped \/ Restart \/ Crash
      BY <1>1, <2>10 DEF Stopped, Restart, Crash, CopiesInv, storeVars, runVars
    <2>11. CASE Tick
      BY <1>1, <2>11 DEF Tick, CopiesInv
    <2>12. QED
      BY <1>4, <2>3, <2>4, <2>5, <2>6, <2>7, <2>8, <2>9, <2>10, <2>11
         DEF Background, Coroutine
  <1>5. QED
    BY <1>2, <1>3, <1>4, NextSplits

(* Every record a caller polls shows the payload its status promises.      *)
THEOREM PayloadMatchesStatus == Spec => []StatusCarriesItsPayload
  <1>1. Init => CopiesInv
    BY DEF Init, CopiesInv, Consistent, InFlight, Absent
  <1>2. TypeOK /\ OwnershipInv /\ CopiesInv /\ [Next]_vars => CopiesInv'
    BY CopiesStep
  <1>3. CopiesInv => StatusCarriesItsPayload
    BY DEF CopiesInv, StatusCarriesItsPayload
  <1>4. QED
    BY <1>1, <1>2, <1>3, TypeCorrect, PTL DEF Spec

-----------------------------------------------------------------------------
(* Jobs that left the queue.                                               *)

LEMMA RequestAnswers ==
  ASSUME TypeOK, OwnershipInv, FinishedJobsAreAnswered,
         NEW r \in Reqs, Admit(r) \/ Handler(r)
  PROVE  FinishedJobsAreAnswered'
  <1>1. excused' = excused /\ queue \subseteq queue'
    BY RequestFrame
  <1>2. CASE CreateWrite(r) \/ ApiFailSet(r)
    <2>1. target[r] \in Jobs /\ target[r] \notin accepted
      BY <1>2, OwnedJob DEF CreateWrite, ApiFailSet, Owning, OwnershipInv
    <2>2. accepted' = accepted /\ \A k \in Jobs \ {target[r]} : store'[k] = store[k]
      BY <1>2, <2>1 DEF CreateWrite, ApiFailSet, Write, TypeOK, apiVars
    <2>3. accepted \subseteq Jobs \ {target[r]}
      BY <2>1 DEF TypeOK
    <2>4. QED
      BY <1>1, <2>2, <2>3 DEF FinishedJobsAreAnswered, InFlight
  <1>3. CASE EnqueueOk(r)
    BY <1>1, <1>3 DEF EnqueueOk, FinishedJobsAreAnswered, InFlight, storeVars
  <1>4. CASE ~(CreateWrite(r) \/ ApiFailSet(r) \/ EnqueueOk(r))
    <2>1. store' = store /\ accepted' = accepted
      BY <1>4 DEF Handler, Admit, CreateIndex, EnqueueFails, ApiFailGet, PollEnds,
            RequestDies, storeVars, apiVars
    <2>2. QED
      BY <1>1, <2>1 DEF FinishedJobsAreAnswered, InFlight
  <1>5. QED
    BY <1>2, <1>3, <1>4

(* A step of the coroutine for j touches no other job, and either keeps j  *)
(* on the queue, or excuses it, or leaves a verdict or nothing behind.     *)
LEMMA CoroutineAnswers ==
  ASSUME TypeOK, WorkerInv, NEW j \in Jobs, Coroutine(j) \/ RedisError(j)
  PROVE  /\ accepted' = accepted
         /\ \A k \in Jobs \ {j} : store'[k] = store[k]
         /\ queue \ {j} \subseteq queue' /\ excused \subseteq excused'
         /\ j \in queue' \cup excused' \/ ~InFlight(store'[j])
  <1>1. j \in queue
    BY DEF WorkerInv, Coroutine, MarkRunningGet, MarkRunningSet, MarkCompletedGet,
       MarkCompletedSet, MarkFailedGet, MarkFailedSet, Timeout, RedisError
  <1>2. CASE MarkRunningGet(j) \/ MarkRunningSet(j)
    BY <1>1, <1>2 DEF MarkRunningGet, MarkRunningSet, Write, TypeOK, apiVars, arqVars,
       storeVars
  <1>3. CASE MarkCompletedGet(j) \/ MarkFailedGet(j)
    BY <1>1, <1>3 DEF MarkCompletedGet, MarkFailedGet, EndRun, Present, InFlight,
       apiVars, arqVars, storeVars
  <1>4. CASE MarkCompletedSet(j) \/ MarkFailedSet(j)
    <2>1. PICK rec \in {Completed(held[j]), Failed(held[j])} :
             store' = [store EXCEPT ![j] = rec]
      BY <1>4 DEF MarkCompletedSet, MarkFailedSet, Write
    <2>2. held[j] \in Record \cup {Absent}
      BY DEF TypeOK
    <2>3. ~InFlight(rec)
      BY <2>2 DEF Completed, Failed, InFlight, Record, Absent
    <2>4. accepted' = accepted /\ queue \ {j} \subseteq queue' /\ excused' = excused
      BY <1>4 DEF MarkCompletedSet, MarkFailedSet, EndRun, apiVars
    <2>5. QED
      BY <2>1, <2>3, <2>4 DEF TypeOK
  <1>5. CASE Timeout(j) \/ RedisError(j)
    <2>1. \A k \in Jobs \ {j} : store'[k] = store[k]
      BY <1>5 DEF Timeout, RedisError, MayHaveLanded, Write, TypeOK, storeVars
    <2>2. accepted' = accepted
      BY <1>5 DEF Timeout, RedisError, apiVars
    <2>3. CASE run[j] \in InTry
      BY <1>1, <1>5, <2>1, <2>2, <2>3 DEF Timeout, TimeoutHandler, RedisError, arqVars
    <2>4. CASE run[j] \notin InTry
      BY <1>1, <1>5, <2>1, <2>2, <2>4 DEF Timeout, TimeoutHandler, RedisError, EndRun
    <2>5. QED
      BY <2>3, <2>4
  <1>6. QED
    BY <1>2, <1>3, <1>4, <1>5 DEF Coroutine

LEMMA BackgroundAnswers ==
  ASSUME TypeOK, WorkerInv, FinishedJobsAreAnswered, Background
  PROVE  FinishedJobsAreAnswered'
  <1>1. accepted' = accepted /\ accepted \subseteq Jobs
    BY BackgroundFrame DEF TypeOK
  <1>2. ASSUME NEW j \in Jobs, Coroutine(j) \/ RedisError(j)
        PROVE  FinishedJobsAreAnswered'
    <2>1. /\ \A k \in Jobs \ {j} : store'[k] = store[k]
          /\ queue \ {j} \subseteq queue' /\ excused \subseteq excused'
          /\ j \in queue' \cup excused' \/ ~InFlight(store'[j])
      BY <1>2, CoroutineAnswers
    <2>2. QED
      BY <1>1, <2>1 DEF FinishedJobsAreAnswered, InFlight
  <1>3. ASSUME NEW j \in Jobs,
               StartRun(j) \/ Abandon(j) \/ BodyReturns(j) \/ BodyRaises(j) \/ LockExpires(j)
        PROVE  FinishedJobsAreAnswered'
    BY <1>1, <1>3 DEF StartRun, Abandon, BodyReturns, BodyRaises, LockExpires,
       FinishedJobsAreAnswered, InFlight, storeVars, arqVars
  <1>4. CASE Shutdown
    <2>1. PICK landed \in SUBSET {j \in Jobs : HasPending(j)} :
             store' = [j \in Jobs |-> IF j \in landed THEN Pending(j) ELSE store[j]]
      BY <1>4 DEF Shutdown
    <2>2. landed \subseteq queue
      BY <2>1 DEF HasPending, WorkerInv
    <2>3. queue' = queue /\ excused' = excused
      BY <1>4 DEF Shutdown
    <2>4. QED
      BY <1>1, <2>1, <2>2, <2>3 DEF FinishedJobsAreAnswered, InFlight
  <1>5. CASE Stopped \/ Crash \/ Restart
    BY <1>1, <1>5 DEF Stopped, Crash, Restart, FinishedJobsAreAnswered, InFlight,
       storeVars, arqVars
  <1>6. CASE Tick
    <2>1. \A j \in Jobs : store'[j] \in {store[j], Absent}
      BY <1>6 DEF Tick
    <2>2. queue' = queue /\ excused' = excused
      BY <1>6 DEF Tick, arqVars
    <2>3. QED
      BY <1>1, <2>1, <2>2 DEF FinishedJobsAreAnswered, InFlight, Absent
  <1>7. QED
    BY <1>2, <1>3, <1>4, <1>5, <1>6 DEF Background

(* Whatever ends a run, a job the queue has dropped is not left queued or  *)
(* running, except by the faults the history variable names.               *)
THEOREM DroppedJobsAreAnswered == Spec => []FinishedJobsAreAnswered
  <1>1. Init => FinishedJobsAreAnswered
    BY DEF Init, FinishedJobsAreAnswered
  <1>2. ASSUME TypeOK, OwnershipInv, WorkerInv, FinishedJobsAreAnswered, [Next]_vars
        PROVE  FinishedJobsAreAnswered'
    <2>1. CASE Request
      BY <1>2, <2>1, RequestAnswers DEF Request
    <2>2. CASE Background
      BY <1>2, <2>2, BackgroundAnswers
    <2>3. CASE UNCHANGED vars
      BY <1>2, <2>3 DEF FinishedJobsAreAnswered, InFlight, vars, storeVars, apiVars,
         arqVars
    <2>4. QED
      BY <1>2, <2>1, <2>2, <2>3, NextSplits
  <1>3. QED
    BY <1>1, <1>2, TypeCorrect, WorkerInvariant, PTL DEF Spec

-----------------------------------------------------------------------------
(***************************************************************************)
(* How long a record lasts, what the copies held between a GET and its SET *)
(* still say about it, the bound on the overrun of the tier's cap, and the *)
(* refinement of JobContract, step by step.                                *)
(*                                                                         *)
(* All of them look at one job at a time, so one lemma (EveryMove) says    *)
(* what a step of the system can mean to a job, and the invariants are     *)
(* proved move by move instead of action by action.                        *)
(***************************************************************************)

-----------------------------------------------------------------------------
(* What a step can mean to job j.                                          *)

Untouched(j) == store'[j] = store[j] /\ ttl'[j] = ttl[j]
Reported(j) ==
    /\ HasPending(j)
    /\ store'[j] = Pending(j) /\ ttl'[j] = PendingTTL(j)
SameRun(j) ==
    /\ run'[j] = run[j] /\ held'[j] = held[j]
    /\ cancel'[j] = cancel[j] /\ age'[j] = age[j]

(* The submission handler that created j writes its record.                *)
Filed(j) ==
    /\ SameRun(j)
    /\ \E r \in Reqs : /\ Owning(r) /\ target[r] = j
                       /\ CreateWrite(r) \/ ApiFailSet(r)

Starts(j) ==
    /\ run[j] = "none" /\ run'[j] = "mark_get"
    /\ held'[j] = held[j] /\ cancel'[j] = cancel[j] /\ Untouched(j)
Skips(j) ==
    /\ run[j] = "mark_get" /\ run'[j] = "body"
    /\ held'[j] = held[j] /\ cancel'[j] = cancel[j] /\ Untouched(j)
Reads(j) ==
    /\ <<run[j], run'[j]>> \in {<<"mark_get", "mark_set">>, <<"done_get", "done_set">>,
                                <<"fail_get", "fail_set">>}
    /\ run[j] = "mark_get" => MayRun(store[j])
    /\ held'[j] = store[j] /\ cancel'[j] = cancel[j] /\ Untouched(j)
Marks(j) ==
    /\ run[j] = "mark_set" /\ run'[j] = "body"
    /\ held'[j] = Running(held[j]) /\ cancel'[j] = cancel[j]
    /\ age'[j] = age[j] /\ Reported(j)
Leaves(j) ==
    /\ run[j] = "body" /\ run'[j] \in {"done_get", "fail_get"}
    /\ held'[j] = held[j] /\ Untouched(j)
Caught(j) ==
    /\ run[j] \in InTry /\ run'[j] = "fail_get"
    /\ held'[j] = held[j] /\ (Untouched(j) \/ Reported(j))
Ends(j) ==
    /\ run'[j] = "none" /\ held'[j] = Absent
    /\ cancel'[j] = "no" /\ (Untouched(j) \/ Reported(j))

Move(j) ==
    \/ SameRun(j) /\ Untouched(j)
    \/ Filed(j)
    \/ Starts(j) \/ Skips(j) \/ Reads(j) \/ Marks(j) \/ Leaves(j)
    \/ Caught(j) \/ Ends(j)

-----------------------------------------------------------------------------
LEMMA RequestMoves ==
  ASSUME TypeOK, OwnershipInv, NEW r \in Reqs, Admit(r) \/ Handler(r), NEW j \in Jobs
  PROVE  Move(j)
  <1>1. CASE CreateWrite(r) \/ ApiFailSet(r)
    <2>1. Owning(r) /\ target[r] \in Jobs
      BY <1>1, OwnedJob DEF CreateWrite, ApiFailSet, Owning
    <2>2. SameRun(j)
      BY <1>1 DEF CreateWrite, ApiFailSet, runVars, SameRun
    <2>3. CASE target[r] = j
      BY <1>1, <2>1, <2>2, <2>3 DEF Filed, Move
    <2>4. CASE target[r] # j
      BY <1>1, <2>1, <2>2, <2>4 DEF CreateWrite, ApiFailSet, Write, TypeOK, Untouched,
         Move
    <2>5. QED
      BY <2>3, <2>4
  <1>2. CASE ~(CreateWrite(r) \/ ApiFailSet(r))
    BY <1>2 DEF Handler, Admit, CreateIndex, EnqueueOk, EnqueueFails, ApiFailGet,
       PollEnds, RequestDies, storeVars, runVars, Untouched, SameRun, Move
  <1>3. QED
    BY <1>1, <1>2

LEMMA LandedMoves ==
  ASSUME TypeOK, NEW k \in Jobs, MayHaveLanded(k), NEW j \in Jobs
  PROVE  Untouched(j) \/ (j = k /\ Reported(j))
  BY DEF MayHaveLanded, Write, TypeOK, Untouched, Reported, storeVars

LEMMA EndedMoves ==
  ASSUME TypeOK, NEW k \in Jobs, NEW again, EndRun(k, again), NEW j \in Jobs
  PROVE  /\ j # k => SameRun(j)
         /\ j = k => run'[j] = "none" /\ held'[j] = Absent /\ cancel'[j] = "no"
  BY DEF EndRun, At, TypeOK, SameRun

LEMMA EveryMove ==
  ASSUME TypeOK, OwnershipInv, WorkerInv, Next, ~Tick, NEW j \in Jobs
  PROVE  Move(j)
  <1>1. CASE Request
    BY <1>1, RequestMoves DEF Request
  <1>2. ASSUME NEW k \in Jobs,
               \/ StartRun(k) \/ Abandon(k) \/ LockExpires(k)
               \/ BodyReturns(k) \/ BodyRaises(k)
        PROVE  Move(j)
    <2>1. Untouched(j)
      BY <1>2 DEF StartRun, Abandon, LockExpires, BodyReturns, BodyRaises, storeVars,
         Untouched
    <2>2. SameRun(j) \/ Starts(j) \/ Leaves(j)
      <3>1. CASE StartRun(k)
        <4>1. run[k] = "none"
          BY <3>1 DEF StartRun, WorkerInv
        <4>2. QED
          BY <2>1, <3>1, <4>1 DEF StartRun, At, TypeOK, SameRun, Starts
      <3>2. CASE BodyReturns(k) \/ BodyRaises(k)
        BY <2>1, <3>2 DEF BodyReturns, BodyRaises, At, TypeOK, SameRun, Leaves
      <3>3. CASE Abandon(k) \/ LockExpires(k)
        BY <3>3 DEF Abandon, LockExpires, runVars, SameRun
      <3>4. QED
        BY <1>2, <3>1, <3>2, <3>3
    <2>3. QED
      BY <2>1, <2>2 DEF Move
  <1>3. ASSUME NEW k \in Jobs, MarkRunningGet(k)
        PROVE  Move(j)
    BY <1>3 DEF MarkRunningGet, At, TypeOK, storeVars, Untouched, SameRun, Reads, Skips,
       Move
  <1>4. ASSUME NEW k \in Jobs, MarkRunningSet(k)
        PROVE  Move(j)
    <2>1. CASE j = k
      <3>1. HasPending(j) /\ Pending(j) = Running(held[j]) /\ PendingTTL(j) = RunTTL(j)
        BY <1>4, <2>1 DEF MarkRunningSet, HasPending, Pending, PendingTTL
      <3>2. QED
        BY <1>4, <2>1, <3>1 DEF MarkRunningSet, Write, At, TypeOK, Reported, Marks, Move
    <2>2. CASE j # k
      BY <1>4, <2>2 DEF MarkRunningSet, Write, At, TypeOK, Untouched, SameRun, Move
    <2>3. QED
      BY <2>1, <2>2
  <1>5. ASSUME NEW k \in Jobs, MarkCompletedGet(k) \/ MarkFailedGet(k)
        PROVE  Move(j)
    <2>1. Untouched(j)
      BY <1>5 DEF MarkCompletedGet, MarkFailedGet, storeVars, Untouched
    <2>2. CASE Present(store[k])
      BY <1>5, <2>1, <2>2 DEF MarkCompletedGet, MarkFailedGet, At, TypeOK, SameRun,
         Reads, Move
    <2>3. CASE ~Present(store[k])
      <3>1. \E again \in BOOLEAN : EndRun(k, again)
        BY <1>5, <2>3 DEF MarkCompletedGet, MarkFailedGet
      <3>2. QED
        BY <2>1, <3>1, EndedMoves DEF Ends, Move
    <2>4. QED
      BY <2>2, <2>3
  <1>6. ASSUME NEW k \in Jobs, MarkCompletedSet(k) \/ MarkFailedSet(k)
        PROVE  Move(j)
    <2>1. \E again \in BOOLEAN : EndRun(k, again)
      BY <1>6 DEF MarkCompletedSet, MarkFailedSet
    <2>2. HasPending(k) /\ Write(k, Pending(k), PendingTTL(k))
      BY <1>6 DEF MarkCompletedSet, MarkFailedSet, HasPending, Pending, PendingTTL
    <2>3. IF j = k THEN Reported(j) ELSE Untouched(j)
      BY <2>2 DEF Write, TypeOK, Reported, Untouched
    <2>4. QED
      BY <2>1, <2>3, EndedMoves DEF Ends, Move
  <1>7. ASSUME NEW k \in Jobs, Timeout(k) \/ RedisError(k)
        PROVE  Move(j)
    <2>1. Untouched(j) \/ (j = k /\ Reported(j))
      BY <1>7, LandedMoves DEF Timeout, RedisError
    <2>2. CASE run[k] \in InTry
      <3>1. /\ run' = [run EXCEPT ![k] = "fail_get"]
            /\ held' = held /\ age' = age
            /\ j # k => cancel'[j] = cancel[j]
        BY <1>7, <2>2 DEF Timeout, TimeoutHandler, RedisError, At, TypeOK
      <3>2. QED
        BY <2>1, <2>2, <3>1 DEF TypeOK, SameRun, Caught, Move
    <2>3. CASE run[k] \notin InTry
      <3>1. EndRun(k, FALSE)
        BY <1>7, <2>3 DEF Timeout, TimeoutHandler, RedisError
      <3>2. QED
        BY <2>1, <3>1, EndedMoves DEF Ends, Move
    <2>4. QED
      BY <2>2, <2>3
  <1>8. CASE Shutdown
    <2>1. PICK landed \in SUBSET {k \in Jobs : HasPending(k)} :
             /\ store' = [k \in Jobs |-> IF k \in landed THEN Pending(k) ELSE store[k]]
             /\ ttl' = [k \in Jobs |-> IF k \in landed THEN PendingTTL(k) ELSE ttl[k]]
      BY <1>8 DEF Shutdown
    <2>2. Untouched(j) \/ Reported(j)
      BY <2>1 DEF Untouched, Reported
    <2>3. \/ run[j] \in InTry /\ run'[j] = "fail_get" /\ held'[j] = held[j]
          \/ run'[j] = "none" /\ held'[j] = Absent /\ cancel'[j] = "no"
      BY <1>8 DEF Shutdown, Active
    <2>4. QED
      BY <2>2, <2>3 DEF Caught, Ends, Move
  <1>9. CASE Stopped \/ Restart \/ Crash
    BY <1>9 DEF Stopped, Restart, Crash, storeVars, runVars, SameRun, Untouched, Ends, Move
  <1>10. QED
    BY <1>1, <1>2, <1>3, <1>4, <1>5, <1>6, <1>7, <1>8, <1>9, NextSplits
       DEF Background, Coroutine

-----------------------------------------------------------------------------
(* How long a record lasts.                                                *)

(* A record is there exactly while its time to live runs.  Until its       *)
(* handler starts to wait it has a full RUNNING_TTL, from then on at least *)
(* what the wait has left of it; and a coroutine in its body that marked   *)
(* its job running has used up of it no more than its own age.             *)
PresenceInv == \A j \in Jobs : Present(store[j]) <=> ttl[j] > 0
WaitInv ==
    \A r \in Reqs :
        /\ pc[r] \in {"written", "created"} => ttl[target[r]] >= RunningTTL
        /\ pc[r] = "poll" => ttl[target[r]] + waited[r] >= RunningTTL
        /\ pc[r] # "poll" => waited[r] = 0
BodyInv ==
    \A j \in Jobs :
        /\ run[j] \in {"none", "mark_get"} => held[j] = Absent
        /\ run[j] \in {"none", "mark_get", "mark_set", "body"} => cancel[j] = "no"
        /\ run[j] = "body" /\ held[j].status = "running" => ttl[j] + age[j] >= RunningTTL
ExpiryInv == PresenceInv /\ WaitInv /\ BodyInv

LEMMA RunningTTLPositive ==
  /\ RunningTTL \in Nat /\ ResultTTL \in Nat
  /\ 0 < RunningTTL /\ RunningTTL <= ResultTTL
  /\ JobTimeout < RunningTTL /\ SyncTimeout < RunningTTL
  /\ JobTimeout \in Nat /\ SyncTimeout \in Nat
  BY JobsAssumption

(* Every write leaves a record with at least a full RUNNING_TTL.           *)
LEMMA PendingLasts ==
  ASSUME TypeOK, NEW j \in Jobs, HasPending(j)
  PROVE  Present(Pending(j)) /\ PendingTTL(j) >= RunningTTL
  <1>1. Pending(j) \in Record
    BY PendingType
  <1>2. Present(Pending(j))
    BY <1>1 DEF Record, Statuses, Present
  <1>3. QED
    BY <1>2, RunningTTLPositive DEF PendingTTL, RunTTL

LEMMA FiledLasts ==
  ASSUME TypeOK, NEW j \in Jobs, Filed(j)
  PROVE  /\ store'[j] \in Record /\ Present(store'[j])
         /\ ttl'[j] >= RunningTTL
  <1>1. PICK r \in Reqs : target[r] = j /\ (CreateWrite(r) \/ ApiFailSet(r))
    BY DEF Filed
  <1>2. read[r] \in Record \cup {Absent}
    BY DEF TypeOK
  <1>3. /\ store'[j] \in {Fresh, Failed(read[r])}
        /\ ttl'[j] \in {RunningTTL, ResultTTL}
    BY <1>1 DEF CreateWrite, CreateTTL, ApiFailSet, Write, TypeOK
  <1>4. store'[j] \in Record
    BY <1>2, <1>3, RecordWriters
  <1>5. QED
    BY <1>3, <1>4, RunningTTLPositive DEF Record, Statuses, Present

(* A move either leaves the record of j alone or renews it.                *)
LEMMA MoveLasts ==
  ASSUME TypeOK, NEW j \in Jobs, Move(j)
  PROVE  Untouched(j) \/ (Present(store'[j]) /\ ttl'[j] >= RunningTTL)
  <1>1. Reported(j) => Present(store'[j]) /\ ttl'[j] >= RunningTTL
    BY PendingLasts DEF Reported
  <1>2. Filed(j) => Present(store'[j]) /\ ttl'[j] >= RunningTTL
    BY FiledLasts
  <1>3. QED
    BY <1>1, <1>2 DEF Move, Starts, Skips, Reads, Marks, Leaves, Caught, Ends

LEMMA PresenceStep ==
  ASSUME TypeOK, OwnershipInv, WorkerInv, PresenceInv, [Next]_vars
  PROVE  PresenceInv'
  <1> SUFFICES ASSUME NEW j \in Jobs
               PROVE  Present(store'[j]) <=> ttl'[j] > 0
    BY DEF PresenceInv, Present
  <1>1. ttl[j] \in Nat
    BY RunningTTLPositive DEF TypeOK
  <1>2. CASE UNCHANGED vars
    BY <1>2 DEF PresenceInv, Present, vars, storeVars
  <1>3. CASE Tick
    <2>1. /\ ttl'[j] = IF ttl[j] > 0 THEN ttl[j] - 1 ELSE 0
          /\ store'[j] = IF ttl[j] > 1 THEN store[j] ELSE Absent
      BY <1>3 DEF Tick
    <2>2. ~Present(Absent)
      BY DEF Present, Absent
    <2>3. QED
      BY <1>1, <2>1, <2>2 DEF PresenceInv
  <1>4. CASE Next /\ ~Tick
    <2>1. Untouched(j) \/ (Present(store'[j]) /\ ttl'[j] >= RunningTTL)
      BY <1>4, EveryMove, MoveLasts
    <2>2. ttl'[j] >= RunningTTL => ttl'[j] > 0
      <3>1. ttl' \in [Jobs -> 0 .. ResultTTL]
        BY <1>4, TypeStep DEF TypeOK
      <3>2. QED
        BY <3>1, RunningTTLPositive
    <2>3. QED
      BY <2>1, <2>2 DEF PresenceInv, Untouched
  <1>5. QED
    BY <1>2, <1>3, <1>4

LEMMA WaitStep ==
  ASSUME TypeOK, TypeOK', OwnershipInv, WorkerInv, WaitInv, [Next]_vars
  PROVE  WaitInv'
  <1> DEFINE Waits(r) ==
               /\ pc[r] \in {"written", "created"} => ttl[target[r]] >= RunningTTL
               /\ pc[r] = "poll" => ttl[target[r]] + waited[r] >= RunningTTL
               /\ pc[r] # "poll" => waited[r] = 0
  <1> SUFFICES ASSUME NEW s \in Reqs PROVE Waits(s)'
    BY DEF WaitInv
  <1>1. /\ pc[s] \in {"written", "created", "poll"} => target[s] \in Jobs
        /\ pc[s] = "admitted" => target[s] \in Jobs
        /\ waited[s] \in Nat /\ Waits(s)
    <2>1. Owning(s) => target[s] \in Jobs
      BY OwnedJob
    <2>2. pc[s] = "poll" => target[s] \in Jobs
      BY DEF OwnershipInv, TypeOK
    <2>3. waited[s] \in Nat
      BY RunningTTLPositive DEF TypeOK
    <2>4. QED
      BY <2>1, <2>2, <2>3 DEF Owning, WaitInv
  <1>2. ttl \in [Jobs -> Nat] /\ ttl' \in [Jobs -> Nat]
    BY RunningTTLPositive DEF TypeOK
  <1>3. CASE UNCHANGED vars
    BY <1>1, <1>3 DEF vars, storeVars, reqVars
  <1>4. CASE Tick
    <2>1. pc' = pc /\ target' = target
      BY <1>4 DEF Tick
    <2>2. waited'[s] = IF pc[s] = "poll" THEN waited[s] + 1 ELSE 0
      BY <1>4 DEF Tick
    <2>3. pc[s] \in {"idle", "poll"}
      BY <1>4 DEF Tick
    <2>4. \A j \in Jobs : ttl'[j] = IF ttl[j] > 0 THEN ttl[j] - 1 ELSE 0
      BY <1>4 DEF Tick
    <2>5. ASSUME pc[s] = "poll"
          PROVE  waited[s] <= SyncTimeout /\ ttl[target[s]] > 0
      <3>1. waited[s] \in 0 .. SyncTimeout
        BY DEF TypeOK
      <3>2. ttl[target[s]] \in Nat /\ ttl[target[s]] + waited[s] >= RunningTTL
        BY <1>1, <1>2, <2>5
      <3>3. QED
        BY <3>1, <3>2, RunningTTLPositive
    <2>6. QED
      BY <1>1, <1>2, <2>1, <2>2, <2>3, <2>4, <2>5
  <1>5. CASE Next /\ ~Tick
    <2>1. ASSUME NEW j \in Jobs
          PROVE  ttl'[j] = ttl[j] \/ ttl'[j] >= RunningTTL
      BY <1>5, <2>1, EveryMove, MoveLasts DEF Untouched
    <2>2. CASE Background
      <3>1. pc' = pc /\ target' = target
        BY <2>2, BackgroundFrame
      <3>2. waited' = waited
        BY <1>5, <2>2 DEF Background, Coroutine, StartRun, Abandon, MarkRunningGet,
           MarkRunningSet, BodyReturns, BodyRaises, MarkCompletedGet, MarkCompletedSet,
           MarkFailedGet, MarkFailedSet, Timeout, LockExpires, RedisError, Shutdown,
           Stopped, Crash, Restart, reqVars
      <3>3. QED
        BY <1>1, <1>2, <2>1, <3>1, <3>2, RunningTTLPositive
    <2>3. CASE Request
      <3>1. PICK r \in Reqs : Admit(r) \/ Handler(r)
        BY <2>3 DEF Request
      <3>2. CASE s # r
        <4>1. pc'[s] = pc[s] /\ target'[s] = target[s] /\ waited'[s] = waited[s]
          BY <3>1, <3>2 DEF Handler, Admit, CreateWrite, CreateIndex, EnqueueOk,
             EnqueueFails, ApiFailGet, ApiFailSet, PollEnds, RequestDies, Reply, Goto,
             TypeOK
        <4>2. QED
          BY <1>1, <1>2, <2>1, <4>1, RunningTTLPositive
      <3>3. CASE s = r
        <4>1. CASE Reply(s)
          <5>1. pc'[s] = "idle" /\ waited'[s] = 0
            BY <4>1 DEF Reply, Goto, TypeOK
          <5>2. QED
            BY <5>1
        <4>2. CASE CreateWrite(s)
          <5>1. /\ pc[s] = "admitted" /\ pc'[s] = "written"
                /\ target' = target /\ waited' = waited
                /\ ttl'[target[s]] = RunningTTL
            BY <1>1, <4>2 DEF CreateWrite, CreateTTL, Write, Goto, TypeOK
          <5>2. QED
            BY <1>1, <5>1, RunningTTLPositive
        <4>3. CASE CreateIndex(s)
          <5>1. /\ pc[s] = "written" /\ pc'[s] = "created"
                /\ target' = target /\ waited' = waited /\ ttl' = ttl
            BY <4>3 DEF CreateIndex, Goto, TypeOK, storeVars
          <5>2. QED
            BY <1>1, <5>1
        <4>4. CASE EnqueueOk(s) /\ Goto(s, "poll") /\ UNCHANGED <<target, read, waited>>
          <5>1. /\ pc[s] = "created" /\ pc'[s] = "poll"
                /\ target' = target /\ waited' = waited /\ ttl' = ttl
            BY <4>4 DEF EnqueueOk, Goto, TypeOK, storeVars
          <5>2. QED
            BY <1>1, <1>2, <5>1, RunningTTLPositive
        <4>5. CASE Admit(s) \/ EnqueueFails(s) \/ (ApiFailGet(s) /\ ~Reply(s))
          <5>1. /\ pc[s] # "poll" /\ pc'[s] \in {"admitted", "fail_get", "fail_set"}
                /\ waited' = waited
            BY <4>5 DEF Admit, EnqueueFails, ApiFailGet, Goto, TypeOK
          <5>2. QED
            BY <1>1, <5>1
        <4>6. QED
          BY <3>1, <3>3, <4>1, <4>2, <4>3, <4>4, <4>5 DEF Handler, EnqueueOk,
             ApiFailSet, PollEnds, RequestDies
      <3>4. QED
        BY <3>2, <3>3
    <2>4. QED
      BY <1>5, <2>2, <2>3, NextSplits
  <1>6. QED
    BY <1>3, <1>4, <1>5

LEMMA BodyStep ==
  ASSUME TypeOK, TypeOK', OwnershipInv, WorkerInv, BodyInv, [Next]_vars
  PROVE  BodyInv'
  <1> SUFFICES ASSUME NEW j \in Jobs
               PROVE  /\ run'[j] \in {"none", "mark_get"} => held'[j] = Absent
                      /\ run'[j] \in {"none", "mark_get", "mark_set", "body"}
                           => cancel'[j] = "no"
                      /\ run'[j] = "body" /\ held'[j].status = "running"
                           => ttl'[j] + age'[j] >= RunningTTL
    BY DEF BodyInv
  <1>1. /\ ttl[j] \in Nat /\ ttl'[j] \in Nat /\ age[j] \in Nat /\ age'[j] \in Nat
        /\ age[j] <= JobTimeout
    BY RunningTTLPositive DEF TypeOK
  <1>2. CASE UNCHANGED vars
    BY <1>2 DEF BodyInv, vars, storeVars, runVars
  <1>3. CASE Tick
    <2>1. run' = run /\ held' = held /\ cancel' = cancel
      BY <1>3 DEF Tick
    <2>2. ttl'[j] = IF ttl[j] > 0 THEN ttl[j] - 1 ELSE 0
      BY <1>3 DEF Tick
    <2>3. run[j] = "body" => age'[j] = age[j] + 1
      BY <1>3 DEF Tick, Active, BodyInv
    <2>4. QED
      BY <1>1, <2>1, <2>2, <2>3, RunningTTLPositive DEF BodyInv
  <1>4. CASE Next /\ ~Tick
    <2>1. Move(j)
      BY <1>4, EveryMove
    <2>2. Untouched(j) \/ ttl'[j] >= RunningTTL
      BY <2>1, MoveLasts
    <2>3. CASE SameRun(j) \/ Filed(j)
      BY <1>1, <2>2, <2>3, RunningTTLPositive DEF Filed, SameRun, Untouched, BodyInv
    <2>4. CASE Marks(j)
      <3>1. ttl'[j] >= RunningTTL
        BY <2>4, PendingLasts DEF Marks, Reported
      <3>2. QED
        BY <1>1, <2>4, <3>1, RunningTTLPositive DEF Marks, BodyInv
    <2>5. CASE Skips(j)
      BY <2>5 DEF Skips, BodyInv, Absent
    <2>6. CASE Starts(j) \/ Reads(j)
      BY <2>6 DEF Starts, Reads, BodyInv
    <2>7. CASE Leaves(j) \/ Caught(j) \/ Ends(j)
      BY <2>7 DEF Leaves, Caught, Ends
    <2>8. QED
      BY <2>1, <2>3, <2>4, <2>5, <2>6, <2>7 DEF Move
  <1>5. QED
    BY <1>2, <1>3, <1>4

LEMMA ExpiryInvariant == Spec => []ExpiryInv
  <1>1. Init => ExpiryInv
    BY DEF Init, ExpiryInv, PresenceInv, WaitInv, BodyInv, Present, Absent
  <1>2. ASSUME TypeOK, TypeOK', OwnershipInv, WorkerInv, ExpiryInv, [Next]_vars
        PROVE  ExpiryInv'
    BY <1>2, PresenceStep, WaitStep, BodyStep DEF ExpiryInv
  <1>3. QED
    BY <1>1, <1>2, TypeCorrect, WorkerInvariant, PTL DEF Spec

(* A caller who waits inline for as long as wait_for_result lets it never  *)
(* finds the record gone, whatever the worker and Redis do meanwhile.      *)
THEOREM WaiterFindsItsRecord == Spec => []SyncNeverSeesGone
  <1>1. ASSUME TypeOK, OwnershipInv, ExpiryInv
        PROVE  SyncNeverSeesGone
    <2>1. SUFFICES ASSUME NEW r \in Reqs, pc[r] = "poll"
                   PROVE  Present(store[target[r]])
      BY DEF SyncNeverSeesGone
    <2>2. target[r] \in Jobs
      BY <1>1, <2>1 DEF TypeOK, OwnershipInv
    <2>3. ttl[target[r]] \in Nat /\ waited[r] \in Nat /\ waited[r] <= SyncTimeout
      BY <1>1, <2>2, RunningTTLPositive DEF TypeOK
    <2>4. ttl[target[r]] + waited[r] >= RunningTTL
      BY <1>1, <2>1 DEF ExpiryInv, WaitInv
    <2>5. ttl[target[r]] > 0
      BY <2>3, <2>4, RunningTTLPositive
    <2>6. QED
      BY <1>1, <2>2, <2>5 DEF ExpiryInv, PresenceInv
  <1>2. QED
    BY <1>1, TypeCorrect, ExpiryInvariant, PTL

(* A run that marked its job running computes a result that has a record   *)
(* to go to: job_timeout strikes before the record expires.                *)
THEOREM RunFindsItsRecord == Spec => []RunNeverOutlivesRecord
  <1>1. ASSUME TypeOK, ExpiryInv
        PROVE  RunNeverOutlivesRecord
    <2>1. SUFFICES ASSUME NEW j \in Jobs, run[j] = "body", held[j].status = "running"
                   PROVE  Present(store[j])
      BY DEF RunNeverOutlivesRecord
    <2>2. ttl[j] \in Nat /\ age[j] \in Nat /\ age[j] <= JobTimeout
      BY <1>1, RunningTTLPositive DEF TypeOK
    <2>3. ttl[j] + age[j] >= RunningTTL
      BY <1>1, <2>1 DEF ExpiryInv, BodyInv
    <2>4. ttl[j] > 0
      BY <2>2, <2>3, RunningTTLPositive
    <2>5. QED
      BY <1>1, <2>4 DEF ExpiryInv, PresenceInv
  <1>2. QED
    BY <1>1, TypeCorrect, ExpiryInvariant, PTL

-----------------------------------------------------------------------------
(* What a copy still says about its record.                                *)

(* The queue has heard of no job whose handler is still before its enqueue *)
(* call, so nobody but that handler has written the job's record.          *)
FreshInv ==
    /\ queue \subseteq 1 .. submitted
    /\ \A r \in Reqs :
        /\ pc[r] \in {"admitted", "written", "created"} => target[r] \notin queue
        /\ pc[r] \in {"written", "created"} => store[target[r]] = Fresh

(* Of an accepted job, the copy held before a SET is what the record still *)
(* says, unless the record has expired in between.                         *)
HeldInv ==
    \A j \in accepted : HasPending(j) =>
        \/ store[j] = held[j]
        \/ store[j] = Absent /\ (InFlight(held[j]) => j \in lapsed)

LEMMA QueueFrame ==
  ASSUME Background
  PROVE  queue' \subseteq queue
  BY DEF Background, Coroutine, StartRun, Abandon, MarkRunningGet, MarkRunningSet,
         BodyReturns, BodyRaises, MarkCompletedGet, MarkCompletedSet, MarkFailedGet,
         MarkFailedSet, Timeout, LockExpires, RedisError, Shutdown, Stopped, Crash,
         Restart, Tick, EndRun, arqVars

LEMMA LapsedFrame ==
  ASSUME Next, ~Tick
  PROVE  lapsed' = lapsed
  BY DEF Next, Handler, Admit, CreateWrite, CreateIndex, EnqueueOk, EnqueueFails,
         ApiFailGet, ApiFailSet, PollEnds, RequestDies, Coroutine, StartRun, Abandon,
         MarkRunningGet, MarkRunningSet, BodyReturns, BodyRaises, MarkCompletedGet,
         MarkCompletedSet, MarkFailedGet, MarkFailedSet, Timeout, LockExpires,
         RedisError, Shutdown, Stopped, Crash, Restart

(* A job the worker has no coroutine for is written by its handler or not  *)
(* at all.                                                                 *)
LEMMA UnqueuedUntouched ==
  ASSUME TypeOK, OwnershipInv, WorkerInv, Next, ~Tick, NEW j \in Jobs, j \notin queue
  PROVE  Untouched(j) \/ Filed(j)
  <1>1. run[j] = "none"
    BY DEF WorkerInv
  <1>2. Move(j)
    BY EveryMove
  <1>3. QED
    BY <1>1, <1>2 DEF Move, Starts, Skips, Reads, Marks, Leaves, Caught, Ends, Reported,
       HasPending, InTry

LEMMA FreshStep ==
  ASSUME TypeOK, OwnershipInv, WorkerInv, FreshInv, [Next]_vars
  PROVE  FreshInv'
  <1> DEFINE Unheard(r) ==
               /\ pc[r] \in {"admitted", "written", "created"} => target[r] \notin queue
               /\ pc[r] \in {"written", "created"} => store[target[r]] = Fresh
  <1>1. submitted \in Nat
    BY JobsAssumption DEF TypeOK
  <1>2. CASE UNCHANGED vars
    BY <1>2 DEF FreshInv, vars, storeVars, reqVars, apiVars, arqVars
  <1>3. CASE Background
    <2>1. pc' = pc /\ target' = target /\ submitted' = submitted /\ queue' \subseteq queue
      BY <1>3, BackgroundFrame, QueueFrame
    <2>2. ASSUME NEW r \in Reqs, pc[r] \in {"written", "created"}
          PROVE  store'[target[r]] = Fresh
      <3>1. Owning(r) /\ target[r] \in Jobs /\ target[r] \notin queue
        BY <2>2, OwnedJob DEF Owning, FreshInv
      <3>2. ~Tick
        BY <2>2 DEF Tick
      <3>3. store'[target[r]] = store[target[r]]
        <4>1. Untouched(target[r]) \/ Filed(target[r])
          BY <1>3, <3>1, <3>2, UnqueuedUntouched, NextSplits
        <4>2. ~Filed(target[r])
          <5>1. SUFFICES ASSUME NEW q \in Reqs, CreateWrite(q) \/ ApiFailSet(q)
                         PROVE  FALSE
            BY DEF Filed
          <5>2. pc'[q] # pc[q]
            BY <5>1 DEF CreateWrite, ApiFailSet, Reply, Goto, TypeOK
          <5>3. QED
            BY <2>1, <5>2
        <4>3. QED
          BY <4>1, <4>2 DEF Untouched
      <3>4. QED
        BY <2>2, <3>3 DEF FreshInv
    <2>3. QED
      BY <2>1, <2>2 DEF FreshInv
  <1>4. ASSUME NEW r \in Reqs, Admit(r) \/ Handler(r)
        PROVE  FreshInv'
    <2>1. queue' \subseteq 1 .. submitted'
      <3>1. CASE EnqueueOk(r) \/ EnqueueFails(r)
        <4>1. target[r] \in 1 .. submitted
          BY <3>1 DEF EnqueueOk, EnqueueFails, Owning, OwnershipInv
        <4>2. queue' \subseteq queue \cup {target[r]} /\ submitted' = submitted
          BY <3>1 DEF EnqueueOk, EnqueueFails, apiVars
        <4>3. QED
          BY <4>1, <4>2 DEF FreshInv
      <3>2. CASE ~(EnqueueOk(r) \/ EnqueueFails(r))
        <4>1. queue' = queue /\ submitted' \in {submitted, submitted + 1}
          BY <1>4, <3>2 DEF Handler, Admit, CreateWrite, CreateIndex, ApiFailGet,
             ApiFailSet, PollEnds, RequestDies, apiVars, arqVars
        <4>2. 1 .. submitted \subseteq 1 .. submitted'
          BY <1>1, <4>1
        <4>3. QED
          BY <4>1, <4>2 DEF FreshInv
      <3>3. QED
        BY <3>1, <3>2
    <2>2. ASSUME NEW s \in Reqs, s # r
          PROVE  Unheard(s)'
      <3>1. pc'[s] = pc[s] /\ target'[s] = target[s]
        BY <1>4, <2>2 DEF Handler, Admit, CreateWrite, CreateIndex, EnqueueOk,
           EnqueueFails, ApiFailGet, ApiFailSet, PollEnds, RequestDies, Reply, Goto,
           TypeOK
      <3>2. CASE pc[s] \notin {"admitted", "written", "created"}
        BY <3>1, <3>2
      <3>3. CASE pc[s] \in {"admitted", "written", "created"}
        <4>1. Owning(s) /\ target[s] \in Jobs
          BY <3>3, OwnedJob DEF Owning
        <4>2. Owning(r) => target[r] # target[s] /\ target[r] \in Jobs
          BY <2>2, <4>1, OwnedJob DEF OwnershipInv
        <4>3. queue' = queue \/ (Owning(r) /\ queue' \subseteq queue \cup {target[r]})
          BY <1>4 DEF Handler, Admit, CreateWrite, CreateIndex, EnqueueOk,
             EnqueueFails, ApiFailGet, ApiFailSet, PollEnds, RequestDies, arqVars, Owning
        <4>4. store'[target[s]] = store[target[s]]
          <5>1. CASE CreateWrite(r) \/ ApiFailSet(r)
            BY <4>1, <4>2, <5>1 DEF CreateWrite, ApiFailSet, Write, TypeOK, Owning
          <5>2. CASE ~(CreateWrite(r) \/ ApiFailSet(r))
            BY <1>4, <5>2 DEF Handler, Admit, CreateIndex, EnqueueOk, EnqueueFails,
               ApiFailGet, PollEnds, RequestDies, storeVars
          <5>3. QED
            BY <5>1, <5>2
        <4>5. QED
          BY <3>1, <3>3, <4>2, <4>3, <4>4 DEF FreshInv
      <3>4. QED
        BY <3>2, <3>3
    <2>3. Unheard(r)'
      <3>1. CASE Admit(r)
        <4>1. /\ pc'[r] = "admitted" /\ target'[r] = submitted + 1
              /\ queue' = queue
          BY <3>1 DEF Admit, Goto, TypeOK, arqVars
        <4>2. submitted + 1 \notin queue
          BY <1>1 DEF FreshInv
        <4>3. QED
          BY <4>1, <4>2
      <3>2. CASE CreateWrite(r)
        <4>1. target[r] \in Jobs
          BY <3>2, OwnedJob DEF CreateWrite, Owning
        <4>2. /\ pc[r] = "admitted" /\ target' = target /\ queue' = queue
              /\ store'[target[r]] = Fresh
          BY <3>2, <4>1 DEF CreateWrite, Write, TypeOK, arqVars
        <4>3. QED
          BY <4>2 DEF FreshInv
      <3>3. CASE CreateIndex(r)
        BY <3>3 DEF CreateIndex, FreshInv, storeVars, arqVars
      <3>4. CASE ~(Admit(r) \/ CreateWrite(r) \/ CreateIndex(r))
        <4>1. pc'[r] \notin {"admitted", "written", "created"}
          BY <1>4, <3>4 DEF Handler, EnqueueOk, EnqueueFails, ApiFailGet, ApiFailSet,
             PollEnds, RequestDies, Reply, Goto, TypeOK
        <4>2. QED
          BY <4>1
      <3>5. QED
        BY <3>1, <3>2, <3>3, <3>4
    <2>4. QED
      BY <2>1, <2>2, <2>3 DEF FreshInv
  <1>5. QED
    BY <1>2, <1>3, <1>4, NextSplits DEF Request

(* A job is accepted by its own handler, while its record is fresh.        *)
LEMMA AcceptedNext ==
  ASSUME TypeOK, OwnershipInv, WorkerInv, FreshInv, Next, NEW j \in accepted' \ accepted
  PROVE  /\ j \in Jobs /\ store[j] = Fresh /\ run[j] = "none"
         /\ store' = store /\ run' = run
  <1>1. Request
    BY BackgroundFrame, NextSplits
  <1>2. PICK r \in Reqs : Admit(r) \/ Handler(r)
    BY <1>1 DEF Request
  <1>3. EnqueueOk(r) /\ j = target[r]
    BY <1>2 DEF Handler, Admit, CreateWrite, CreateIndex, EnqueueOk, EnqueueFails,
       ApiFailGet, ApiFailSet, PollEnds, RequestDies, apiVars
  <1>4. j \in Jobs
    BY <1>3, OwnedJob DEF EnqueueOk, Owning
  <1>5. store[j] = Fresh /\ j \notin queue
    BY <1>3 DEF EnqueueOk, FreshInv
  <1>6. QED
    BY <1>3, <1>4, <1>5 DEF EnqueueOk, WorkerInv, storeVars, runVars

LEMMA AcceptedGrows ==
  ASSUME Next
  PROVE  accepted \subseteq accepted'
  <1>1. CASE Request
    BY <1>1 DEF Request, Handler, Admit, CreateWrite, CreateIndex, EnqueueOk,
       EnqueueFails, ApiFailGet, ApiFailSet, PollEnds, RequestDies, apiVars
  <1>2. CASE Background
    BY <1>2, BackgroundFrame
  <1>3. QED
    BY <1>1, <1>2, NextSplits

LEMMA AcceptedNotFiled ==
  ASSUME OwnershipInv, NEW j \in accepted
  PROVE  ~Filed(j)
  BY DEF OwnershipInv, Filed

LEMMA HeldStep ==
  ASSUME TypeOK, OwnershipInv, WorkerInv, PresenceInv, FreshInv, HeldInv, [Next]_vars
  PROVE  HeldInv'
  <1>1. CASE UNCHANGED vars
    BY <1>1 DEF HeldInv, HasPending, InFlight, vars, storeVars, runVars, apiVars
  <1>2. CASE Next
    <2>1. SUFFICES ASSUME NEW j \in accepted', HasPending(j)'
                   PROVE  \/ store'[j] = held'[j]
                          \/ /\ store'[j] = Absent
                             /\ InFlight(held'[j]) => j \in lapsed'
      BY DEF HeldInv, InFlight
    <2>2. j \in accepted
      BY <1>2, <2>1, AcceptedNext DEF HasPending
    <2>3. j \in Jobs
      BY <2>2 DEF TypeOK
    <2>4. CASE Tick
      <3>1. run' = run /\ held' = held
        BY <2>4 DEF Tick
      <3>2. \/ store'[j] = store[j]
            \/ store'[j] = Absent
        BY <2>3, <2>4 DEF Tick
      <3>3. /\ lapsed \subseteq lapsed'
            /\ ttl[j] = 1 /\ InFlight(store[j]) => j \in lapsed'
        BY <2>3, <2>4 DEF Tick
      <3>4. HasPending(j)
        BY <2>1, <3>1 DEF HasPending
      <3>5. \/ store[j] = held[j]
            \/ store[j] = Absent /\ (InFlight(held[j]) => j \in lapsed)
        BY <2>2, <3>4 DEF HeldInv
      <3>6. CASE ttl[j] = 1
        BY <3>1, <3>2, <3>3, <3>5, <3>6
      <3>7. CASE ttl[j] > 1
        <4>1. store'[j] = store[j]
          BY <2>3, <2>4, <3>7 DEF Tick
        <4>2. QED
          BY <3>1, <3>3, <3>5, <4>1
      <3>8. CASE ttl[j] = 0
        <4>1. store'[j] = Absent
          BY <2>3, <2>4, <3>8 DEF Tick
        <4>2. ~Present(store[j]) /\ store[j] \in Record \cup {Absent}
          BY <2>3, <3>8 DEF PresenceInv, TypeOK
        <4>3. store[j] = Absent
          BY <4>2 DEF Present, Record, Statuses
        <4>4. QED
          BY <3>1, <3>3, <3>5, <4>1, <4>3
      <3>9. ttl[j] \in Nat
        BY <2>3, RunningTTLPositive DEF TypeOK
      <3>10. QED
        BY <3>6, <3>7, <3>8, <3>9
    <2>5. CASE ~Tick
      <3>1. lapsed' = lapsed /\ Move(j) /\ ~Filed(j)
        BY <1>2, <2>2, <2>3, <2>5, LapsedFrame, EveryMove, AcceptedNotFiled
      <3>2. CASE SameRun(j) /\ Untouched(j)
        BY <2>1, <2>2, <3>1, <3>2 DEF SameRun, Untouched, HeldInv, HasPending
      <3>3. CASE Reads(j)
        BY <3>3 DEF Reads, Untouched
      <3>4. CASE Starts(j) \/ Skips(j) \/ Marks(j) \/ Leaves(j) \/ Caught(j) \/ Ends(j)
        BY <2>1, <3>4 DEF Starts, Skips, Marks, Leaves, Caught, Ends, HasPending
      <3>5. QED
        BY <3>1, <3>2, <3>3, <3>4 DEF Move
    <2>6. QED
      BY <2>4, <2>5
  <1>3. QED
    BY <1>1, <1>2

LEMMA RecordInvariant == Spec => [](ExpiryInv /\ CopiesInv /\ FreshInv /\ HeldInv)
  <1>1. Init => CopiesInv /\ FreshInv /\ HeldInv
    BY DEF Init, CopiesInv, FreshInv, HeldInv, Consistent, InFlight, Absent
  <1>2. ASSUME TypeOK, OwnershipInv, WorkerInv, ExpiryInv, CopiesInv, FreshInv, HeldInv,
               [Next]_vars
        PROVE  CopiesInv' /\ FreshInv' /\ HeldInv'
    BY <1>2, CopiesStep, FreshStep, HeldStep DEF ExpiryInv
  <1>3. QED
    BY <1>1, <1>2, TypeCorrect, WorkerInvariant, ExpiryInvariant, PTL DEF Spec

-----------------------------------------------------------------------------
(* The refinement of JobContract.                                          *)

Kept(j) == j \in accepted /\ store[j].result

(* What a step may do to what a poll of j shows.                           *)
PromisedMove(j) ==
    \/ Phase(j) = "unborn" /\ Phase(j)' = "inflight" /\ ~Kept(j)'
    \/ Phase(j) = "inflight" /\ Phase(j)' = "answered"
    \/ Phase(j) = "answered" /\ Phase(j)' = "answered" /\ (Kept(j) => Kept(j)')
    \/ Phase(j) \in {"inflight", "answered"} /\ Phase(j)' = "gone" /\ ~Kept(j)'
    \/ Phase(j) = "gone" /\ Phase(j)' = "inflight" /\ ~Kept(j)'
    \/ Phase(j) = "gone" /\ Phase(j)' = "answered"
    \/ Phase(j)' = Phase(j) /\ Kept(j)' = Kept(j)

(* A record is in flight, a verdict or gone; only a verdict has a result.  *)
LEMMA RecordKinds ==
  ASSUME NEW rec \in Record \cup {Absent}, Consistent(rec)
  PROVE  /\ \/ InFlight(rec) /\ ~Terminal(rec) /\ Present(rec) /\ ~rec.result
            \/ ~InFlight(rec) /\ Terminal(rec) /\ Present(rec)
            \/ ~InFlight(rec) /\ ~Terminal(rec) /\ ~Present(rec) /\ ~rec.result
         /\ rec.result \in BOOLEAN
         /\ ~Present(rec) <=> rec = Absent
         /\ Terminal(Completed(rec)) /\ Completed(rec).result
         /\ Terminal(Failed(rec)) /\ Failed(rec).result = rec.result
         /\ InFlight(Running(rec)) /\ Running(rec).result = rec.result
  <1> USE DEF Consistent, InFlight, Terminal, Present, Statuses, Completed, Failed, Running
  <1>1. CASE rec \in Record
    <2>1. rec # Absent
      BY <1>1 DEF Record, Absent
    <2>2. QED
      BY <1>1, <2>1 DEF Record
  <1>2. CASE rec = Absent
    BY <1>2 DEF Absent
  <1>3. QED
    BY <1>1, <1>2

LEMMA PhaseCases ==
  ASSUME NEW j \in accepted
  PROVE  /\ InFlight(store[j]) => Phase(j) = "inflight"
         /\ Terminal(store[j]) => Phase(j) = "answered"
         /\ ~Present(store[j]) => Phase(j) = "gone"
  BY DEF Phase, InFlight, Terminal, Present

LEMMA PhaseMove ==
  ASSUME TypeOK, TypeOK', OwnershipInv, WorkerInv, CopiesInv, CopiesInv', FreshInv,
         HeldInv, Next, NEW j \in Jobs
  PROVE  PromisedMove(j)
  <1>1. /\ store[j] \in Record \cup {Absent} /\ Consistent(store[j])
        /\ held[j] \in Record \cup {Absent} /\ Consistent(held[j])
    BY DEF TypeOK, CopiesInv
  <1>2. CASE j \notin accepted'
    <2>1. j \notin accepted
      BY <1>2, AcceptedGrows
    <2>2. QED
      BY <1>2, <2>1 DEF PromisedMove, Phase, Kept
  <1>3. CASE j \in accepted' \ accepted
    <2>1. store[j] = Fresh /\ store' = store
      BY <1>3, AcceptedNext
    <2>2. InFlight(store'[j]) /\ ~store'[j].result
      BY <2>1 DEF Fresh, InFlight
    <2>3. Phase(j) = "unborn"
      BY <1>3 DEF Phase
    <2>4. Phase(j)' = "inflight"
      BY <1>3, <2>2 DEF Phase, InFlight, Terminal, Present
    <2>5. ~Kept(j)'
      BY <2>2 DEF Kept
    <2>6. QED
      BY <2>3, <2>4, <2>5 DEF PromisedMove
  <1>4. CASE j \in accepted
    <2>1. j \in accepted'
      BY <1>4, AcceptedGrows
    <2>2. /\ InFlight(store[j]) => Phase(j) = "inflight"
          /\ Terminal(store[j]) => Phase(j) = "answered"
          /\ ~Present(store[j]) => Phase(j) = "gone"
          /\ Kept(j) = store[j].result
      BY <1>1, <1>4, PhaseCases, RecordKinds DEF Kept
    <2>3. /\ InFlight(store'[j]) => Phase(j)' = "inflight"
          /\ Terminal(store'[j]) => Phase(j)' = "answered"
          /\ ~Present(store'[j]) => Phase(j)' = "gone"
          /\ Kept(j)' <=> store'[j].result
      BY <2>1 DEF Phase, Kept, InFlight, Terminal, Present
    <2>4. CASE store'[j] = store[j]
      <3>1. Phase(j)' = Phase(j)
        BY <1>1, <2>2, <2>3, <2>4, RecordKinds
      <3>2. Kept(j)' = Kept(j)
        BY <1>4, <2>1, <2>4 DEF Kept
      <3>3. QED
        BY <3>1, <3>2 DEF PromisedMove
    <2>5. CASE store'[j] = Absent
      <3>1. ~Present(Absent) /\ ~Absent.result
        BY DEF Present, Absent
      <3>2. CASE Present(store[j])
        BY <1>1, <2>2, <2>3, <2>5, <3>1, <3>2, RecordKinds DEF PromisedMove
      <3>3. CASE ~Present(store[j])
        <4>1. store'[j] = store[j]
          BY <1>1, <2>5, <3>3, RecordKinds
        <4>2. QED
          BY <2>4, <4>1
      <3>4. QED
        BY <3>2, <3>3
    <2>6. CASE Reported(j)
      <3>1. HasPending(j) /\ store'[j] = Pending(j)
        BY <2>6 DEF Reported
      <3>2. store[j] = held[j] \/ store[j] = Absent
        BY <1>4, <3>1 DEF HeldInv
      <3>3. CASE run[j] = "mark_set"
        <4>1. store'[j] = Running(held[j]) /\ held[j].status = "queued"
          BY <3>1, <3>3 DEF Pending, CopiesInv
        <4>2. InFlight(held[j])
          BY <4>1 DEF InFlight
        <4>3. InFlight(store'[j]) /\ ~store'[j].result
          BY <1>1, <4>1, <4>2, RecordKinds
        <4>4. CASE store[j] = held[j]
          <5>1. Kept(j) = FALSE /\ Kept(j)' = FALSE
            BY <1>1, <2>2, <2>3, <4>2, <4>3, <4>4, RecordKinds DEF Kept
          <5>2. QED
            BY <2>2, <2>3, <4>2, <4>3, <4>4, <5>1 DEF PromisedMove
        <4>5. CASE store[j] = Absent
          BY <1>1, <2>2, <2>3, <4>3, <4>5, RecordKinds DEF PromisedMove
        <4>6. QED
          BY <3>2, <4>4, <4>5
      <3>4. CASE run[j] = "done_set"
        <4>1. store'[j] = Completed(held[j])
          BY <3>1, <3>4 DEF Pending
        <4>2. Terminal(store'[j]) /\ store'[j].result
          BY <1>1, <4>1, RecordKinds
        <4>3. QED
          BY <1>1, <2>2, <2>3, <4>2, RecordKinds DEF PromisedMove
      <3>5. CASE run[j] = "fail_set"
        <4>1. store'[j] = Failed(held[j])
          BY <3>1, <3>5 DEF Pending
        <4>2. Terminal(store'[j]) /\ store'[j].result = held[j].result
          BY <1>1, <4>1, RecordKinds
        <4>3. store[j].result => held[j].result
          BY <3>2 DEF Absent
        <4>4. QED
          BY <1>1, <2>2, <2>3, <4>2, <4>3, RecordKinds DEF PromisedMove
      <3>6. QED
        BY <3>1, <3>3, <3>4, <3>5 DEF HasPending
    <2>7. QED
      <3>1. CASE Tick
        BY <2>4, <2>5, <3>1 DEF Tick
      <3>2. CASE ~Tick
        <4>1. Move(j) /\ ~Filed(j)
          BY <1>4, <3>2, EveryMove, AcceptedNotFiled
        <4>2. Untouched(j) \/ Reported(j)
          BY <4>1 DEF Move, Starts, Skips, Reads, Marks, Leaves, Caught, Ends
        <4>3. QED
          BY <2>4, <2>6, <4>2 DEF Untouched
      <3>3. QED
        BY <3>1, <3>2
  <1>5. QED
    BY <1>2, <1>3, <1>4

(* The service keeps JobContract's promise to the callers of a job it has  *)
(* accepted: a verdict is never taken back to queued or running, a result  *)
(* once shown is not lost while the record lives, and what expired comes   *)
(* back only as a report that was under way.  (That a job does leave its   *)
(* flight, the contract's liveness, is TLC's to check.)                    *)
THEOREM JobsKeepTheContract == Spec => Contract!Safety
  <1>1. Init => Contract!Init
    BY DEF Init, Contract!Init, Phase
  <1>2. ASSUME TypeOK, TypeOK', OwnershipInv, WorkerInv, CopiesInv, CopiesInv',
               FreshInv, HeldInv, [Next]_vars
        PROVE  [Contract!Next]_(Contract!vars)
    <2>1. CASE UNCHANGED vars
      BY <2>1 DEF Contract!vars, Phase, InFlight, Terminal, Present, vars, storeVars,
         apiVars
    <2>2. CASE Next
      <3>1. SUFFICES ASSUME NEW j \in Jobs
                     PROVE  Contract!Step(j)
        BY DEF Contract!Next
      <3>2. PromisedMove(j)
        BY <1>2, <2>2, PhaseMove
      <3>3. QED
        BY <3>2 DEF PromisedMove, Kept, Contract!Step, Contract!Accept, Contract!Answer,
           Contract!Revise, Contract!Forget, Contract!Resurface, Contract!Idle
    <2>3. QED
      BY <1>2, <2>1, <2>2
  <1>3. QED
    BY <1>1, <1>2, TypeCorrect, WorkerInvariant, RecordInvariant, PTL
       DEF Spec, Contract!Safety

-----------------------------------------------------------------------------
(* The overrun of the tier's cap.                                          *)

(* The newest n entries of a listing, counted from its end.                *)
LEMMA NewestElements ==
  ASSUME NEW S, NEW s \in Seq(S), NEW n \in Nat
  PROVE  /\ Newest(s, n) \in Seq(S)
         /\ Len(Newest(s, n)) = IF Len(s) > n THEN n ELSE Len(s)
         /\ \A i \in 1 .. Len(Newest(s, n)) :
               Newest(s, n)[i] = s[Len(s) - Len(Newest(s, n)) + i]
  <1>1. Len(s) \in Nat /\ \A i \in 1 .. Len(s) : s[i] \in S
    BY LenProperties, ElementOfSeq
  <1> DEFINE m == IF Len(s) > n THEN Len(s) - n + 1 ELSE 1
  <1>2. m \in Int /\ Len(s) \in Int /\ m .. Len(s) \subseteq 1 .. Len(s)
    BY <1>1
  <1>3. /\ SubSeq(s, m, Len(s)) \in Seq(S)
        /\ Len(SubSeq(s, m, Len(s))) = IF m <= Len(s) THEN Len(s) - m + 1 ELSE 0
        /\ \A i \in 1 .. Len(s) - m + 1 : SubSeq(s, m, Len(s))[i] = s[m + i - 1]
    BY <1>1, <1>2, SubSeqProperties
  <1>4. Newest(s, n) = SubSeq(s, m, Len(s))
    BY DEF Newest
  <1>5. Len(Newest(s, n)) = IF Len(s) > n THEN n ELSE Len(s)
    <2>1. Len(Newest(s, n)) = IF m <= Len(s) THEN Len(s) - m + 1 ELSE 0
      BY <1>3, <1>4
    <2>2. CASE Len(s) > n
      <3>1. m = Len(s) - n + 1
        BY <2>2
      <3>2. QED
        BY <1>1, <2>1, <2>2, <3>1
    <2>3. CASE ~(Len(s) > n)
      <3>1. m = 1
        BY <2>3
      <3>2. QED
        BY <1>1, <2>1, <2>3, <3>1
    <2>4. QED
      BY <2>2, <2>3
  <1>6. Len(s) - m + 1 = Len(Newest(s, n))
    BY <1>1, <1>5
  <1>7. ASSUME NEW i \in 1 .. Len(Newest(s, n))
        PROVE  Newest(s, n)[i] = s[Len(s) - Len(Newest(s, n)) + i]
    <2>1. Newest(s, n)[i] = s[m + i - 1]
      BY <1>3, <1>4, <1>6
    <2>2. m + i - 1 = Len(s) - Len(Newest(s, n)) + i
      BY <1>1, <1>6
    <2>3. QED
      BY <2>1, <2>2
  <1>8. QED
    BY <1>3, <1>4, <1>5, <1>7

Elements(s) == {s[i] : i \in 1 .. Len(s)}

(* A job appended to a listing that is trimmed to at least n enters the    *)
(* newest n and lets no older job into them.                               *)
LEMMA NewestAfterAppend ==
  ASSUME NEW S, NEW s \in Seq(S), NEW e \in S, NEW n \in Nat, NEW h \in Nat, n <= h
  PROVE  Elements(Newest(Newest(Append(s, e), h), n))
            \subseteq Elements(Newest(s, n)) \cup {e}
  <1> DEFINE a == Append(s, e)
             t == Newest(a, h)
             u == Newest(t, n)
             v == Newest(s, n)
  <1> HIDE DEF a, t, u, v
  <1>1. /\ a \in Seq(S) /\ Len(a) = Len(s) + 1 /\ Len(s) \in Nat
        /\ \A k \in 1 .. Len(s) : a[k] = s[k]
        /\ a[Len(s) + 1] = e
    BY AppendProperties, LenProperties DEF a
  <1>2. /\ t \in Seq(S)
        /\ Len(t) = IF Len(a) > h THEN h ELSE Len(a)
        /\ \A k \in 1 .. Len(t) : t[k] = a[Len(a) - Len(t) + k]
    BY <1>1, NewestElements DEF t
  <1>3. /\ Len(u) = IF Len(t) > n THEN n ELSE Len(t)
        /\ \A k \in 1 .. Len(u) : u[k] = t[Len(t) - Len(u) + k]
    BY <1>2, NewestElements DEF u
  <1>4. /\ Len(v) = IF Len(s) > n THEN n ELSE Len(s)
        /\ \A k \in 1 .. Len(v) : v[k] = s[Len(s) - Len(v) + k]
    BY NewestElements DEF v
  <1>5. /\ Len(s) \in Nat /\ Len(t) \in Nat /\ Len(u) \in Nat /\ Len(v) \in Nat
        /\ Len(t) = IF Len(s) + 1 > h THEN h ELSE Len(s) + 1
        /\ Len(u) = IF Len(t) > n THEN n ELSE Len(t)
        /\ Len(v) = IF Len(s) > n THEN n ELSE Len(s)
    BY <1>1, <1>2, <1>3, <1>4
  <1>0. SUFFICES Elements(u) \subseteq Elements(v) \cup {e}
    BY DEF a, t, u, v
  <1>6. SUFFICES ASSUME NEW i \in 1 .. Len(u)
                 PROVE  u[i] = e \/ \E k \in 1 .. Len(v) : u[i] = v[k]
    BY DEF Elements
  <1>7. /\ Len(t) - Len(u) + i \in 1 .. Len(t)
        /\ (Len(s) + 1) - Len(t) + (Len(t) - Len(u) + i) = Len(s) + 1 - Len(u) + i
        /\ i = Len(u) => Len(s) + 1 - Len(u) + i = Len(s) + 1
        /\ i # Len(u) =>
              /\ 1 + i + Len(v) - Len(u) \in 1 .. Len(v)
              /\ Len(s) + 1 - Len(u) + i = Len(s) - Len(v) + (1 + i + Len(v) - Len(u))
              /\ Len(s) + 1 - Len(u) + i \in 1 .. Len(s)
    <2>1. i \in Int /\ 1 <= i /\ i <= Len(u)
      BY <1>5, <1>6
    <2>2. Len(u) <= Len(t) /\ Len(t) <= Len(s) + 1 /\ Len(v) <= Len(s)
      BY <1>5
    <2>3. Len(v) = Len(u) \/ Len(v) = Len(u) - 1
      BY <1>5
    <2>4. Len(s) \in Int /\ Len(t) \in Int /\ Len(u) \in Int /\ Len(v) \in Int
      BY <1>5
    <2>5. Len(t) - Len(u) + i \in 1 .. Len(t)
      BY <2>1, <2>2, <2>4
    <2>6. /\ (Len(s) + 1) - Len(t) + (Len(t) - Len(u) + i) = Len(s) + 1 - Len(u) + i
          /\ i = Len(u) => Len(s) + 1 - Len(u) + i = Len(s) + 1
      BY <2>1, <2>4
    <2>7. ASSUME i # Len(u)
          PROVE  /\ 1 + i + Len(v) - Len(u) \in 1 .. Len(v)
                 /\ Len(s) + 1 - Len(u) + i = Len(s) - Len(v) + (1 + i + Len(v) - Len(u))
                 /\ Len(s) + 1 - Len(u) + i \in 1 .. Len(s)
      <3>1. i + 1 <= Len(u)
        BY <2>1, <2>4, <2>7
      <3>2. QED
        BY <2>1, <2>2, <2>3, <2>4, <3>1
    <2>8. QED
      BY <2>5, <2>6, <2>7
  <1>8. u[i] = a[Len(s) + 1 - Len(u) + i]
    <2>1. u[i] = t[Len(t) - Len(u) + i]
      BY <1>3, <1>6
    <2>2. t[Len(t) - Len(u) + i] = a[Len(a) - Len(t) + (Len(t) - Len(u) + i)]
      BY <1>2, <1>7
    <2>3. Len(a) - Len(t) + (Len(t) - Len(u) + i) = Len(s) + 1 - Len(u) + i
      BY <1>1, <1>7
    <2>4. QED
      BY <2>1, <2>2, <2>3
  <1>9. CASE i = Len(u)
    BY <1>1, <1>7, <1>8, <1>9
  <1>10. CASE i # Len(u)
    <2> DEFINE k == 1 + i + Len(v) - Len(u)
    <2>1. k \in 1 .. Len(v) /\ Len(s) + 1 - Len(u) + i = Len(s) - Len(v) + k
      BY <1>7, <1>10
    <2> HIDE DEF k
    <2>2. u[i] = v[k]
      BY <1>1, <1>4, <1>7, <1>8, <1>10, <2>1
    <2>3. QED
      BY <2>1, <2>2
  <1>11. QED
    BY <1>9, <1>10

(* The jobs the bound counts: accepted ones among the listed ones whose    *)
(* record shows them in flight and has done so without a gap.              *)
Counted == (ListedInFlight \cap accepted) \ lapsed

LEMMA ListedNext ==
  ASSUME TypeOK, OwnershipInv, Next
  PROVE  Listed' \cap accepted \subseteq Listed
  <1>1. CASE UNCHANGED index
    BY <1>1 DEF Listed
  <1>2. ASSUME NEW r \in Reqs, CreateIndex(r)
        PROVE  Listed' \cap accepted \subseteq Listed
    <2>1. target[r] \in Jobs /\ target[r] \notin accepted
      BY <1>2, OwnedJob DEF CreateIndex, Owning, OwnershipInv
    <2>2. index' = Newest(Append(index, target[r]), HistoryCap) /\ index \in Seq(Jobs)
      BY <1>2 DEF CreateIndex, TypeOK
    <2>3. Cap + ListSlack \in Nat /\ HistoryCap \in Nat /\ Cap + ListSlack <= HistoryCap
      BY JobsAssumption
    <2>4. /\ Listed = Elements(Newest(index, Cap + ListSlack))
          /\ Listed' = Elements(Newest(index', Cap + ListSlack))
      BY Zenon DEF Listed, Elements
    <2>5. Elements(Newest(Newest(Append(index, target[r]), HistoryCap), Cap + ListSlack))
            \subseteq Elements(Newest(index, Cap + ListSlack)) \cup {target[r]}
      BY <2>1, <2>2, <2>3, NewestAfterAppend
    <2>6. Listed' \subseteq Listed \cup {target[r]}
      BY <2>2, <2>4, <2>5
    <2>7. QED
      BY <2>1, <2>6
  <1>3. QED
    BY <1>1, <1>2, NextSplits, BackgroundFrame DEF Request, Handler, Admit, CreateWrite,
       EnqueueOk, EnqueueFails, ApiFailGet, ApiFailSet, PollEnds, RequestDies, apiVars

(* Only an acceptance adds to the count: an expired record that a late SET *)
(* of mark_running brings back has lapsed.                                 *)
LEMMA CountedNext ==
  ASSUME TypeOK, OwnershipInv, WorkerInv, CopiesInv, HeldInv, Next
  PROVE  Counted' \subseteq Counted \cup (accepted' \ accepted)
  <1>1. SUFFICES ASSUME NEW j \in Counted', j \in accepted
                 PROVE  j \in Counted
    BY DEF Counted
  <1>2. j \in Jobs /\ j \in Listed' /\ InFlight(store'[j]) /\ j \notin lapsed'
    BY <1>1 DEF Counted, ListedInFlight, InFlight, TypeOK
  <1>3. j \in Listed
    BY <1>1, <1>2, ListedNext
  <1>4. lapsed \subseteq lapsed'
    BY LapsedFrame DEF Tick
  <1>5. InFlight(store[j])
    <2>1. CASE Tick
      <3>1. ~InFlight(Absent)
        BY DEF InFlight, Absent
      <3>2. QED
        BY <1>2, <2>1, <3>1 DEF Tick
    <2>2. CASE ~Tick
      <3>1. Move(j) /\ ~Filed(j)
        BY <1>1, <1>2, <2>2, EveryMove, AcceptedNotFiled
      <3>2. Untouched(j) \/ Reported(j)
        BY <3>1 DEF Move, Starts, Skips, Reads, Marks, Leaves, Caught, Ends
      <3>3. CASE Reported(j)
        <4>1. held[j] \in Record \cup {Absent} /\ Consistent(held[j])
          BY <1>2 DEF TypeOK, CopiesInv
        <4>2. ~InFlight(Completed(held[j])) /\ ~InFlight(Failed(held[j]))
          BY <4>1, RecordKinds DEF InFlight, Terminal
        <4>3. run[j] = "mark_set"
          BY <1>2, <3>3, <4>2 DEF Reported, HasPending, Pending
        <4>4. InFlight(held[j])
          BY <1>2, <4>3 DEF CopiesInv, InFlight
        <4>5. store[j] = held[j] \/ j \in lapsed
          BY <1>1, <3>3, <4>4 DEF HeldInv, Reported
        <4>6. QED
          BY <1>2, <1>4, <4>4, <4>5
      <3>4. QED
        BY <1>2, <3>2, <3>3 DEF Untouched
    <2>3. QED
      BY <2>1, <2>2
  <1>6. QED
    BY <1>1, <1>2, <1>3, <1>4, <1>5 DEF Counted, ListedInFlight

LEMMA CountsAreFinite ==
  ASSUME TypeOK
  PROVE  /\ IsFiniteSet(ListedInFlight) /\ IsFiniteSet(Counted) /\ IsFiniteSet(Admitted)
         /\ IsFiniteSet(Jobs) /\ IsFiniteSet(Reqs)
         /\ Cardinality(ListedInFlight) \in Nat /\ Cardinality(Counted) \in Nat
         /\ Cardinality(Counted) <= Cardinality(ListedInFlight)
         /\ Cardinality(Admitted) \in Nat /\ Cardinality(Reqs) \in Nat
         /\ Cardinality(Admitted) <= Cardinality(Reqs)
  <1>1. IsFiniteSet(Jobs) /\ IsFiniteSet(Reqs)
    BY JobsAssumption, FS_Interval DEF Jobs
  <1>2. Counted \subseteq Jobs
    BY DEF Counted, TypeOK
  <1>3. IsFiniteSet(ListedInFlight)
    <2>1. index \in Seq(Jobs) /\ Cap + ListSlack \in Nat
      BY JobsAssumption DEF TypeOK
    <2>2. Newest(index, Cap + ListSlack) \in Seq(Jobs)
      BY <2>1, NewestType
    <2>3. ListedInFlight \subseteq Jobs
      BY <2>2, ElementOfSeq DEF ListedInFlight, Listed
    <2>4. QED
      BY <1>1, <2>3, FS_Subset
  <1>4. Counted \subseteq ListedInFlight /\ Admitted \subseteq Reqs
    BY DEF Counted, Admitted
  <1>5. /\ IsFiniteSet(Counted) /\ Cardinality(Counted) <= Cardinality(ListedInFlight)
        /\ IsFiniteSet(Admitted) /\ Cardinality(Admitted) <= Cardinality(Reqs)
    BY <1>1, <1>3, <1>4, FS_Subset
  <1>6. QED
    BY <1>1, <1>3, <1>5, FS_CardinalityType

LEMMA BudgetStep ==
  ASSUME TypeOK, TypeOK', OwnershipInv, WorkerInv, CopiesInv, FreshInv, HeldInv,
         BudgetOverrunBounded, [Next]_vars
  PROVE  BudgetOverrunBounded'
  <1> DEFINE bound == Cap + Cardinality(Reqs)
  <1>1. /\ Cardinality(Counted) \in Nat /\ Cardinality(Counted') \in Nat
        /\ Cardinality(Admitted) \in Nat /\ Cardinality(Admitted') \in Nat
        /\ Cardinality(Reqs) \in Nat /\ Cap \in Nat
        /\ Cardinality(Admitted') <= Cardinality(Reqs)
        /\ IsFiniteSet(Counted) /\ IsFiniteSet(Admitted)
    <2>1. Counted' \subseteq Jobs /\ Admitted' \subseteq Reqs
      BY DEF Counted, Admitted, TypeOK
    <2>2. IsFiniteSet(Jobs) /\ IsFiniteSet(Reqs)
      BY CountsAreFinite
    <2>3. IsFiniteSet(Counted') /\ IsFiniteSet(Admitted')
          /\ Cardinality(Admitted') <= Cardinality(Reqs)
      BY <2>1, <2>2, FS_Subset
    <2>4. Cardinality(Counted') \in Nat /\ Cardinality(Admitted') \in Nat
      BY <2>3, FS_CardinalityType
    <2>5. QED
      BY <2>3, <2>4, CountsAreFinite, JobsAssumption
  <1>2. Cardinality(Counted) + Cardinality(Admitted) < bound
    BY DEF BudgetOverrunBounded, Counted
  <1>3. SUFFICES Cardinality(Counted') + Cardinality(Admitted') < bound
    BY DEF BudgetOverrunBounded, Counted
  <1>4. CASE UNCHANGED vars
    <2>1. Counted' = Counted /\ Admitted' = Admitted
      BY <1>4 DEF Counted, ListedInFlight, Listed, InFlight, Admitted, vars, storeVars,
         reqVars, apiVars
    <2>2. QED
      BY <1>2, <2>1
  <1>5. ASSUME NEW r \in Reqs, Admit(r)
        PROVE  Cardinality(Counted') + Cardinality(Admitted') < bound
    <2>1. /\ accepted' = accepted /\ Next
      BY <1>5 DEF Admit, Next
    <2>2. Counted' \subseteq Counted
      BY <2>1, CountedNext
    <2>3. Cardinality(Counted') <= Cardinality(Counted)
      BY <1>1, <2>2, FS_Subset
    <2>4. Cardinality(Counted) < Cap
      <3>1. Cardinality(ListedInFlight) < Cap
        BY <1>5 DEF Admit, Admits
      <3>2. Cardinality(Counted) <= Cardinality(ListedInFlight) /\ Cardinality(ListedInFlight) \in Nat
        BY CountsAreFinite
      <3>3. QED
        BY <1>1, <3>1, <3>2
    <2>5. QED
      BY <1>1, <2>3, <2>4
  <1>6. ASSUME NEW r \in Reqs, EnqueueOk(r)
        PROVE  Cardinality(Counted') + Cardinality(Admitted') < bound
    <2>1. Next /\ accepted' = accepted \cup {target[r]}
      BY <1>6 DEF EnqueueOk, Handler, Next
    <2>2. Counted' \subseteq Counted \cup {target[r]}
      BY <2>1, CountedNext
    <2>3. Cardinality(Counted') <= Cardinality(Counted) + 1
      <3>1. /\ IsFiniteSet(Counted \cup {target[r]})
            /\ Cardinality(Counted \cup {target[r]}) \in {Cardinality(Counted), Cardinality(Counted) + 1}
        BY <1>1, FS_AddElement
      <3>2. Cardinality(Counted') <= Cardinality(Counted \cup {target[r]})
        BY <2>2, <3>1, FS_Subset
      <3>3. QED
        BY <1>1, <3>1, <3>2
    <2>4. r \in Admitted /\ Admitted' \subseteq Admitted \ {r}
      BY <1>6 DEF EnqueueOk, Reply, Goto, Admitted, TypeOK
    <2>5. Cardinality(Admitted') <= Cardinality(Admitted) - 1
      <3>1. IsFiniteSet(Admitted \ {r}) /\ Cardinality(Admitted \ {r}) = Cardinality(Admitted) - 1
        BY <1>1, <2>4, FS_RemoveElement
      <3>2. QED
        BY <2>4, <3>1, FS_Subset
    <2>6. QED
      BY <1>1, <1>2, <2>3, <2>5
  <1>7. ASSUME Next, ~\E r \in Reqs : Admit(r) \/ EnqueueOk(r)
        PROVE  Cardinality(Counted') + Cardinality(Admitted') < bound
    <2>1. accepted' = accepted /\ Admitted' \subseteq Admitted
      <3>1. CASE Background
        BY <3>1, BackgroundFrame DEF Admitted
      <3>2. ASSUME NEW r \in Reqs, Handler(r)
            PROVE  accepted' = accepted /\ Admitted' \subseteq Admitted
        <4>1. accepted' = accepted
          BY <1>7, <3>2 DEF Handler, CreateWrite, CreateIndex, EnqueueFails, ApiFailGet,
             ApiFailSet, PollEnds, RequestDies, apiVars
        <4>2. \A s \in Reqs : pc'[s] # pc[s] => s = r
          BY <3>2 DEF Handler, CreateWrite, CreateIndex, EnqueueOk, EnqueueFails,
             ApiFailGet, ApiFailSet, PollEnds, RequestDies, Reply, Goto, TypeOK
        <4>3. r \in Admitted \/ pc'[r] = "idle"
          BY <1>7, <3>2 DEF Handler, CreateWrite, CreateIndex, EnqueueFails, ApiFailGet,
             ApiFailSet, PollEnds, RequestDies, Reply, Goto, TypeOK, Admitted
        <4>4. QED
          BY <4>1, <4>2, <4>3 DEF Admitted
      <3>3. QED
        BY <1>7, <3>1, <3>2, NextSplits DEF Request
    <2>2. Counted' \subseteq Counted
      BY <1>7, <2>1, CountedNext
    <2>3. /\ Cardinality(Counted') <= Cardinality(Counted)
          /\ Cardinality(Admitted') <= Cardinality(Admitted)
      BY <1>1, <2>1, <2>2, FS_Subset
    <2>4. QED
      BY <1>1, <1>2, <2>3
  <1>8. QED
    BY <1>4, <1>5, <1>6, <1>7

(* However many submissions list the jobs before any of them creates one,  *)
(* a key overruns its tier's cap by less than the number of handlers.      *)
THEOREM OverrunIsBounded == Spec => []BudgetOverrunBounded
  <1>1. Init => BudgetOverrunBounded
    <2>1. SUFFICES ASSUME Init PROVE BudgetOverrunBounded
      OBVIOUS
    <2>2. (ListedInFlight \cap accepted) \ lapsed = {} /\ Admitted = {}
      BY <2>1 DEF Init, Admitted
    <2>3. Cardinality(Reqs) \in Nat /\ Cap \in Nat \ {0}
      BY JobsAssumption, FS_CardinalityType
    <2>4. QED
      BY <2>2, <2>3, FS_EmptySet DEF BudgetOverrunBounded
  <1>2. ASSUME TypeOK, TypeOK', OwnershipInv, WorkerInv, CopiesInv, FreshInv, HeldInv,
               BudgetOverrunBounded, [Next]_vars
        PROVE  BudgetOverrunBounded'
    BY <1>2, BudgetStep
  <1>3. QED
    BY <1>1, <1>2, TypeCorrect, WorkerInvariant, RecordInvariant, PTL DEF Spec
=============================================================================
