----------------------------- MODULE Settlement -----------------------------
(***************************************************************************)
(* How outcomes are recorded and audits settled: the resolution sync       *)
(* (collector/resolution_sync.py), which takes the overdue events oldest   *)
(* first with a LIMIT and asks Gamma for each, and the arbitrage tracker   *)
(* (worker/arb_tracker.py), which records the first detection per market   *)
(* and tier and settles what has been resolved, in batches without an      *)
(* order.  Events are numbered in the order of their resolution times; a   *)
(* market stands for its event.                                            *)
(***************************************************************************)
EXTENDS Integers, FiniteSetsExt

CONSTANTS
    Null,
    EventCount, Tiers,
    SyncBatch, SettleBatch,   \* the two LIMITs
    MaxSyncFaults

Events == 1..EventCount

SettlementAssumption ==
    {EventCount, SyncBatch, SettleBatch, MaxSyncFaults} \subseteq Nat /\ IsFiniteSet(Tiers)

(* How an event ends at Gamma: with a winner; with split prices, recorded  *)
(* as Inconclusive; or not at all for the sync: not found under its slug,  *)
(* never closed, or closed with prices that do not parse.                  *)
Fates == {"winner", "split", "stuck"}

VARIABLES
    fate,
    due,          \* events 1..due are past their resolution time
    closed,       \* events Gamma shows as closed
    outcome,      \* the events table: Null while resolved_at is NULL
    queue,        \* rows of the sync cycle still to be asked for
    detected,     \* opportunities a scan has in hand to insert
    audits,       \* the audit log: [Events \X Tiers -> none, open or settled]
    batch,        \* rows of the settlement pass still to be looked at
    syncFaults

settlementVars == <<fate, due, closed, outcome, queue, detected, audits, batch, syncFaults>>

Init ==
    /\ fate \in [Events -> Fates]
    /\ due = 0 /\ closed = {} /\ outcome = [e \in Events |-> Null] /\ queue = {}
    /\ detected = {} /\ audits = [a \in Events \X Tiers |-> "none"] /\ batch = {}
    /\ syncFaults = 0

(* --------------------------- time and Gamma ---------------------------- *)

ComesDue ==
    /\ due < EventCount
    /\ due' = due + 1
    /\ UNCHANGED <<fate, closed, outcome, queue, detected, audits, batch, syncFaults>>

Closes(e) ==
    /\ e <= due /\ e \notin closed /\ fate[e] # "stuck"
    /\ closed' = closed \union {e}
    /\ UNCHANGED <<fate, due, outcome, queue, detected, audits, batch, syncFaults>>

(* --------------------------- resolution sync --------------------------- *)

Overdue == {e \in 1..due : outcome[e] = Null}

(* What a query with a LIMIT selects: so many of the rows it finds, or all.*)
Limited(rows, limit) == {s \in SUBSET rows : Cardinality(s) = Min({limit, Cardinality(rows)})}

(* The earlier rows come before the later ones.                            *)
Selected == {s \in Limited(Overdue, SyncBatch) : \A e \in s, d \in Overdue \ s : e < d}

StartSync ==
    /\ queue = {} /\ Overdue # {}
    /\ queue' \in Selected
    /\ UNCHANGED <<fate, due, closed, outcome, detected, audits, batch, syncFaults>>

(* Rows that are missing, still open or unreadable are left as they are;   *)
(* the others are written unless they have been before.                    *)
Parsed(e) == IF e \in closed THEN fate[e] ELSE Null

IsNext(e) == e \in queue /\ \A d \in queue : e <= d

SyncRow(e) ==
    /\ IsNext(e) /\ queue' = queue \ {e}
    /\ outcome' = IF outcome[e] = Null THEN [outcome EXCEPT ![e] = Parsed(e)] ELSE outcome
    /\ UNCHANGED <<fate, due, closed, detected, audits, batch, syncFaults>>

(* A fetch or an update that fails for good is counted and passed over; a  *)
(* restart gives up the whole cycle.                                       *)
SyncFails(e) ==
    /\ syncFaults < MaxSyncFaults /\ IsNext(e)
    /\ queue' \in {queue \ {e}, {}}
    /\ syncFaults' = syncFaults + 1
    /\ UNCHANGED <<fate, due, closed, outcome, detected, audits, batch>>

(* --------------------------- arbitrage tracker ------------------------- *)

(* A scan finds opportunities in markets that are not due; by the time it  *)
(* inserts them they may be.                                               *)
Scan(found) ==
    /\ detected = {} /\ found # {}
    /\ found \subseteq {e \in Events : e > due /\ outcome[e] = Null} \X Tiers
    /\ detected' = found
    /\ UNCHANGED <<fate, due, closed, outcome, queue, audits, batch, syncFaults>>

InsertDetection(a) ==
    /\ a \in detected
    /\ detected' = detected \ {a}
    /\ audits' = IF audits[a] = "none" THEN [audits EXCEPT ![a] = "open"] ELSE audits
    /\ UNCHANGED <<fate, due, closed, outcome, queue, batch, syncFaults>>

Settleable == {a \in Events \X Tiers :
                  audits[a] = "open" /\ a[1] <= due /\ outcome[a[1]] # Null}

StartSettling ==
    /\ batch = {} /\ Settleable # {}
    /\ batch' \in Limited(Settleable, SettleBatch)
    /\ UNCHANGED <<fate, due, closed, outcome, queue, detected, audits, syncFaults>>

(* A row whose outcome is neither Up nor Down is logged and skipped.       *)
SettleRow(a) ==
    /\ a \in batch
    /\ batch' = batch \ {a}
    /\ audits' = IF outcome[a[1]] = "winner" THEN [audits EXCEPT ![a] = "settled"] ELSE audits
    /\ UNCHANGED <<fate, due, closed, outcome, queue, detected, syncFaults>>

(* An exception ends the scan or the settlement pass it strikes with what  *)
(* it held, a restart ends both.                                           *)
TrackerFails ==
    /\ syncFaults < MaxSyncFaults
    /\ detected' \in {detected, {}} /\ batch' \in {batch, {}}
    /\ <<detected, batch>>' # <<detected, batch>>
    /\ syncFaults' = syncFaults + 1
    /\ UNCHANGED <<fate, due, closed, outcome, queue, audits>>

Sync == StartSync \/ \E e \in Events : SyncRow(e)
Settle == StartSettling \/ \E a \in Events \X Tiers : SettleRow(a)

Next ==
    \/ ComesDue \/ \E e \in Events : Closes(e)
    \/ StartSync \/ \E e \in Events : SyncRow(e) \/ SyncFails(e)
    \/ \E found \in SUBSET (Events \X Tiers) : Scan(found)
    \/ \E a \in Events \X Tiers : InsertDetection(a)
    \/ StartSettling \/ \E a \in Events \X Tiers : SettleRow(a)
    \/ TrackerFails

(* ------------------------------ properties ----------------------------- *)

TypeOK ==
    /\ fate \in [Events -> Fates] /\ due \in 0..EventCount /\ closed \subseteq 1..due
    /\ outcome \in [Events -> {Null, "winner", "split"}]
    /\ \A e \in Events : outcome[e] # Null => e \in closed
    /\ queue \subseteq 1..due /\ Cardinality(queue) <= SyncBatch
    /\ audits \in [Events \X Tiers -> {"none", "open", "settled"}]
    /\ {detected, batch} \subseteq SUBSET (Events \X Tiers)
    /\ Cardinality(batch) <= SettleBatch

(* What can never be taken out of the way by a pass.                       *)
StuckEvents == (1..due) \ closed
StuckAudits == {a \in Events \X Tiers : audits[a] = "open" /\ outcome[a[1]] = "split"}

(* As long as the rows that no pass can finish leave room in a batch,      *)
(* every closed event is recorded and every audit of a decided one is      *)
(* settled, however the batches fall.                                      *)
Settled ==
    /\ Cardinality(StuckEvents) < SyncBatch =>
           \A e \in closed : outcome[e] = fate[e]
    /\ Cardinality(StuckAudits) < SettleBatch =>
           \A a \in Settleable : outcome[a[1]] # "winner"
=============================================================================
