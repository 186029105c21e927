------------------------------ MODULE Platform ------------------------------
(***************************************************************************)
(* The parts of the system that share no state with one another, as one:   *)
(* in the web app the market pages, the paper trading pages, billing with  *)
(* the webhook behind it and the API keys page; behind it the replay of a  *)
(* market, the rate limiter of a key, and the loops that record outcomes   *)
(* and settle audits.  A behaviour is one section's, with the rest at      *)
(* rest.  In the browser that is what happens: a tab is in one section at  *)
(* a time, each mounts with a state of its own, and leaving unmounts it.   *)
(* (Backtests and the builder have modules of their own, Studies and       *)
(* Builder; so do jobs, the paper trading worker and the order book feed.) *)
(***************************************************************************)
EXTENDS Naturals, Sequences

CONSTANTS
    Null,
    MaxKey, MaxVersion, MaxOut, MaxMoves, MaxLost,
    MaxPositions, Nets, PageLimit, TableRows, CardRows, MaxWire, MaxPresses, MaxMissed,
    Subs, Plan, MaxExtras,
    MaxCreates, MaxRevokes, MaxDrops,
    Dollar, Books, Length, Rules, Stake, MaxEntries, Offset,
    Limit, Window, MaxWaiting,
    EventCount, Tiers, SyncBatch, SettleBatch, MaxSyncFaults

VARIABLES
    section,
    at, key, shown, edge, ui, reqs, version, overtook, moves, lost,
    site, strategy, ledger, face, refreshes, actions, late, presses, missed,
    stripe, customer, planAt, pending, handlers, profile, rows, repriced, broken, extras,
    known, table, listed, creating, fresh, calls, seen, swapped, creates, revokes, drops,
    snaps, rules, payout, turn, position, trades,
    bucket, waiting, granted, refused, promised,
    fate, due, closed, outcome, queue, detected, audits, batch, syncFaults

Live    == INSTANCE LivePages
Paper   == INSTANCE PaperPages
Account == INSTANCE Billing
Keys    == INSTANCE ApiKeys
Engine  == INSTANCE Replay
Limiter == INSTANCE RateLimit
Results == INSTANCE Settlement

ASSUME PlatformAssumption ==
    /\ Live!LivePagesAssumption /\ Paper!PaperPagesAssumption
    /\ Account!BillingAssumption /\ Keys!KeysAssumption
    /\ Engine!ReplayAssumption /\ Limiter!RateLimitAssumption
    /\ Results!SettlementAssumption

liveVars == <<at, key, shown, edge, ui, reqs, version, overtook, moves, lost>>
paperVars == <<site, strategy, ledger, face, refreshes, actions, late,
               presses, missed>>
billingVars == <<stripe, customer, planAt, pending, handlers, profile, rows, repriced,
                 broken, extras>>
keysVars == <<known, table, listed, creating, fresh, calls, seen, swapped,
              creates, revokes, drops>>
webVars == <<liveVars, paperVars, billingVars, keysVars>>

replayVars == <<snaps, rules, payout, turn, position, trades>>
rateVars == <<bucket, waiting, granted, refused, promised>>
settlementVars == <<fate, due, closed, outcome, queue, detected, audits, batch, syncFaults>>
backVars == <<replayVars, rateVars, settlementVars>>

vars == <<section, webVars, backVars>>

WebSections == {"live", "paper", "billing", "keys"}
BackSections == {"replay", "limiter", "settlement"}

(* A section that is not open rests in a plain initial state.              *)
AtRest ==
    /\ section = "live" \/ at = "terminal"
    /\ section = "paper" \/ (site = "list" /\ strategy = "active")
    /\ section = "keys" \/ known = FALSE
    /\ section = "replay" \/ /\ payout = 0 /\ rules = CHOOSE r \in Rules : TRUE
                             /\ snaps = [i \in 1..Length |-> CHOOSE b \in Books : TRUE]
    /\ section = "settlement" \/ fate = [e \in Results!Events |-> "winner"]

Init ==
    /\ section \in WebSections \union BackSections
    /\ AtRest
    /\ Live!Init /\ Paper!Init /\ Account!Init /\ Keys!Init
    /\ Engine!Init /\ Limiter!Init /\ Results!Init

InWeb ==
    \/ section = "live" /\ Live!Next /\ UNCHANGED <<paperVars, billingVars, keysVars>>
    \/ section = "paper" /\ Paper!Next /\ UNCHANGED <<liveVars, billingVars, keysVars>>
    \/ section = "billing" /\ Account!Next /\ UNCHANGED <<liveVars, paperVars, keysVars>>
    \/ section = "keys" /\ Keys!Next /\ UNCHANGED <<liveVars, paperVars, billingVars>>

InBackend ==
    \/ section = "replay" /\ Engine!Next /\ UNCHANGED <<rateVars, settlementVars>>
    \/ section = "limiter" /\ Limiter!Next /\ UNCHANGED <<replayVars, settlementVars>>
    \/ section = "settlement" /\ Results!Next /\ UNCHANGED <<replayVars, rateVars>>

Next ==
    /\ \/ InWeb /\ UNCHANGED backVars
       \/ InBackend /\ UNCHANGED webVars
    /\ UNCHANGED section

(* The open section is scheduled as its own module says.                   *)
Fairness ==
    /\ WF_liveVars(section = "live" /\ Live!Answer(1))
    /\ WF_liveVars(section = "live" /\ Live!Receive(1))
    /\ WF_liveVars(section = "live" /\ Live!PollBoards)
    /\ WF_liveVars(section = "live" /\ Live!PollArb)
    /\ WF_liveVars(section = "live" /\ Live!FetchBook)
    /\ WF_paperVars(section = "paper" /\ Paper!AnswerPart(1))
    /\ WF_paperVars(section = "paper" /\ Paper!Apply(1))
    /\ WF_paperVars(section = "paper" /\ Paper!PollStrategy)
    /\ WF_paperVars(section = "paper" /\ Paper!Acted(1))
    /\ WF_billingVars(section = "billing" /\ Account!DeliverAny)
    /\ WF_billingVars(section = "billing" /\ Account!Handle)
    /\ WF_keysVars(section = "keys" /\ Keys!Serve(1))
    /\ WF_keysVars(section = "keys" /\ Keys!Receive(1))
    /\ WF_replayVars(section = "replay" /\ Engine!Next)
    /\ WF_settlementVars(section = "settlement" /\ Results!Sync)
    /\ WF_settlementVars(section = "settlement" /\ Results!Settle)

Spec == Init /\ [][Next]_vars /\ Fairness

(* ------------------------------ properties ----------------------------- *)

(* Every section's state has its type; one at rest never leaves its first. *)
AllTypesOK ==
    /\ section = "live"       => Live!TypeOK
    /\ section = "paper"      => Paper!TypeOK
    /\ section = "billing"    => Account!TypeOK
    /\ section = "keys"       => Keys!TypeOK
    /\ section = "replay"     => Engine!TypeOK
    /\ section = "limiter"    => Limiter!TypeOK
    /\ section = "settlement" => Results!TypeOK

(* Live pages: what is on display is what was asked for last, whatever     *)
(* order the answers came in (LivePages).                                  *)
MatchesFilter == Live!MatchesFilter

(* Strategy page: its figures agree, although they come from requests that *)
(* the worker and other refreshes interleave with (PaperPages).            *)
PageAgreesWithItself == Paper!PageAgreesWithItself

(* Webhook at rest: a subscription has an active row exactly while Stripe  *)
(* has it active, of the tier it was bought for, which is the tier that is *)
(* read back; a plan changed at Stripe never arrives (Billing).            *)
TierFollowsPurchase == Account!TierFollowsPurchase

(* Keys page: the key on display is the newest, and no key's plaintext is  *)
(* lost but for a call that was (ApiKeys).                                 *)
KeysAccountedFor == Keys!KeysAccountedFor

(* Replay: a taker's fill gives what its snapshot's book had for the money *)
(* or the shares, neither more nor less (Replay).                          *)
FillsWalkTheBook == section = "replay" => Engine!FillsWalkTheBook

(* Replay: a market's result is the money its trades brought in less what  *)
(* they took, counted once (Replay).                                       *)
EachDollarOnce == section = "replay" => Engine!EachDollarOnce

(* Rate limiter: less than twice the limit in a window wherever it begins, *)
(* no refusal of who kept to the rate, and an honest Retry-After           *)
(* (RateLimit).                                                            *)
RateIsHonest == section = "limiter" => Limiter!RateIsHonest

(* Every section settles on what its server has: the pages on the answer   *)
(* for their last filter, on the strategy and the keys of the tables; who  *)
(* pays gets the tier; a replay ends with every trade settled; outcomes    *)
(* are recorded and audits settled, if the rows that cannot be leave room  *)
(* in a batch.  (The rate limiter never comes to rest.)                    *)
Converged ==
    CASE section = "live"       -> Live!Settled
      [] section = "paper"      -> Paper!Settled
      [] section = "billing"    -> Account!AllPaid
      [] section = "keys"       -> Keys!Settled
      [] section = "replay"     -> Engine!Settled
      [] section = "settlement" -> Results!Settled
      [] section = "limiter"    -> TRUE
SectionsConverge == <>[]Converged
=============================================================================
