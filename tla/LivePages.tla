----------------------------- MODULE LivePages -----------------------------
(***************************************************************************)
(* The market pages of the dashboard: the live terminal, one market with   *)
(* its time scrubber, the arbitrage scanner and its audit, the calibration *)
(* view and the table of resolved markets.  Each shows what the API        *)
(* answered for the filter picked last - a ticker, a window, a threshold,  *)
(* a point in time - and each guards itself differently against answers    *)
(* that come late: a cancelled effect, a request kept out while another is *)
(* in flight, a debounce, or not at all.                                   *)
(*                                                                         *)
(* A filter is a number, 0 being the default; what the server has is a     *)
(* version that grows.  One page is open in the tab.                       *)
(***************************************************************************)
EXTENDS Naturals, FiniteSets, SequencesExt

CONSTANTS
    Null,
    MaxKey,      \* filters beyond the default
    MaxVersion,  \* bound: changes of the server's data
    MaxOut,      \* bound: requests under way
    MaxMoves,    \* bound: changes of a filter
    MaxLost      \* bound: failed requests

LivePagesAssumption ==
    /\ MaxKey \in Nat /\ MaxVersion \in Nat \ {0} /\ MaxOut \in Nat \ {0, 1}
    /\ MaxMoves \in Nat /\ MaxLost \in Nat
    /\ Null \notin [key : Nat, version : Nat, first : BOOLEAN]

VARIABLES
    at,       \* the open page
    key,      \* the filter picked last
    shown,    \* the answer on display: Null, or its filter and version
    edge,     \* terminal: the ticker whose calibration judges the boards, or Null
    ui,       \* flags: error, loading, paused, timer (the scrubber's debounce)
    reqs,     \* requests under way, in the order they were sent
    version,  \* the server's data
    overtook, \* history: an answer came before that of an earlier request
    moves, lost

liveVars == <<at, key, shown, edge, ui, reqs, version, overtook, moves, lost>>

Pages == {"terminal", "market", "arb", "audit", "calibration", "markets"}
Keys == 0..MaxKey

(* ------------------------------ requests ------------------------------- *)

Request(what, k) == [what |-> what, key |-> k, live |-> TRUE, done |-> FALSE, got |-> 0]
Out(what) == {i \in DOMAIN reqs : reqs[i].what = what}

(* The cleanup of an effect: its answer will find "cancelled" set.         *)
Cancelled(rs, what) ==
    [i \in DOMAIN rs |-> IF rs[i].what = what THEN [rs[i] EXCEPT !.live = FALSE] ELSE rs[i]]

Send(rs) == Len(rs) <= MaxOut /\ reqs' = rs

(* A proxy route asks the API and hands its answer on; without a session   *)
(* (401), without the API (502) or with an API error it is a failure, 0.   *)
Answer(i) ==
    /\ i \in DOMAIN reqs /\ ~reqs[i].done
    /\ \/ reqs' = [reqs EXCEPT ![i].done = TRUE, ![i].got = version] /\ UNCHANGED lost
       \/ /\ lost < MaxLost /\ lost' = lost + 1
          /\ reqs' = [reqs EXCEPT ![i].done = TRUE]
    /\ UNCHANGED <<at, key, shown, edge, ui, version, overtook, moves>>

Change ==
    /\ version < MaxVersion /\ version' = version + 1
    /\ UNCHANGED <<at, key, shown, edge, ui, reqs, overtook, moves, lost>>

(* The answer of request i reaches its page.                               *)
Received(page, what, i) ==
    /\ at = page /\ i \in Out(what) /\ reqs[i].done
    /\ reqs' = RemoveAt(reqs, i)
    /\ overtook' = (overtook \/ \E j \in Out(what) : j < i)
    /\ UNCHANGED <<at, key, version, moves, lost>>

Ok(i) == reqs[i].got # 0
Reply(i) == [key |-> reqs[i].key, version |-> reqs[i].got, first |-> FALSE]

(* Another filter: setting a state to what it is renders nothing.          *)
Picked(page, k) ==
    /\ at = page /\ k # key /\ key' = k
    /\ moves < MaxMoves /\ moves' = moves + 1
    /\ UNCHANGED <<at, version, lost>>

Ticked(page) == at = page /\ UNCHANGED <<at, key, shown, edge, version, moves, lost>>

(* ----------------------------- live terminal --------------------------- *)

(* A new ticker asks for its calibration, dropping the old one's, and for  *)
(* its boards - unless a request for boards is in flight, whose answer is  *)
(* then shown although it is the old ticker's, until the next poll.        *)
PickTicker(k) ==
    /\ Picked("terminal", k)
    /\ LET asked == Append(Cancelled(reqs, "edge"), Request("edge", k))
       IN  Send(IF Out("data") = {} THEN Append(asked, Request("data", k)) ELSE asked)
    /\ UNCHANGED <<shown, edge, ui, overtook>>

PollBoards_FirstTicker ==
    /\ Ticked("terminal") /\ Out("data") = {}
    /\ Send(Append(reqs, Request("data", 0)))
    /\ UNCHANGED <<ui, overtook>>

PollBoards ==
    /\ Ticked("terminal") /\ Out("data") = {}
    /\ Send(Append(reqs, Request("data", key)))
    /\ UNCHANGED <<ui, overtook>>

ReceiveBoards(i) ==
    /\ Received("terminal", "data", i)
    /\ shown' = IF Ok(i) THEN Reply(i) ELSE shown
    /\ ui' = [ui EXCEPT !.error = ~Ok(i)]
    /\ UNCHANGED edge

(* Without its calibration a ticker's boards are shown unjudged.           *)
ReceiveEdge(i) ==
    /\ Received("terminal", "edge", i)
    /\ edge' = IF ~reqs[i].live THEN edge ELSE IF Ok(i) THEN reqs[i].key ELSE Null
    /\ UNCHANGED <<shown, ui>>

(* "No currently-trading markets" also stands for boards not loaded yet.   *)
(* A board and the calibration its badge is computed from, if there is one.*)
Mispricing(calibration) == IF calibration = Null THEN Null ELSE [judgedBy |-> calibration]
BoardCard == [ticker |-> shown.key, badge |-> Mispricing(edge)]

TerminalFace ==
    [badge  |-> IF ui.error THEN "Reconnecting" ELSE "Live",
     boards |-> IF shown = Null THEN "No currently-trading markets" ELSE "cards"]

(* ------------------------------- one market ---------------------------- *)

(* Every control of the scrubber - slider, earliest, a minute back or      *)
(* forth, a typed time snapped to the nearest point - ends in a point;     *)
(* "Latest" is 0 here.  The debounce starts anew.                          *)
ScrubTo(k) ==
    /\ Picked("market", k)
    /\ shown' = IF k = 0 THEN Null ELSE shown
    /\ ui' = [ui EXCEPT !.timer = (k # 0)]
    /\ UNCHANGED <<edge, reqs, overtook>>

FetchBook ==
    /\ Ticked("market") /\ ui.timer
    /\ ui' = [ui EXCEPT !.timer = FALSE, !.loading = TRUE]
    /\ Send(Append(reqs, Request("data", key)))
    /\ overtook' = (overtook /\ reqs # <<>>)

(* Nothing cancels a book that is asked for: the answer that comes last    *)
(* stays, and the first one takes the spinner off.                         *)
ReceiveBook(i) ==
    /\ Received("market", "data", i)
    /\ shown' = IF Ok(i) THEN Reply(i) ELSE shown
    /\ ui' = [ui EXCEPT !.loading = FALSE]
    /\ UNCHANGED edge

(* The book on display: the latest, which came with the page, until the    *)
(* first scrubbed one arrives and again after "Latest".                    *)
LatestBook == [key |-> 0, version |-> 1, first |-> TRUE]
BookShown == IF key # 0 /\ shown # Null THEN shown ELSE LatestBook

(* The card names the scrubbed time, whichever book it holds.              *)
OrderbookCard == [time |-> key, book |-> BookShown.key, spinner |-> ui.loading]

(* --------------------------- arbitrage scanner ------------------------- *)

(* The poller is set up anew when the threshold or the pause changes, and  *)
(* then scans once, paused or not.                                         *)
SetMinEdge(k) ==
    /\ Picked("arb", k)
    /\ Send(Append(reqs, Request("data", k)))
    /\ overtook' = (overtook /\ reqs # <<>>)
    /\ UNCHANGED <<shown, edge, ui>>

TogglePause ==
    /\ at = "arb" /\ moves < MaxMoves /\ moves' = moves + 1
    /\ ui' = [ui EXCEPT !.paused = ~@]
    /\ Send(Append(reqs, Request("data", key)))
    /\ overtook' = (overtook /\ reqs # <<>>)
    /\ UNCHANGED <<at, key, shown, edge, version, lost>>

PollArb ==
    /\ Ticked("arb") /\ ~ui.paused
    /\ Send(Append(reqs, Request("data", key)))
    /\ overtook' = (overtook /\ reqs # <<>>)
    /\ UNCHANGED ui

ReceiveArb(i) ==
    /\ Received("arb", "data", i)
    /\ shown' = IF Ok(i) THEN Reply(i) ELSE shown
    /\ ui' = [ui EXCEPT !.error = ~Ok(i), !.loading = FALSE]
    /\ UNCHANGED edge

(* The scan of the API: opportunities by ticker, tier and - of the model-  *)
(* based ones - the last threshold their edge clears; the logical ones, a  *)
(* whole pair for less than a dollar, have none to clear.  Markets of every*)
(* kind are open.  (Thresholds are numbered upwards from the default.)     *)
Tickers == {"BTC", "ETH"}
Opportunity == [ticker : Tickers, tier : {"stable", "stale", "logical"}, clears : Keys]
Scan(k) == {o \in Opportunity : o.tier = "logical" \/ o.clears >= k}

(* The table, its badge and the counts on its buttons, for the ticker and  *)
(* the tier picked ("all": any).  Logical rows escape the tier filter.     *)
OpportunityTable(opportunities, ticker, tier) ==
    LET ofTicker == {o \in opportunities : ticker \in {"all", o.ticker}}
        ofTier(t) == {o \in ofTicker : o.tier = t}
    IN  [rows   |-> {o \in ofTicker : o.tier = "logical" \/ tier \in {"all", o.tier}},
         badge  |-> Cardinality(ofTier("logical")),
         counts |-> [t \in {"stable", "stale"} |-> Cardinality(ofTier(t))]]

ScannerFace ==
    [banner |-> ui.error,
     table  |-> IF shown # Null THEN "opportunities" ELSE IF ui.loading THEN "scanning" ELSE "blank"]

(* ---------------------------- arbitrage audit -------------------------- *)

AuditFace == IF ui.loading /\ shown = Null THEN "loading"
             ELSE IF ui.error THEN "error" ELSE "audit"

(* The selector is part of the audit: an error takes it off the page.      *)
PickWindow(k) ==
    /\ AuditFace = "audit"
    /\ Picked("audit", k)
    /\ ui' = [ui EXCEPT !.loading = TRUE]
    /\ Send(Append(Cancelled(reqs, "data"), Request("data", k)))
    /\ UNCHANGED <<shown, edge, overtook>>

ReceiveAudit(i) ==
    /\ Received("audit", "data", i)
    /\ \/ ~reqs[i].live /\ UNCHANGED <<shown, ui>>
       \/ /\ reqs[i].live
          /\ shown' = IF Ok(i) THEN Reply(i) ELSE shown
          /\ ui' = [ui EXCEPT !.loading = FALSE, !.error = ~Ok(i)]
    /\ UNCHANGED edge

(* --------------------------- calibration view -------------------------- *)

PickFilter(k) ==
    /\ Picked("calibration", k)
    /\ ui' = [ui EXCEPT !.loading = TRUE, !.error = FALSE]
    /\ Send(Append(Cancelled(reqs, "data"), Request("data", k)))
    /\ UNCHANGED <<shown, edge, overtook>>

ReceiveBuckets_Uncancelled(i) ==
    /\ Received("calibration", "data", i)
    /\ shown' = IF Ok(i) THEN Reply(i) ELSE shown
    /\ ui' = [ui EXCEPT !.loading = FALSE, !.error = ~Ok(i)]
    /\ UNCHANGED edge

ReceiveBuckets(i) ==
    /\ Received("calibration", "data", i)
    /\ \/ ~reqs[i].live /\ UNCHANGED <<shown, ui>>
       \/ /\ reqs[i].live
          /\ shown' = IF Ok(i) THEN Reply(i) ELSE shown
          /\ ui' = [ui EXCEPT !.loading = FALSE, !.error = (@ \/ ~Ok(i))]
    /\ UNCHANGED edge

CalibrationFace == IF shown # Null THEN "insight"
                   ELSE IF ui.loading THEN "computing" ELSE "error"

(* The insight, which the user may send to the strategy builder: the       *)
(* buckets on display under the name of the filter picked last.            *)
Insight == IF shown = Null THEN Null ELSE [named |-> key, from |-> shown.key]

(* --------------------------- resolved markets -------------------------- *)

(* The page comes with the rows of the default filter, and back at the     *)
(* default nothing is loaded while those rows are still the ones it has.   *)
PickTab(k) ==
    /\ Picked("markets", k)
    /\ LET rs == Cancelled(reqs, "data")
       IN  IF k = 0 /\ shown.first
           THEN reqs' = rs /\ UNCHANGED ui
           ELSE Send(Append(rs, Request("data", k))) /\ ui' = [ui EXCEPT !.loading = TRUE]
    /\ UNCHANGED <<shown, edge, overtook>>

ReceiveMarkets_UncheckedOk(i) ==
    /\ Received("markets", "data", i)
    /\ shown' = (IF reqs[i].live THEN Reply(i) ELSE shown)
    /\ ui' = [ui EXCEPT !.loading = @ /\ ~reqs[i].live]
    /\ UNCHANGED edge

ReceiveMarkets(i) ==
    /\ Received("markets", "data", i)
    /\ \/ ~reqs[i].live /\ UNCHANGED <<shown, ui>>
       \/ /\ reqs[i].live
          /\ shown' = IF Ok(i) THEN Reply(i) ELSE shown
          /\ ui' = [ui EXCEPT !.loading = FALSE]
    /\ UNCHANGED edge

TableFace == IF ui.loading THEN "loading" ELSE "rows"

(* ---------------------------- specification ---------------------------- *)

Quiet == [error |-> FALSE, loading |-> FALSE, paused |-> FALSE, timer |-> FALSE]

(* Mounting: what each page asks for at once, and what it came with.       *)
Asked(page) ==
    CASE page = "terminal" -> <<Request("edge", 0), Request("data", 0)>>
      [] page \in {"arb", "audit", "calibration"} -> <<Request("data", 0)>>
      [] OTHER -> <<>>

Init ==
    /\ at \in Pages /\ key = 0
    /\ shown = IF at = "markets" THEN LatestBook ELSE Null
    /\ edge = Null
    /\ ui = [Quiet EXCEPT !.loading = (at \in {"arb", "audit", "calibration"})]
    /\ reqs = Asked(at) /\ version = 1 /\ overtook = FALSE /\ moves = 0 /\ lost = 0

Receive(i) ==
    \/ ReceiveBoards(i) \/ ReceiveEdge(i) \/ ReceiveBook(i) \/ ReceiveArb(i)
    \/ ReceiveAudit(i) \/ ReceiveBuckets(i) \/ ReceiveMarkets(i)

Next ==
    \/ Change \/ TogglePause \/ PollBoards \/ PollArb \/ FetchBook
    \/ \E i \in 1..MaxOut : Answer(i) \/ Receive(i)
    \/ \E k \in Keys : \/ PickTicker(k) \/ ScrubTo(k) \/ SetMinEdge(k)
                       \/ PickWindow(k) \/ PickFilter(k) \/ PickTab(k)

(* The browser runs timers and callbacks; the oldest request is answered,  *)
(* if only with a failure.                                                 *)
Fairness ==
    /\ WF_liveVars(Answer(1)) /\ WF_liveVars(Receive(1))
    /\ WF_liveVars(PollBoards) /\ WF_liveVars(PollArb) /\ WF_liveVars(FetchBook)

Spec == Init /\ [][Next]_liveVars /\ Fairness

(* ------------------------------ properties ----------------------------- *)

(* Types, and no more than one request for boards in flight.               *)
TypeOK ==
    /\ at \in Pages /\ key \in Keys /\ version \in 1..MaxVersion
    /\ shown # Null => shown.key \in Keys /\ shown.version \in 1..version
    /\ edge # Null => edge \in Keys
    /\ DOMAIN ui = DOMAIN Quiet /\ \A flag \in DOMAIN ui : ui[flag] \in BOOLEAN
    /\ Len(reqs) <= MaxOut
    /\ overtook \in BOOLEAN /\ moves \in 0..MaxMoves /\ lost \in 0..MaxLost

(* What is on display is what was asked for last, whatever order the       *)
(* answers came in: at once for the pages that cancel (audit, calibration, *)
(* markets), when all answers are in for those that do not - and there     *)
(* only if no answer overtook another.  The scanner then lists just what   *)
(* clears the threshold picked, and the riskless pairs.  The boards of the *)
(* terminal are judged by the calibration of the ticker that is picked.    *)
MatchesFilter ==
    /\ at = "audit" =>
            (shown # Null /\ ~ui.loading /\ ~ui.error => shown.key = key)
    /\ at = "calibration" =>
            (CalibrationFace = "insight" /\ ~ui.loading /\ ~ui.error =>
                Insight.named = Insight.from)
    /\ at = "markets" => (TableFace = "rows" /\ lost = 0 => shown.key = key)
    /\ at = "market" =>
            (reqs = <<>> /\ ~ui.timer /\ ~overtook /\ lost = 0 =>
                OrderbookCard = [time |-> key, book |-> key, spinner |-> FALSE])
    /\ at = "arb" =>
            (reqs = <<>> /\ ~overtook /\ ~ScannerFace.banner =>
                \A ticker \in Tickers, tier \in {"stable", "stale"} :
                    LET t == OpportunityTable(Scan(shown.key), ticker, tier) IN
                    /\ Cardinality(t.rows) = t.badge + t.counts[tier]
                    /\ \A o \in Opportunity :
                        o \in t.rows <=>
                            /\ o.ticker = ticker
                            /\ o.tier = "logical" \/ (o.tier = tier /\ o.clears >= key))
    /\ at = "terminal" =>
            (edge # Null /\ (\A i \in Out("edge") : ~reqs[i].live) => edge = key)

(* A page left alone settles on what the server has for its filter: the    *)
(* polling pages on its latest version unless paused, the others on their  *)
(* one answer, or an error where the page shows one.  (The table of markets*)
(* is excepted back at the default filter while its first rows are still   *)
(* the ones it has: a load cancelled by going back leaves it "Loading".)   *)
Settled ==
    CASE at = "terminal" -> shown = [key |-> key, version |-> version, first |-> FALSE]
                            /\ TerminalFace = [badge |-> "Live", boards |-> "cards"]
                            /\ BoardCard.badge \in {Null, [judgedBy |-> BoardCard.ticker]}
      [] at = "arb" -> ui.paused \/ (/\ shown = [key |-> key, version |-> version, first |-> FALSE]
                                     /\ ScannerFace = [banner |-> FALSE, table |-> "opportunities"])
      [] at = "audit" -> ~ui.loading /\ (AuditFace = "error" \/ shown.key = key)
      [] at = "calibration" -> /\ CalibrationFace # "computing" /\ ~ui.loading
                               /\ ui.error \/ Insight = [named |-> key, from |-> key]
      [] at = "market" -> ~ui.timer /\ ~OrderbookCard.spinner
                          /\ (overtook \/ lost > 0 \/ OrderbookCard.book = OrderbookCard.time)
      [] at = "markets" -> ~(key = 0 /\ shown.first) => TableFace = "rows"
=============================================================================
