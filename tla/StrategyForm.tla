---------------------------- MODULE StrategyForm ----------------------------
(***************************************************************************)
(* The page of the no-code strategy builder in one browser tab             *)
(* (web/components/StrategyBuilder.tsx): the state it edits, what it keeps *)
(* in localStorage, the hand-off from the calibration page, and the two    *)
(* ways to submit.  What a form is, what an edit makes of it and what is   *)
(* sent for it are the module Builder's; nothing here depends on them.     *)
(*                                                                         *)
(* The page may be left and opened again.  A submission is an async        *)
(* function: it goes on after its page was left, with the strategy it      *)
(* built when the button was pressed.  One step of it stands for a request *)
(* sent, served and answered.                                              *)
(***************************************************************************)
EXTENDS Integers, FiniteSets, SequencesExt

CONSTANTS
    None,
    Default,       \* the form a browser begins with
    Presets,       \* the templates
    HandedOver,    \* the form the calibration page hands over
    Edited(_),     \* the forms that one edit of a form may lead to
    Sent(_),       \* the strategy spec that is sent for a form
    SavedCap,      \* strategies the browser keeps (20 in the code)
    MaxMoves,      \* bound: edits and loads together
    MaxLoads,      \* bound: templates, loads, saves, openings of the page
    MaxClicks,     \* bound: submissions
    MaxFaults      \* bound: requests lost, refused writes of localStorage

ASSUME StrategyFormAssumption ==
    /\ SavedCap \in Nat /\ MaxMoves \in Nat /\ MaxLoads \in Nat
    /\ MaxClicks \in Nat /\ MaxFaults \in Nat

VARIABLES
    page,        \* "builder" or "elsewhere"
    form,        \* the builder's state, None elsewhere
    saved,       \* the page's copy of the saved strategies
    submitting,  \* the buttons are disabled
    stored,      \* localStorage: the last state, a sequence of one or none
    savedStore,  \* localStorage: the saved strategies
    prefill,     \* localStorage: a hand-off not yet taken up, one or none
    lost,        \* history: a write to localStorage was refused
    subs,        \* submissions under way
    runs,        \* backtest jobs the backend accepted
    papers,      \* paper strategies the backend created
    edits, loads, clicks, faults

tab    == <<page, form, saved, submitting>>
disk   == <<stored, savedStore, prefill, lost>>
server == <<subs, runs, papers>>
bounds == <<edits, loads, clicks, faults>>
vars   == <<tab, disk, server, bounds>>

(* A refused write is swallowed; the page goes on with what it has.        *)
Refused == faults < MaxFaults /\ faults' = faults + 1 /\ lost' = TRUE
Written == UNCHANGED <<faults, lost>>

Persist(f) ==
    /\ form' = f
    /\ \/ stored' = <<f>> /\ Written
       \/ UNCHANGED stored /\ Refused

(* ------------------------------- the page ------------------------------ *)

LoadStored == IF stored = <<>> THEN Default ELSE stored[1]

(* The mount effect: a hand-off is merged, written to the regular key and  *)
(* taken off; else the stored state comes back.                            *)
MountEffect_NoWriteBack ==
    /\ form' = IF prefill = <<>> THEN LoadStored ELSE prefill[1]
    /\ prefill' = <<>> /\ UNCHANGED stored /\ Written
    /\ saved' = savedStore /\ UNCHANGED savedStore

MountEffect ==
    /\ IF prefill = <<>>
       THEN form' = LoadStored /\ UNCHANGED stored /\ Written
       ELSE Persist(prefill[1])
    /\ prefill' = <<>>
    /\ saved' = savedStore /\ UNCHANGED savedStore

Move == edits + loads < MaxMoves
Load == Move /\ loads < MaxLoads /\ loads' = loads + 1

Open ==
    /\ page = "elsewhere" /\ Load
    /\ page' = "builder" /\ submitting' = FALSE
    /\ MountEffect
    /\ UNCHANGED <<server, edits, clicks>>

(* Strict Mode mounts the same page twice.                                 *)
Remount ==
    /\ page = "builder" /\ edits = 0 /\ ~submitting /\ Load
    /\ MountEffect
    /\ UNCHANGED <<page, submitting, server, edits, clicks>>

(* The component is gone; its submissions under way are not.               *)
Left == page' = "elsewhere" /\ form' = None /\ saved' = <<>> /\ submitting' = FALSE
Orphaned(ss) == [s \in DOMAIN ss |-> [ss[s] EXCEPT !.live = FALSE]]

Leave ==
    /\ page = "builder" /\ Left
    /\ subs' = Orphaned(subs)
    /\ UNCHANGED <<disk, runs, papers, bounds>>

(* CalibrationView: write the hand-off, then go to the builder.            *)
ApplyEdge ==
    /\ page = "elsewhere" /\ prefill = <<>> /\ Move /\ loads < MaxLoads
    /\ prefill' = <<HandedOver>>
    /\ UNCHANGED <<tab, stored, savedStore, lost, server, bounds>>

(* --------------------------- whole-state loads ------------------------- *)

Picked(f) == page = "builder" /\ Load /\ Persist(f)
             /\ UNCHANGED <<page, submitting, prefill, server, edits, clicks>>

ApplyTemplate == \E t \in Presets : Picked(t) /\ UNCHANGED <<saved, savedStore>>

Reset == ~submitting /\ Picked(Default) /\ UNCHANGED <<saved, savedStore>>

LoadSavedStrategy ==
    \E i \in DOMAIN saved : Picked(saved[i]) /\ UNCHANGED <<saved, savedStore>>

WriteSaved(list) ==
    /\ page = "builder" /\ Load /\ saved' = list
    /\ \/ savedStore' = list /\ Written
       \/ UNCHANGED savedStore /\ Refused
    /\ UNCHANGED <<page, form, submitting, stored, prefill, server, edits, clicks>>

SaveCurrent_Uncapped == WriteSaved(<<form>> \o saved)

(* The newest first, cut at the cap.                                       *)
SaveCurrent ==
    LET list == <<form>> \o saved
    IN  WriteSaved(SubSeq(list, 1, IF Len(list) < SavedCap THEN Len(list) ELSE SavedCap))

DeleteSaved == \E i \in DOMAIN saved : WriteSaved(RemoveAt(saved, i))

(* Every edit is written to localStorage at once.                          *)
Edit ==
    /\ page = "builder" /\ Move /\ edits' = edits + 1
    /\ \E f \in Edited(form) : Persist(f)
    /\ UNCHANGED <<page, saved, submitting, savedStore, prefill, server, loads, clicks>>

(* ------------------------------ submitting ----------------------------- *)

Slots == 1..MaxClicks
NoSub == [next |-> "off", live |-> FALSE, strategy |-> None, universe |-> None,
          paper |-> FALSE, baseline |-> None]

Press(paper) ==
    /\ page = "builder" /\ ~submitting /\ clicks < MaxClicks
    /\ submitting' = TRUE /\ clicks' = clicks + 1
    /\ subs' = [subs EXCEPT ![clicks + 1] =
                   [next |-> "run", live |-> TRUE, strategy |-> Sent(form),
                    universe |-> form.universe, paper |-> paper, baseline |-> None]]
    /\ UNCHANGED <<page, form, saved, disk, runs, papers, edits, loads, faults>>

Submit == Press(FALSE)
SubmitAsPaper == Press(TRUE)

(* One request: refused, accepted, or accepted with its answer lost.       *)
Served(list, x, ok) ==
    \/ ok /\ list' = Append(list, x) /\ UNCHANGED faults
    \/ ~ok /\ list' = list /\ UNCHANGED faults
    \/ ~ok /\ list' = Append(list, x) /\ faults < MaxFaults /\ faults' = faults + 1

(* The paper route's proxy sends a request once more when the socket broke *)
(* (libs/fastapi.ts internalFetch), although the first may have been       *)
(* served.                                                                 *)
Resent(x, ok) ==
    /\ ok /\ faults < MaxFaults /\ faults' = faults + 1
    /\ papers' = papers \o <<x, x>>

(* A submission ends: success moves the router on, wherever the user is;   *)
(* failure gives the buttons back to the page that submitted, if it stands.*)
Arrive(ok, s) ==
    LET others == [subs EXCEPT ![s] = NoSub]
    IN  IF ok THEN Left /\ subs' = Orphaned(others)
        ELSE /\ subs' = others
             /\ submitting' = (submitting /\ ~subs[s].live)
             /\ UNCHANGED <<page, form, saved>>

(* The backtest, of a plain submission or as a paper strategy's baseline.  *)
RunAnswered(s) ==
    /\ subs[s].next = "run"
    /\ \E ok \in BOOLEAN :
        /\ Served(runs, [strategy |-> subs[s].strategy, universe |-> subs[s].universe], ok)
        /\ IF subs[s].paper
           THEN /\ subs' = [subs EXCEPT ![s].next = "paper",
                                        ![s].baseline = IF ok THEN Len(runs') ELSE None]
                /\ UNCHANGED tab
           ELSE Arrive(ok, s)
    /\ UNCHANGED <<disk, papers, edits, loads, clicks>>

(* What is sent for the paper strategy: the spec built at the press, with  *)
(* the baseline if there is one.                                           *)
PaperBody_Rebuilt(s) ==
    [strategy |-> IF page = "builder" THEN Sent(form) ELSE subs[s].strategy,
     universe |-> subs[s].universe, baseline |-> subs[s].baseline]

PaperBody(s) ==
    [strategy |-> subs[s].strategy, universe |-> subs[s].universe, baseline |-> subs[s].baseline]

PaperAnswered(s) ==
    /\ subs[s].next = "paper"
    /\ \E ok \in BOOLEAN :
        /\ Served(papers, PaperBody(s), ok) \/ Resent(PaperBody(s), ok)
        /\ Arrive(ok, s)
    /\ UNCHANGED <<disk, runs, edits, loads, clicks>>

(* ---------------------------- specification ---------------------------- *)

Init ==
    /\ page = "elsewhere" /\ form = None /\ saved = <<>> /\ submitting = FALSE
    /\ stored = <<>> /\ savedStore = <<>> /\ prefill = <<>> /\ lost = FALSE
    /\ subs = [s \in Slots |-> NoSub] /\ runs = <<>> /\ papers = <<>>
    /\ edits = 0 /\ loads = 0 /\ clicks = 0 /\ faults = 0

Next ==
    \/ Open \/ Remount \/ Leave \/ ApplyEdge
    \/ ApplyTemplate \/ Reset \/ LoadSavedStrategy \/ SaveCurrent \/ DeleteSaved
    \/ Edit
    \/ Submit \/ SubmitAsPaper
    \/ \E s \in Slots : RunAnswered(s) \/ PaperAnswered(s)

(* Every request is answered, if only with an error.                       *)
Fairness == \A s \in Slots : WF_vars(RunAnswered(s)) /\ WF_vars(PaperAnswered(s))

BuilderSpec == Init /\ [][Next]_vars /\ Fairness

(* ------------------------------ properties ----------------------------- *)

(* Types, and which state exists when.                                     *)
TypeOK ==
    /\ page \in {"builder", "elsewhere"} /\ (page = "elsewhere" => form = None /\ saved = <<>>)
    /\ submitting \in BOOLEAN /\ lost \in BOOLEAN
    /\ submitting => page = "builder"
    /\ Len(saved) <= SavedCap /\ Len(savedStore) <= SavedCap
    /\ Len(stored) <= 1 /\ Len(prefill) <= 1
    /\ \A s \in Slots : subs[s].next \in {"off", "run", "paper"}
    /\ edits + loads \in 0..MaxMoves
    /\ clicks \in 0..MaxClicks /\ faults \in 0..MaxFaults

(* Leaving or reloading the page at any moment and opening it again shows  *)
(* the same strategy, a taken-up hand-off included (the mount effect is    *)
(* "idempotent"), unless the browser refused a write.                      *)
ReloadShowsTheSame ==
    (page = "builder" /\ prefill = <<>> /\ ~lost) => form = LoadStored

(* A paper strategy and its baseline are the same strategy on the same     *)
(* markets, also when the user edits or leaves between the two requests,   *)
(* and no press of a button makes two of either, but for a paper strategy  *)
(* whose request the proxy sent twice.                                     *)
PaperMatchesBaseline ==
    /\ \A i \in DOMAIN papers : papers[i].baseline # None =>
            /\ runs[papers[i].baseline].strategy = papers[i].strategy
            /\ runs[papers[i].baseline].universe = papers[i].universe
    /\ Len(runs) <= clicks /\ Len(papers) <= clicks + faults
=============================================================================
