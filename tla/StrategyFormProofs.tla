------------------------- MODULE StrategyFormProofs -------------------------
(***************************************************************************)
(* Proofs about the page of the strategy builder, module StrategyForm, for *)
(* any forms, edits and bounds: what the browser keeps of the form, and    *)
(* what the two requests of a submission have to do with each other.       *)
(***************************************************************************)
EXTENDS StrategyForm, FiniteSetTheorems, SequenceTheorems, TLAPS

LEMMA FormSteps ==
  ASSUME [Next]_vars
  PROVE  \/ Open \/ Remount \/ Leave \/ ApplyEdge
         \/ ApplyTemplate \/ Reset \/ LoadSavedStrategy
         \/ SaveCurrent \/ DeleteSaved \/ Edit
         \/ Press(FALSE) \/ Press(TRUE)
         \/ \E s \in Slots : RunAnswered(s) \/ PaperAnswered(s)
         \/ UNCHANGED vars
  BY DEF Next, Submit, SubmitAsPaper

(* Leaving or reloading the page and opening it again shows the same form, *)
(* unless the browser refused a write: for any forms, any edits, and any   *)
(* submissions under way.                                                  *)
THEOREM ReloadIsHarmless == BuilderSpec => []ReloadShowsTheSame
  <1>1. Init => ReloadShowsTheSame
    BY DEF Init, ReloadShowsTheSame
  <1>2. ReloadShowsTheSame /\ [Next]_vars => ReloadShowsTheSame'
    <2> SUFFICES ASSUME ReloadShowsTheSame, [Next]_vars
                 PROVE  ReloadShowsTheSame'
      OBVIOUS
    <2>1. ASSUME NEW f, Persist(f)
          PROVE  ReloadShowsTheSame'
      BY <2>1 DEF Persist, Written, Refused, ReloadShowsTheSame, LoadStored
    <2>2. CASE Open \/ Remount
      <3>1. MountEffect
        BY <2>2 DEF Open, Remount
      <3>2. CASE prefill = <<>>
        BY <3>1, <3>2 DEF MountEffect, Written, ReloadShowsTheSame, LoadStored
      <3>3. CASE prefill # <<>>
        BY <2>1, <3>1, <3>3 DEF MountEffect
      <3>4. QED
        BY <3>2, <3>3
    <2>3. CASE Leave
      BY <2>3 DEF Leave, Left, ReloadShowsTheSame
    <2>4. CASE ApplyEdge
      BY <2>4 DEF ApplyEdge, tab, ReloadShowsTheSame
    <2>5. CASE ApplyTemplate \/ Reset \/ LoadSavedStrategy \/ Edit
      BY <2>1, <2>5 DEF ApplyTemplate, Reset, LoadSavedStrategy, Edit, Picked
    <2>6. CASE SaveCurrent \/ DeleteSaved
      <3>1. PICK list : WriteSaved(list)
        BY <2>6 DEF SaveCurrent, DeleteSaved
      <3>2. QED
        BY <3>1 DEF WriteSaved, Written, Refused, ReloadShowsTheSame, LoadStored
    <2>7. CASE \E paper \in BOOLEAN : Press(paper)
      BY <2>7 DEF Press, disk, ReloadShowsTheSame, LoadStored
    <2>8. CASE \E s \in Slots : RunAnswered(s) \/ PaperAnswered(s)
      <3>1. UNCHANGED disk
        BY <2>8 DEF RunAnswered, PaperAnswered
      <3>2. UNCHANGED <<page, form>> \/ page' = "elsewhere"
        BY <2>8 DEF RunAnswered, PaperAnswered, Arrive, Left, tab
      <3>3. QED
        BY <3>1, <3>2 DEF disk, ReloadShowsTheSame, LoadStored
    <2>9. CASE UNCHANGED vars
      BY <2>9 DEF vars, tab, disk, ReloadShowsTheSame, LoadStored
    <2>10. QED
      BY <2>2, <2>3, <2>4, <2>5, <2>6, <2>7, <2>8, <2>9, FormSteps
  <1>3. QED
    BY <1>1, <1>2, PTL DEF BuilderSpec

-----------------------------------------------------------------------------
(* A submission's record and the requests it still owes.                   *)
RecShape(r) ==
    r = [next |-> r.next, live |-> r.live, strategy |-> r.strategy,
         universe |-> r.universe, paper |-> r.paper, baseline |-> r.baseline]
SubShape(s) ==
    /\ RecShape(subs[s])
    /\ subs[s].next \in {"off", "run", "paper"} /\ subs[s].paper \in BOOLEAN
    /\ s > clicks => subs[s].next = "off"

OwesRun(s) == subs[s].next = "run"
OwesPaper(s) == subs[s].next = "paper" \/ (subs[s].next = "run" /\ subs[s].paper)
RunsDue == {s \in Slots : OwesRun(s)}
PapersDue == {s \in Slots : OwesPaper(s)}

(* A baseline is a run of the same strategy on the same markets.           *)
RunOf(b, strategy, universe) ==
    b # None => b \in DOMAIN runs /\ runs[b].strategy = strategy
                                  /\ runs[b].universe = universe
SubRun(s) ==
    subs[s].next = "paper" => RunOf(subs[s].baseline, subs[s].strategy, subs[s].universe)
PaperRun(i) == RunOf(papers[i].baseline, papers[i].strategy, papers[i].universe)

SubsOK ==
    /\ DOMAIN subs = Slots /\ subs = [s \in Slots |-> subs[s]]
    /\ \A s \in Slots : SubShape(s) /\ SubRun(s)

ListsOK ==
    /\ \E S : runs \in Seq(S)
    /\ \E S : papers \in Seq(S)
    /\ \A i \in DOMAIN papers : PaperRun(i)

(* What was made and what is still owed were asked for by a click each.    *)
AskedFor ==
    /\ clicks \in Nat /\ faults \in Nat
    /\ Len(runs) + Cardinality(RunsDue) <= clicks
    /\ Len(papers) + Cardinality(PapersDue) <= clicks + faults

SubmitInv == SubsOK /\ ListsOK /\ AskedFor

LEMMA DueAreFinite ==
  /\ IsFiniteSet(RunsDue) /\ Cardinality(RunsDue) \in Nat
  /\ IsFiniteSet(PapersDue) /\ Cardinality(PapersDue) \in Nat
  <1>1. IsFiniteSet(Slots)
    BY StrategyFormAssumption, FS_Interval DEF Slots
  <1>2. IsFiniteSet(RunsDue) /\ IsFiniteSet(PapersDue)
    <2>1. RunsDue \in SUBSET Slots /\ PapersDue \in SUBSET Slots
      BY DEF RunsDue, PapersDue
    <2>2. QED
      BY <1>1, <2>1, FS_Subset
  <1>3. QED
    BY <1>2, FS_CardinalityType

LEMMA Appended ==
  ASSUME NEW q, \E S : q \in Seq(S), NEW x
  PROVE  /\ \E S : Append(q, x) \in Seq(S)
         /\ Len(q) \in Nat /\ DOMAIN q = 1..Len(q)
         /\ Len(Append(q, x)) = Len(q) + 1
         /\ DOMAIN Append(q, x) = 1..(Len(q) + 1)
         /\ \A i \in DOMAIN q : Append(q, x)[i] = q[i]
         /\ Append(q, x)[Len(q) + 1] = x
  <1>1. PICK S : q \in Seq(S)
    OBVIOUS
  <1>2. q \in Seq(S \cup {x})
    BY <1>1
  <1>3. Append(q, x) \in Seq(S \cup {x})
    BY <1>2
  <1>4. QED
    BY <1>2, <1>3, AppendProperties

(* The runs only grow, so a baseline stays what it was.                    *)
RunsGrow == runs' = runs \/ \E x : runs' = Append(runs, x)

LEMMA RunsStay ==
  ASSUME ListsOK, RunsGrow
  PROVE  \A b \in DOMAIN runs : b \in DOMAIN runs' /\ runs'[b] = runs[b]
  <1>1. \A x : /\ DOMAIN runs = 1..Len(runs) /\ Len(runs) \in Nat
               /\ DOMAIN Append(runs, x) = 1..(Len(runs) + 1)
               /\ \A i \in DOMAIN runs : Append(runs, x)[i] = runs[i]
    BY Appended DEF ListsOK
  <1>2. CASE runs' = runs
    BY <1>2
  <1>3. CASE \E x : runs' = Append(runs, x)
    <2>1. PICK x : runs' = Append(runs, x)
      BY <1>3
    <2>2. QED
      BY <1>1, <2>1
  <1>4. QED
    BY <1>2, <1>3 DEF RunsGrow

(* Submission t is as it was, but for the page it may have lost.           *)
Kept(t) ==
    /\ RecShape(subs'[t])
    /\ subs'[t].next = subs[t].next /\ subs'[t].paper = subs[t].paper
    /\ subs'[t].strategy = subs[t].strategy /\ subs'[t].universe = subs[t].universe
    /\ subs'[t].baseline = subs[t].baseline

LEMMA KeptIsOK ==
  ASSUME SubsOK, ListsOK, RunsGrow, NEW t \in Slots, Kept(t),
         clicks \in Nat, clicks' \in Nat, clicks' >= clicks, t \in Nat
  PROVE  SubShape(t)' /\ SubRun(t)' /\ OwesRun(t)' = OwesRun(t) /\ OwesPaper(t)' = OwesPaper(t)
  <1>1. SubShape(t) /\ SubRun(t)
    BY DEF SubsOK
  <1>2. SubShape(t)'
    BY <1>1 DEF SubShape, Kept
  <1>3. SubRun(t)'
    BY <1>1, RunsStay DEF SubRun, RunOf, Kept
  <1>4. QED
    BY <1>2, <1>3 DEF Kept, OwesRun, OwesPaper

(* Leaving the page takes nothing from a submission but the page.          *)
LEMMA OrphansKeep ==
  ASSUME NEW ss, DOMAIN ss = Slots, NEW t \in Slots, RecShape(ss[t]),
         NEW r, r = Orphaned(ss)[t]
  PROVE  /\ RecShape(r) /\ r.next = ss[t].next /\ r.paper = ss[t].paper
         /\ r.strategy = ss[t].strategy /\ r.universe = ss[t].universe
         /\ r.baseline = ss[t].baseline
  BY DEF RecShape, Orphaned

(* A submission that ends owes nothing; the others stand.                  *)
LEMMA ArriveEnds ==
  ASSUME SubsOK, NEW s \in Slots, NEW ok \in BOOLEAN, Arrive(ok, s)
  PROVE  /\ DOMAIN subs' = Slots /\ subs' = [t \in Slots |-> subs'[t]]
         /\ RecShape(subs'[s]) /\ subs'[s].next = "off" /\ subs'[s].paper \in BOOLEAN
         /\ \A t \in Slots \ {s} : Kept(t)
  <1> DEFINE others == [subs EXCEPT ![s] = NoSub]
  <1>1. /\ DOMAIN others = Slots /\ others = [t \in Slots |-> others[t]]
        /\ others[s] = NoSub /\ \A t \in Slots \ {s} : others[t] = subs[t]
    BY DEF SubsOK
  <1>2. \A t \in Slots : RecShape(others[t])
    BY <1>1 DEF SubsOK, SubShape, RecShape, NoSub
  <1>3. others[s].next = "off" /\ others[s].paper = FALSE
    BY <1>1 DEF NoSub
  <1>4. subs' = others \/ subs' = Orphaned(others)
    BY DEF Arrive
  <1> HIDE DEF others
  <1>5. CASE subs' = others
    BY <1>1, <1>2, <1>3, <1>5 DEF Kept
  <1>6. CASE subs' = Orphaned(others)
    <2>1. DOMAIN subs' = Slots /\ subs' = [t \in Slots |-> subs'[t]]
      BY <1>1, <1>6 DEF Orphaned
    <2>2. \A t \in Slots :
              /\ RecShape(subs'[t]) /\ subs'[t].next = others[t].next
              /\ subs'[t].paper = others[t].paper /\ subs'[t].strategy = others[t].strategy
              /\ subs'[t].universe = others[t].universe
              /\ subs'[t].baseline = others[t].baseline
      BY <1>1, <1>2, <1>6, OrphansKeep
    <2>3. QED
      BY <1>1, <1>3, <2>1, <2>2 DEF Kept
  <1>7. QED
    BY <1>4, <1>5, <1>6

LEMMA SubmitInit ==
  ASSUME Init
  PROVE  SubmitInv
  <1>1. SubsOK
    BY DEF Init, NoSub, SubsOK, SubShape, RecShape, SubRun
  <1>2. ListsOK
    <2>1. <<>> \in Seq({})
      OBVIOUS
    <2>2. QED
      BY <2>1 DEF Init, ListsOK
  <1>3. RunsDue = {} /\ PapersDue = {}
    BY DEF Init, NoSub, RunsDue, PapersDue, OwesRun, OwesPaper
  <1>4. QED
    BY <1>1, <1>2, <1>3, FS_EmptySet DEF SubmitInv, AskedFor, Init

(* Steps that touch no submission and no list.                             *)
FaultsGrow == faults' = faults \/ faults' = faults + 1

LEMMA QuietSteps ==
  ASSUME SubmitInv, UNCHANGED <<subs, runs, papers, clicks>>, FaultsGrow
  PROVE  SubmitInv'
  <1>1. SubsOK'
    BY DEF SubmitInv, SubsOK, SubShape, SubRun, RunOf
  <1>2. ListsOK'
    BY DEF SubmitInv, ListsOK, PaperRun, RunOf
  <1>3. RunsDue' = RunsDue /\ PapersDue' = PapersDue
    BY DEF RunsDue, PapersDue, OwesRun, OwesPaper
  <1>4. faults' \in Nat /\ faults' >= faults
    BY DEF SubmitInv, AskedFor, FaultsGrow
  <1>5. Len(papers) \in Nat
    BY DEF SubmitInv, ListsOK
  <1>6. Cardinality(RunsDue)' = Cardinality(RunsDue)
        /\ Cardinality(PapersDue)' = Cardinality(PapersDue)
    BY <1>3
  <1>7. Cardinality(RunsDue) \in Nat /\ Cardinality(PapersDue) \in Nat
    BY DueAreFinite
  <1>8. /\ clicks \in Nat /\ faults \in Nat
        /\ Len(runs) + Cardinality(RunsDue) <= clicks
        /\ Len(papers) + Cardinality(PapersDue) <= clicks + faults
    BY DEF SubmitInv, AskedFor
  <1>9. AskedFor'
    BY <1>4, <1>5, <1>6, <1>7, <1>8 DEF AskedFor
  <1>10. QED
    BY <1>1, <1>2, <1>9 DEF SubmitInv

LEMMA LeaveStep ==
  ASSUME SubmitInv, Leave
  PROVE  SubmitInv'
  <1>1. subs' = Orphaned(subs) /\ UNCHANGED <<runs, papers, clicks, faults>>
    BY DEF Leave, bounds
  <1>2. DOMAIN subs = Slots /\ \A t \in Slots : SubShape(t) /\ t \in Nat
    BY DEF SubmitInv, SubsOK, Slots
  <1>3. \A t \in Slots : Kept(t)
    BY <1>1, <1>2, OrphansKeep DEF SubShape, Kept
  <1>4. RunsGrow
    BY <1>1 DEF RunsGrow
  <1>5. \A t \in Slots : /\ SubShape(t)' /\ SubRun(t)'
                              /\ OwesRun(t)' = OwesRun(t) /\ OwesPaper(t)' = OwesPaper(t)
    BY <1>1, <1>2, <1>3, <1>4, KeptIsOK DEF SubmitInv, AskedFor
  <1>6. SubsOK'
    <2>1. DOMAIN subs' = Slots /\ subs' = [s \in Slots |-> subs'[s]]
      BY <1>1, <1>2 DEF Orphaned
    <2>2. QED
      BY <1>5, <2>1 DEF SubsOK
  <1>7. ListsOK'
    BY <1>1 DEF SubmitInv, ListsOK, PaperRun, RunOf
  <1>8. RunsDue' = RunsDue /\ PapersDue' = PapersDue
    BY <1>5 DEF RunsDue, PapersDue
  <1>9. AskedFor'
    BY <1>1, <1>8 DEF SubmitInv, AskedFor
  <1>10. QED
    BY <1>6, <1>7, <1>9 DEF SubmitInv

LEMMA PressStep ==
  ASSUME SubmitInv, NEW paper \in BOOLEAN, Press(paper)
  PROVE  SubmitInv'
  <1>0. PICK s : s = clicks + 1
    OBVIOUS
  <1>1. /\ UNCHANGED <<runs, papers, faults>> /\ clicks' = s /\ clicks < MaxClicks
        /\ subs' = [subs EXCEPT ![s] =
                   [next |-> "run", live |-> TRUE, strategy |-> Sent(form),
                    universe |-> form.universe, paper |-> paper, baseline |-> None]]
    BY <1>0 DEF Press
  <1>2. clicks \in Nat /\ clicks' \in Nat /\ clicks' >= clicks /\ s \in Slots
    BY StrategyFormAssumption, <1>0, <1>1 DEF SubmitInv, AskedFor, Slots
  <1>3. \A t \in Slots : SubShape(t) /\ SubRun(t) /\ t \in Nat
    BY DEF SubmitInv, SubsOK, Slots
  <1>4. /\ DOMAIN subs' = Slots /\ subs' = [t \in Slots |-> subs'[t]]
        /\ \A t \in Slots \ {s} : subs'[t] = subs[t]
        /\ subs'[s] = [next |-> "run", live |-> TRUE, strategy |-> Sent(form),
                    universe |-> form.universe, paper |-> paper, baseline |-> None]
    BY <1>1, <1>2 DEF SubmitInv, SubsOK
  <1>5. subs[s].next = "off"
    BY <1>0, <1>2, <1>3 DEF SubShape
  <1>6. RecShape(subs'[s]) /\ subs'[s].next = "run" /\ subs'[s].paper = paper
    BY <1>4 DEF RecShape
  <1>7. clicks' = s /\ s = clicks + 1
    BY <1>0, <1>1
  <1>8. SubShape(s)' /\ SubRun(s)'
    BY <1>2, <1>6, <1>7 DEF SubShape, SubRun
  <1>9. \A t \in Slots \ {s} : Kept(t)
    BY <1>3, <1>4 DEF Kept, SubShape
  <1>10. \A t \in Slots \ {s} : /\ SubShape(t)' /\ SubRun(t)'
                              /\ OwesRun(t)' = OwesRun(t) /\ OwesPaper(t)' = OwesPaper(t)
    <2>1. RunsGrow
      BY <1>1 DEF RunsGrow
    <2>2. QED
      BY <1>2, <1>3, <1>9, <2>1, KeptIsOK DEF SubmitInv
  <1>11. SubsOK'
    BY <1>4, <1>8, <1>10 DEF SubsOK
  <1>12. ListsOK'
    BY <1>1 DEF SubmitInv, ListsOK, PaperRun, RunOf
  <1>13. s \notin RunsDue /\ s \notin PapersDue
    BY <1>5 DEF RunsDue, PapersDue, OwesRun, OwesPaper
  <1>14. RunsDue' = RunsDue \cup {s}
    BY <1>2, <1>6, <1>10 DEF RunsDue, OwesRun
  <1>15. PapersDue' = PapersDue \cup {s} \/ PapersDue' = PapersDue
    BY <1>2, <1>6, <1>10, <1>13 DEF PapersDue, OwesPaper
  <1>16. /\ IsFiniteSet(RunsDue) /\ Cardinality(RunsDue) \in Nat
         /\ IsFiniteSet(PapersDue) /\ Cardinality(PapersDue) \in Nat
    BY DueAreFinite
  <1>17. /\ Cardinality(RunsDue)' = Cardinality(RunsDue) + 1
         /\ Cardinality(PapersDue)' \in {Cardinality(PapersDue), Cardinality(PapersDue) + 1}
    BY <1>13, <1>14, <1>15, <1>16, FS_AddElement
  <1>18. Len(runs) \in Nat /\ Len(papers) \in Nat
    BY DEF SubmitInv, ListsOK
  <1>19. AskedFor'
    BY <1>1, <1>2, <1>7, <1>16, <1>17, <1>18 DEF SubmitInv, AskedFor
  <1>20. QED
    BY <1>11, <1>12, <1>19 DEF SubmitInv

(* After submission s was answered: it owes less, the others the same.     *)
Answered(s) ==
    /\ DOMAIN subs' = Slots /\ subs' = [t \in Slots |-> subs'[t]]
    /\ RecShape(subs'[s]) /\ subs'[s].paper \in BOOLEAN
    /\ subs'[s].next = "off" \/ (subs'[s].next = "paper" /\ subs[s].paper)
    /\ \A t \in Slots \ {s} : Kept(t)

LEMMA AnsweredSubs ==
  ASSUME SubmitInv, RunsGrow, NEW s \in Slots,
         Answered(s), clicks' = clicks, subs[s].next # "off", SubRun(s)'
  PROVE  /\ SubsOK'
         /\ RunsDue' \in {RunsDue, RunsDue \ {s}}
         /\ PapersDue' \in {PapersDue, PapersDue \ {s}}
         /\ subs[s].next = "run" => RunsDue' = RunsDue \ {s} /\ s \in RunsDue
         /\ subs'[s].next = "off" => PapersDue' = PapersDue \ {s}
  <1>1. \A t \in Slots : SubShape(t) /\ SubRun(t) /\ t \in Nat
    BY DEF SubmitInv, SubsOK, Slots
  <1>2. clicks \in Nat /\ clicks' \in Nat /\ clicks' >= clicks
    BY DEF SubmitInv, AskedFor
  <1>3. \A t \in Slots \ {s} : /\ SubShape(t)' /\ SubRun(t)'
                              /\ OwesRun(t)' = OwesRun(t) /\ OwesPaper(t)' = OwesPaper(t)
    BY <1>1, <1>2, KeptIsOK DEF SubmitInv, Answered
  <1>4. SubShape(s)'
    BY <1>1 DEF SubShape, Answered
  <1>5. SubsOK'
    BY <1>3, <1>4 DEF SubsOK, Answered
  <1>6. ~OwesRun(s)' /\ (OwesPaper(s)' => OwesPaper(s))
    BY <1>1 DEF Answered, OwesRun, OwesPaper, SubShape
  <1>7. RunsDue' = RunsDue \ {s}
    BY <1>3, <1>6 DEF RunsDue
  <1>8. PapersDue' \in {PapersDue, PapersDue \ {s}}
    <2>1. CASE OwesPaper(s)'
      <3>1. PapersDue' = PapersDue
        BY <1>3, <1>6, <2>1 DEF PapersDue
      <3>2. QED
        BY <3>1
    <2>2. CASE ~OwesPaper(s)'
      <3>1. PapersDue' = PapersDue \ {s}
        BY <1>3, <2>2 DEF PapersDue
      <3>2. QED
        BY <3>1
    <2>3. QED
      BY <2>1, <2>2
  <1>9. subs[s].next = "run" => s \in RunsDue
    BY DEF RunsDue, OwesRun
  <1>10. subs'[s].next = "off" => PapersDue' = PapersDue \ {s}
    BY <1>3 DEF PapersDue, OwesPaper
  <1>11. QED
    BY <1>5, <1>7, <1>8, <1>9, <1>10

LEMMA RunAnsweredStep ==
  ASSUME SubmitInv, NEW s \in Slots, RunAnswered(s)
  PROVE  SubmitInv'
  <1> DEFINE x == [strategy |-> subs[s].strategy, universe |-> subs[s].universe]
  <1>1. PICK ok \in BOOLEAN :
          /\ Served(runs, x, ok)
          /\ IF subs[s].paper
             THEN subs' = [subs EXCEPT ![s].next = "paper",
                                       ![s].baseline = IF ok THEN Len(runs') ELSE None]
             ELSE Arrive(ok, s)
    BY DEF RunAnswered
  <1>2. subs[s].next = "run" /\ papers' = papers /\ clicks' = clicks
    BY DEF RunAnswered
  <1>3. runs' = runs \/ runs' = Append(runs, x)
    BY <1>1 DEF Served
  <1>4. RunsGrow /\ FaultsGrow
    BY <1>1, <1>3 DEF Served, RunsGrow, FaultsGrow
  <1>5. SubShape(s) /\ DOMAIN subs = Slots /\ SubsOK
        /\ \A t \in Slots : RecShape(subs[t])
    BY DEF SubmitInv, SubsOK, SubShape
  <1>6. /\ Len(runs) \in Nat /\ Len(runs') \in {Len(runs), Len(runs) + 1}
        /\ \E S : runs' \in Seq(S)
        /\ ok => Len(runs') \in DOMAIN runs' /\ runs'[Len(runs')] = x
    <2>1. /\ \E S : Append(runs, x) \in Seq(S) /\ Len(runs) \in Nat
          /\ Len(Append(runs, x)) = Len(runs) + 1
          /\ DOMAIN Append(runs, x) = 1..(Len(runs) + 1)
          /\ Append(runs, x)[Len(runs) + 1] = x
      BY Appended DEF SubmitInv, ListsOK
    <2>2. ok => runs' = Append(runs, x)
      BY <1>1 DEF Served
    <2> HIDE DEF x
    <2>3. \E S : runs \in Seq(S)
      BY DEF SubmitInv, ListsOK
    <2>4. CASE runs' = runs
      BY <2>1, <2>2, <2>3, <2>4
    <2>5. CASE runs' = Append(runs, x)
      BY <2>1, <2>5
    <2>6. QED
      BY <1>3, <2>4, <2>5
  <1>7. Answered(s) /\ SubRun(s)'
    <2>1. CASE subs[s].paper
      <3>1. subs' = [subs EXCEPT ![s].next = "paper",
                                 ![s].baseline = IF ok THEN Len(runs') ELSE None]
        BY <1>1, <2>1
      <3>2. /\ DOMAIN subs' = Slots /\ subs' = [t \in Slots |-> subs'[t]]
            /\ \A t \in Slots \ {s} : subs'[t] = subs[t]
        BY <3>1, <1>5 DEF SubsOK
      <3>3. PICK b : b = IF ok THEN Len(runs') ELSE None
        OBVIOUS
      <3>4. /\ RecShape(subs'[s]) /\ subs'[s].next = "paper" /\ subs'[s].paper = subs[s].paper
            /\ subs'[s].baseline = IF ok THEN Len(runs') ELSE None
            /\ subs'[s].strategy = x.strategy /\ subs'[s].universe = x.universe
        <4>1. PICK r, r2 : r = subs[s] /\ r2 = [r EXCEPT !.next = "paper", !.baseline = b]
          OBVIOUS
        <4>2. r2 = subs'[s]
          BY <3>1, <3>3, <4>1, <1>5
        <4>3. r = [next |-> r.next, live |-> r.live, strategy |-> r.strategy,
                   universe |-> r.universe, paper |-> r.paper, baseline |-> r.baseline]
          BY <1>5, <4>1 DEF RecShape
        <4>4. /\ r2 = [next |-> r2.next, live |-> r2.live, strategy |-> r2.strategy,
                       universe |-> r2.universe, paper |-> r2.paper, baseline |-> r2.baseline]
              /\ r2.next = "paper" /\ r2.paper = r.paper /\ r2.baseline = b
              /\ r2.strategy = r.strategy /\ r2.universe = r.universe
          BY <4>1, <4>3
        <4>5. QED
          BY <3>3, <4>1, <4>2, <4>4 DEF RecShape
      <3>5. Answered(s)
        BY <1>5, <2>1, <3>2, <3>4 DEF Answered, Kept, SubShape
      <3>6. SubRun(s)'
        BY <1>6, <3>4 DEF SubRun, RunOf
      <3>7. QED
        BY <3>5, <3>6
    <2>2. CASE ~subs[s].paper
      BY <1>1, <1>5, <2>2, ArriveEnds DEF Answered, SubRun
    <2>3. QED
      BY <2>1, <2>2
  <1>8. SubsOK' /\ RunsDue' = RunsDue \ {s} /\ s \in RunsDue
        /\ PapersDue' \in {PapersDue, PapersDue \ {s}}
    BY <1>2, <1>4, <1>7, AnsweredSubs
  <1>9. ListsOK'
    BY <1>2, <1>4, <1>6, RunsStay DEF SubmitInv, ListsOK, PaperRun, RunOf
  <1>10. AskedFor'
    <2>1. /\ IsFiniteSet(RunsDue) /\ Cardinality(RunsDue) \in Nat
          /\ IsFiniteSet(PapersDue) /\ Cardinality(PapersDue) \in Nat
      BY DueAreFinite
    <2>2. /\ Cardinality(RunsDue)' = Cardinality(RunsDue) - 1
          /\ Cardinality(PapersDue)' \in {Cardinality(PapersDue), Cardinality(PapersDue) - 1}
      BY <1>8, <2>1, FS_RemoveElement
    <2>3. Len(papers) \in Nat
      BY DEF SubmitInv, ListsOK
    <2>4. /\ clicks \in Nat /\ faults \in Nat
          /\ Len(runs) + Cardinality(RunsDue) <= clicks
          /\ Len(papers) + Cardinality(PapersDue) <= clicks + faults
      BY DEF SubmitInv, AskedFor
    <2>5. Len(runs') + Cardinality(RunsDue)' <= clicks'
      BY <1>2, <1>6, <2>1, <2>2, <2>4
    <2>6. faults' \in Nat /\ faults' >= faults
      BY <1>4, <2>4 DEF FaultsGrow
    <2>7. Len(papers') + Cardinality(PapersDue)' <= clicks' + faults'
      <3>1. /\ Cardinality(PapersDue)' \in Int
            /\ Cardinality(PapersDue)' <= Cardinality(PapersDue)
        BY <2>1, <2>2
      <3>2. Len(papers') = Len(papers) /\ clicks' = clicks
        BY <1>2
      <3>3. QED
        BY <2>1, <2>3, <2>4, <2>6, <3>1, <3>2
    <2>8. QED
      BY <1>2, <2>4, <2>5, <2>6, <2>7 DEF AskedFor
  <1>11. QED
    BY <1>8, <1>9, <1>10 DEF SubmitInv

LEMMA PaperAnsweredStep ==
  ASSUME SubmitInv, NEW s \in Slots, PaperAnswered(s)
  PROVE  SubmitInv'
  <1> DEFINE x == PaperBody(s)
  <1>1. PICK ok \in BOOLEAN :
          /\ Served(papers, x, ok) \/ Resent(x, ok)
          /\ Arrive(ok, s)
    BY DEF PaperAnswered
  <1>2. subs[s].next = "paper" /\ runs' = runs /\ clicks' = clicks
    BY DEF PaperAnswered
  <1>3. RunsGrow /\ FaultsGrow
    BY <1>1, <1>2 DEF Served, Resent, RunsGrow, FaultsGrow
  <1>4. SubsOK /\ SubRun(s)
    BY DEF SubmitInv, SubsOK
  <1>5. Answered(s) /\ SubRun(s)' /\ subs'[s].next = "off"
    BY <1>1, <1>4, ArriveEnds DEF Answered, SubRun
  <1>6. SubsOK' /\ RunsDue' \in {RunsDue, RunsDue \ {s}} /\ PapersDue' = PapersDue \ {s}
    BY <1>2, <1>3, <1>5, AnsweredSubs
  <1>7. s \in PapersDue
    BY <1>2 DEF PapersDue, OwesPaper
  <1>8. RunOf(x.baseline, x.strategy, x.universe)
    BY <1>2, <1>4 DEF PaperBody, SubRun
  <1> HIDE DEF x
  <1>9. /\ Len(papers) \in Nat /\ \E S : papers' \in Seq(S)
        /\ \/ Len(papers') \in {Len(papers), Len(papers) + 1}
           \/ Len(papers') = Len(papers) + 2 /\ faults' = faults + 1
        /\ \A i \in DOMAIN papers' :
              (i \in DOMAIN papers /\ papers'[i] = papers[i]) \/ papers'[i] = x
    <2>1. PICK S : papers \in Seq(S)
      BY DEF SubmitInv, ListsOK
    <2>2. papers \in Seq(S \cup {x}) /\ x \in S \cup {x}
      BY <2>1
    <2>3. CASE Served(papers, x, ok)
      BY <2>2, <2>3, AppendProperties DEF Served
    <2>4. CASE Resent(x, ok)
      <3>1. papers' = papers \o <<x, x>> /\ faults' = faults + 1
        BY <2>4 DEF Resent
      <3>2. <<x, x>> \in Seq(S \cup {x}) /\ Len(<<x, x>>) = 2
            /\ <<x, x>>[1] = x /\ <<x, x>>[2] = x
        BY <2>2
      <3>3. /\ papers' \in Seq(S \cup {x}) /\ Len(papers') = Len(papers) + 2
            /\ Len(papers) \in Nat
            /\ \A i \in 1..(Len(papers) + 2) : papers'[i] =
                 IF i <= Len(papers) THEN papers[i] ELSE <<x, x>>[i - Len(papers)]
        BY <2>2, <3>1, <3>2, ConcatProperties
      <3>4. \A i \in DOMAIN papers' :
              (i \in DOMAIN papers /\ papers'[i] = papers[i]) \/ papers'[i] = x
        <4>1. TAKE i \in DOMAIN papers'
        <4>2. i \in 1..(Len(papers) + 2)
          BY <3>3
        <4>3. CASE i <= Len(papers)
          BY <2>2, <3>3, <4>2, <4>3
        <4>4. CASE i > Len(papers)
          <5>1. i - Len(papers) = 1 \/ i - Len(papers) = 2
            BY <3>3, <4>2, <4>4
          <5>2. papers'[i] = <<x, x>>[i - Len(papers)]
            BY <3>3, <4>2, <4>4
          <5>3. QED
            BY <3>2, <5>1, <5>2
        <4>5. QED
          BY <3>3, <4>2, <4>3, <4>4
      <3>5. QED
        BY <3>1, <3>3, <3>4
    <2>5. QED
      BY <1>1, <2>3, <2>4
  <1>10. ListsOK'
    <2>1. RunOf(x.baseline, x.strategy, x.universe)
             => \A y : y = x => RunOf(y.baseline, y.strategy, y.universe)
      OBVIOUS
    <2>2. \A i \in DOMAIN papers' :
            RunOf(papers'[i].baseline, papers'[i].strategy, papers'[i].universe)
      BY <1>8, <1>9, <2>1 DEF SubmitInv, ListsOK, PaperRun
    <2>3. QED
      BY <1>2, <1>9, <2>2 DEF SubmitInv, ListsOK, PaperRun, RunOf
  <1>11. AskedFor'
    <2>1. /\ IsFiniteSet(RunsDue) /\ Cardinality(RunsDue) \in Nat
          /\ IsFiniteSet(PapersDue) /\ Cardinality(PapersDue) \in Nat
      BY DueAreFinite
    <2>2. /\ Cardinality(RunsDue)' \in {Cardinality(RunsDue), Cardinality(RunsDue) - 1}
          /\ Cardinality(PapersDue)' = Cardinality(PapersDue) - 1
      BY <1>6, <1>7, <2>1, FS_RemoveElement
    <2>3. Len(runs) \in Nat
      BY DEF SubmitInv, ListsOK
    <2>4. /\ clicks \in Nat /\ faults \in Nat
          /\ Len(runs) + Cardinality(RunsDue) <= clicks
          /\ Len(papers) + Cardinality(PapersDue) <= clicks + faults
      BY DEF SubmitInv, AskedFor
    <2>5. Len(runs') + Cardinality(RunsDue)' <= clicks'
      BY <1>2, <2>1, <2>2, <2>3, <2>4
    <2>6. faults' \in Nat /\ faults' >= faults /\ Len(papers) \in Nat
      BY <1>3, <1>9, <2>4 DEF FaultsGrow
    <2>7. CASE Len(papers') \in {Len(papers), Len(papers) + 1}
      BY <1>2, <2>1, <2>2, <2>4, <2>5, <2>6, <2>7 DEF AskedFor
    <2>8. CASE Len(papers') = Len(papers) + 2 /\ faults' = faults + 1
      BY <1>2, <2>1, <2>2, <2>4, <2>5, <2>6, <2>8 DEF AskedFor
    <2>9. QED
      BY <1>9, <2>7, <2>8
  <1>12. QED
    BY <1>6, <1>10, <1>11 DEF SubmitInv

LEMMA SubmitStep ==
  ASSUME SubmitInv, [Next]_vars
  PROVE  SubmitInv'
  <1>1. CASE \/ Open \/ Remount \/ ApplyEdge
             \/ ApplyTemplate \/ Reset \/ LoadSavedStrategy
             \/ SaveCurrent \/ DeleteSaved \/ Edit
    <2>1. UNCHANGED <<subs, runs, papers, clicks>>
      BY <1>1 DEF Open, Remount, ApplyEdge, ApplyTemplate, Reset,
           LoadSavedStrategy, SaveCurrent, DeleteSaved, Edit,
           Picked, WriteSaved, server, bounds
    <2>2. FaultsGrow
      BY <1>1 DEF Open, Remount, ApplyEdge, ApplyTemplate, Reset,
           LoadSavedStrategy, SaveCurrent, DeleteSaved, Edit,
           Picked, WriteSaved, MountEffect, Persist, Written,
           Refused, bounds, FaultsGrow
    <2>3. QED
      BY <2>1, <2>2, QuietSteps
  <1>2. CASE Leave
    BY <1>2, LeaveStep
  <1>3. CASE Press(FALSE) \/ Press(TRUE)
    BY <1>3, PressStep
  <1>4. CASE \E s \in Slots : RunAnswered(s) \/ PaperAnswered(s)
    BY <1>4, RunAnsweredStep, PaperAnsweredStep
  <1>5. CASE UNCHANGED vars
    BY <1>5, QuietSteps DEF vars, server, bounds, FaultsGrow
  <1>6. QED
    BY <1>1, <1>2, <1>3, <1>4, <1>5, FormSteps

(* A paper strategy and its baseline are the same strategy on the same     *)
(* markets, whatever the user does between the two requests, and no press  *)
(* of a button makes two of either but for a request the proxy sent twice: *)
(* for any number of submissions and of faults.                            *)
THEOREM PaperMatchesItsBaseline == BuilderSpec => []PaperMatchesBaseline
  <1>1. Init => SubmitInv
    BY SubmitInit
  <1>2. SubmitInv /\ [Next]_vars => SubmitInv'
    BY SubmitStep
  <1>3. SubmitInv => PaperMatchesBaseline
    <2> SUFFICES ASSUME SubmitInv
                 PROVE  PaperMatchesBaseline
      OBVIOUS
    <2>1. /\ Cardinality(RunsDue) \in Nat /\ Cardinality(PapersDue) \in Nat
          /\ Len(runs) \in Nat /\ Len(papers) \in Nat
      BY DueAreFinite DEF SubmitInv, ListsOK
    <2>2. Len(runs) <= clicks /\ Len(papers) <= clicks + faults
      BY <2>1 DEF SubmitInv, AskedFor
    <2>3. QED
      BY <2>2 DEF SubmitInv, ListsOK, PaperRun, RunOf, PaperMatchesBaseline
  <1>4. QED
    BY <1>1, <1>2, <1>3, PTL DEF BuilderSpec

-----------------------------------------------------------------------------
(* The types of the page, its storage and its counters.                    *)
PageTypes ==
    /\ page \in {"builder", "elsewhere"} /\ submitting \in BOOLEAN
    /\ page = "elsewhere" => form = None /\ saved = <<>> /\ submitting = FALSE
DiskTypes ==
    /\ lost \in BOOLEAN
    /\ stored = <<>> \/ \E f : stored = <<f>>
    /\ prefill = <<>> \/ \E f : prefill = <<f>>
ListTypes ==
    /\ \E S : saved \in Seq(S) /\ savedStore \in Seq(S)
    /\ Len(saved) <= SavedCap /\ Len(savedStore) <= SavedCap
BoundTypes ==
    /\ edits \in Nat /\ loads \in Nat /\ edits + loads <= MaxMoves
    /\ clicks \in 0..MaxClicks /\ faults \in 0..MaxFaults
FormTypes == PageTypes /\ DiskTypes /\ ListTypes /\ BoundTypes

(* What keeping a form, or a list of saved strategies, does to the types.  *)
LEMMA PersistTypes ==
  ASSUME FormTypes, NEW f, Persist(f)
  PROVE  /\ lost' \in BOOLEAN /\ (stored' = <<>> \/ \E g : stored' = <<g>>)
         /\ faults' \in 0..MaxFaults
  <1>1. /\ stored' = stored \/ stored' = <<f>>
        /\ lost' = lost \/ lost' = TRUE
        /\ faults' = faults \/ (faults < MaxFaults /\ faults' = faults + 1)
    BY DEF Persist, Written, Refused
  <1>2. stored' = <<>> \/ \E g : stored' = <<g>>
    BY <1>1 DEF FormTypes, DiskTypes
  <1>3. lost' \in BOOLEAN /\ faults' \in 0..MaxFaults
    <2>1. faults \in 0..MaxFaults /\ MaxFaults \in Nat
      BY StrategyFormAssumption DEF FormTypes, BoundTypes
    <2>2. faults' \in 0..MaxFaults
      BY <1>1, <2>1
    <2>3. lost' \in BOOLEAN
      BY <1>1 DEF FormTypes, DiskTypes
    <2>4. QED
      BY <2>2, <2>3
  <1>4. QED
    BY <1>2, <1>3

LEMMA MountTypes ==
  ASSUME FormTypes, MountEffect
  PROVE  /\ DiskTypes' /\ ListTypes' /\ faults' \in 0..MaxFaults
  <1>1. DiskTypes' /\ faults' \in 0..MaxFaults
    <2>1. CASE prefill = <<>>
      BY <2>1 DEF FormTypes, DiskTypes, BoundTypes, MountEffect, Written
    <2>2. CASE prefill # <<>>
      <3>1. Persist(prefill[1]) /\ prefill' = <<>>
        BY <2>2 DEF MountEffect
      <3>2. QED
        BY <3>1, PersistTypes DEF DiskTypes
    <2>3. QED
      BY <2>1, <2>2
  <1>2. ListTypes'
    BY DEF FormTypes, ListTypes, MountEffect
  <1>3. QED
    BY <1>1, <1>2

LEMMA ListFits ==
  ASSUME FormTypes, NEW list,
         \E S : list \in Seq(S) /\ saved \in Seq(S) /\ savedStore \in Seq(S),
         Len(list) <= SavedCap, WriteSaved(list)
  PROVE  ListTypes' /\ faults' \in 0..MaxFaults /\ lost' \in BOOLEAN
  <1>1. /\ saved' = list /\ savedStore' \in {list, savedStore}
        /\ lost' = lost \/ lost' = TRUE
        /\ faults' = faults \/ (faults < MaxFaults /\ faults' = faults + 1)
    BY DEF WriteSaved, Written, Refused
  <1>2. ListTypes'
    BY <1>1 DEF FormTypes, ListTypes
  <1>3. lost' \in BOOLEAN /\ faults' \in 0..MaxFaults
    <2>1. faults \in 0..MaxFaults /\ MaxFaults \in Nat
      BY StrategyFormAssumption DEF FormTypes, BoundTypes
    <2>2. faults' \in 0..MaxFaults
      BY <1>1, <2>1
    <2>3. lost' \in BOOLEAN
      BY <1>1 DEF FormTypes, DiskTypes
    <2>4. QED
      BY <2>2, <2>3
  <1>4. QED
    BY <1>2, <1>3

LEMMA SaveTypes ==
  ASSUME FormTypes, SaveCurrent \/ DeleteSaved
  PROVE  \E list :
           /\ WriteSaved(list)
           /\ \E S : list \in Seq(S) /\ saved \in Seq(S) /\ savedStore \in Seq(S)
           /\ Len(list) <= SavedCap
  <1>1. PICK S : saved \in Seq(S) /\ savedStore \in Seq(S)
    BY DEF FormTypes, ListTypes
  <1>2. SavedCap \in Nat /\ Len(saved) <= SavedCap
    BY StrategyFormAssumption DEF FormTypes, ListTypes
  <1>3. CASE SaveCurrent
    <2> DEFINE T == S \cup {form}
               all == <<form>> \o saved
               n == IF Len(all) < SavedCap THEN Len(all) ELSE SavedCap
    <2>1. saved \in Seq(T) /\ savedStore \in Seq(T) /\ <<form>> \in Seq(T)
      BY <1>1
    <2>2. all \in Seq(T)
      BY <2>1
    <2>3. WriteSaved(SubSeq(all, 1, n))
      BY <1>3 DEF SaveCurrent
    <2> HIDE DEF all, T
    <2>4. Len(all) \in Nat /\ n \in Nat /\ n <= SavedCap /\ n <= Len(all)
      BY <1>2, <2>2
    <2> HIDE DEF n
    <2>5. SubSeq(all, 1, n) \in Seq(T) /\ Len(SubSeq(all, 1, n)) = n
      BY <2>2, <2>4
    <2>6. PICK list : list = SubSeq(all, 1, n)
      OBVIOUS
    <2>7. \E V : list \in Seq(V) /\ saved \in Seq(V) /\ savedStore \in Seq(V)
      BY <2>1, <2>5, <2>6
    <2>8. WriteSaved(list) /\ Len(list) <= SavedCap
      BY <2>3, <2>4, <2>5, <2>6
    <2>9. QED
      BY <2>7, <2>8
  <1>4. CASE DeleteSaved
    <2>1. PICK i \in DOMAIN saved : WriteSaved(RemoveAt(saved, i))
      BY <1>4 DEF DeleteSaved
    <2>2. i \in 1..Len(saved) /\ Len(saved) \in Nat
      BY <1>1, <2>1
    <2>3. /\ SubSeq(saved, 1, i - 1) \in Seq(S) /\ Len(SubSeq(saved, 1, i - 1)) = i - 1
          /\ SubSeq(saved, i + 1, Len(saved)) \in Seq(S)
          /\ Len(SubSeq(saved, i + 1, Len(saved))) = Len(saved) - i
      BY <1>1, <2>2
    <2> DEFINE u == SubSeq(saved, 1, i - 1)
               v == SubSeq(saved, i + 1, Len(saved))
    <2>4. RemoveAt(saved, i) \in Seq(S) /\ Len(RemoveAt(saved, i)) = Len(saved) - 1
      <3>1. u \in Seq(S) /\ Len(u) = i - 1 /\ v \in Seq(S) /\ Len(v) = Len(saved) - i
        BY <2>3
      <3>2. RemoveAt(saved, i) = u \o v
        BY DEF RemoveAt
      <3> HIDE DEF u, v
      <3>3. u \o v \in Seq(S) /\ Len(u \o v) = Len(u) + Len(v)
        BY <3>1
      <3>4. QED
        BY <2>2, <3>1, <3>2, <3>3
    <2>5. QED
      BY <1>1, <1>2, <2>1, <2>2, <2>4
  <1>5. QED
    BY <1>3, <1>4

LEMMA EmptyListTypes ==
  ASSUME ListTypes, saved' = <<>>, savedStore' = savedStore
  PROVE  ListTypes'
  <1>1. PICK S : saved \in Seq(S) /\ savedStore \in Seq(S)
    BY DEF ListTypes
  <1>2. saved' \in Seq(S) /\ Len(saved') = 0 /\ savedStore' \in Seq(S)
    BY <1>1
  <1>3. QED
    BY StrategyFormAssumption, <1>2 DEF ListTypes

LEMMA FormTypesStep ==
  ASSUME FormTypes, [Next]_vars
  PROVE  FormTypes'
  <1>1. CASE Open \/ Remount
    <2>1. /\ MountEffect /\ UNCHANGED <<edits, clicks>>
          /\ edits + loads < MaxMoves /\ loads' = loads + 1
          /\ page' = "builder" /\ submitting' \in BOOLEAN
      BY <1>1 DEF Open, Remount, Load, Move, FormTypes, PageTypes
    <2>2. DiskTypes' /\ ListTypes' /\ faults' \in 0..MaxFaults
      BY <2>1, MountTypes
    <2>3. QED
      BY StrategyFormAssumption, <2>1, <2>2 DEF FormTypes, PageTypes, BoundTypes
  <1>2. CASE Leave
    <2>1. /\ Left
          /\ UNCHANGED <<stored, savedStore, prefill, lost, edits, loads, clicks, faults>>
      BY <1>2 DEF Leave, disk, bounds
    <2>2. PageTypes' /\ saved' = <<>>
      BY <2>1 DEF Left, PageTypes
    <2>3. DiskTypes' /\ BoundTypes'
      BY <2>1 DEF FormTypes, DiskTypes, BoundTypes
    <2>4. ListTypes'
      BY <2>1, <2>2, EmptyListTypes DEF FormTypes
    <2>5. QED
      BY <2>2, <2>3, <2>4 DEF FormTypes
  <1>3. CASE ApplyEdge
    BY <1>3 DEF ApplyEdge, tab, bounds, FormTypes, PageTypes, DiskTypes,
                ListTypes, BoundTypes
  <1>4. CASE ApplyTemplate \/ Reset \/ LoadSavedStrategy \/ Edit
    <2>1. PICK f : Persist(f)
      BY <1>4 DEF ApplyTemplate, Reset, LoadSavedStrategy, Edit, Picked
    <2>2. /\ UNCHANGED <<page, saved, submitting, savedStore, prefill, clicks>>
          /\ page = "builder" /\ edits + loads < MaxMoves
          /\ edits' \in {edits, edits + 1} /\ loads' \in {loads, loads + 1}
          /\ edits' = edits \/ loads' = loads
      BY <1>4 DEF ApplyTemplate, Reset, LoadSavedStrategy, Edit,
           Picked, Load, Move
    <2>3. /\ lost' \in BOOLEAN /\ (stored' = <<>> \/ \E g : stored' = <<g>>)
          /\ faults' \in 0..MaxFaults
      BY <2>1, PersistTypes
    <2>4. PageTypes' /\ DiskTypes' /\ ListTypes'
      BY <2>2, <2>3 DEF FormTypes, PageTypes, DiskTypes, ListTypes
    <2>5. BoundTypes'
      <3>1. /\ edits \in Nat /\ loads \in Nat /\ edits + loads < MaxMoves /\ MaxMoves \in Nat
            /\ clicks' \in 0..MaxClicks
        BY StrategyFormAssumption, <2>2 DEF FormTypes, BoundTypes
      <3>2. edits' \in Nat /\ loads' \in Nat /\ edits' + loads' <= MaxMoves
        <4>1. CASE edits' = edits /\ loads' = loads
          BY <3>1, <4>1
        <4>2. CASE edits' = edits + 1 /\ loads' = loads
          BY <3>1, <4>2
        <4>3. CASE edits' = edits /\ loads' = loads + 1
          BY <3>1, <4>3
        <4>4. QED
          BY <2>2, <4>1, <4>2, <4>3
      <3>3. QED
        BY <2>3, <3>1, <3>2 DEF BoundTypes
    <2>6. QED
      BY <2>4, <2>5 DEF FormTypes
  <1>5. CASE SaveCurrent \/ DeleteSaved
    <2>1. PICK list :
           /\ WriteSaved(list)
           /\ \E S : list \in Seq(S) /\ saved \in Seq(S) /\ savedStore \in Seq(S)
           /\ Len(list) <= SavedCap
      BY <1>5, SaveTypes
    <2>2. ListTypes' /\ faults' \in 0..MaxFaults /\ lost' \in BOOLEAN
      BY <2>1, ListFits
    <2>3. /\ page = "builder" /\ edits + loads < MaxMoves /\ loads' = loads + 1
          /\ UNCHANGED <<page, form, submitting, stored, prefill, edits, clicks>>
      BY <2>1 DEF WriteSaved, Load, Move
    <2>4. PageTypes' /\ DiskTypes'
      BY <2>2, <2>3 DEF FormTypes, PageTypes, DiskTypes
    <2>5. BoundTypes'
      BY StrategyFormAssumption, <2>2, <2>3 DEF FormTypes, BoundTypes
    <2>6. QED
      BY <2>2, <2>4, <2>5 DEF FormTypes
  <1>6. CASE \E paper \in BOOLEAN : Press(paper)
    BY StrategyFormAssumption, <1>6 DEF Press, disk, FormTypes, PageTypes, DiskTypes, ListTypes,
                BoundTypes
  <1>7. CASE \E s \in Slots : RunAnswered(s) \/ PaperAnswered(s)
    <2>1. /\ UNCHANGED <<stored, savedStore, prefill, lost, edits, loads, clicks>>
          /\ faults' = faults \/ (faults < MaxFaults /\ faults' = faults + 1)
      BY <1>7 DEF RunAnswered, PaperAnswered, disk, Served, Resent
    <2>2. PageTypes' /\ saved' \in {saved, <<>>}
      <3>1. \/ Left \/ UNCHANGED tab
            \/ \E s \in Slots : /\ submitting' = (submitting /\ ~subs[s].live)
                                     /\ UNCHANGED <<page, form, saved>>
        BY <1>7 DEF RunAnswered, PaperAnswered, Arrive
      <3>2. QED
        BY <3>1 DEF Left, tab, FormTypes, PageTypes
    <2>3. ListTypes'
      <3>1. CASE saved' = saved
        BY <2>1, <3>1 DEF FormTypes, ListTypes
      <3>2. CASE saved' = <<>>
        BY <2>1, <3>2, EmptyListTypes DEF FormTypes
      <3>3. QED
        BY <2>2, <3>1, <3>2
    <2>4. QED
      BY StrategyFormAssumption, <2>1, <2>2, <2>3 DEF FormTypes, DiskTypes, BoundTypes
  <1>8. CASE UNCHANGED vars
    BY <1>8 DEF vars, tab, disk, bounds, FormTypes, PageTypes,
                DiskTypes, ListTypes, BoundTypes
  <1>9. QED
    BY <1>1, <1>2, <1>3, <1>4, <1>5, <1>6, <1>7, <1>8, FormSteps

(* The page is shown whenever its buttons are held, a submission is in one *)
(* of its stages, and no list in the browser outgrows its cap: for any     *)
(* forms and any bounds.                                                   *)
THEOREM FormTypeOK == BuilderSpec => []TypeOK
  <1>1. Init => FormTypes /\ SubmitInv
    <2> SUFFICES ASSUME Init
                 PROVE  FormTypes
      BY SubmitInit
    <2>1. PageTypes /\ DiskTypes
      BY DEF Init, PageTypes, DiskTypes
    <2>2. saved \in Seq({}) /\ savedStore \in Seq({}) /\ Len(saved) = 0 /\ Len(savedStore) = 0
      BY DEF Init
    <2>3. ListTypes /\ BoundTypes
      BY StrategyFormAssumption, <2>2 DEF Init, ListTypes, BoundTypes
    <2>4. QED
      BY <2>1, <2>3 DEF FormTypes
  <1>2. FormTypes /\ SubmitInv /\ [Next]_vars => FormTypes' /\ SubmitInv'
    BY FormTypesStep, SubmitStep
  <1>3. FormTypes /\ SubmitInv => TypeOK
    <2> SUFFICES ASSUME FormTypes, SubmitInv
                 PROVE  TypeOK
      OBVIOUS
    <2>1. \A s \in Slots : subs[s].next \in {"off", "run", "paper"}
      BY DEF SubmitInv, SubsOK, SubShape
    <2>2. Len(stored) <= 1 /\ Len(prefill) <= 1
      <3>1. Len(<<>>) = 0 /\ \A f : Len(<<f>>) = 1
        OBVIOUS
      <3>2. Len(stored) = 0 \/ Len(stored) = 1
        BY <3>1 DEF FormTypes, DiskTypes
      <3>3. Len(prefill) = 0 \/ Len(prefill) = 1
        BY <3>1 DEF FormTypes, DiskTypes
      <3>4. \A n : n = 0 \/ n = 1 => n <= 1
        OBVIOUS
      <3>5. QED
        BY <3>2, <3>3, <3>4, Zenon
    <2>3. edits + loads \in 0..MaxMoves /\ clicks \in 0..MaxClicks /\ faults \in 0..MaxFaults
      BY StrategyFormAssumption DEF FormTypes, BoundTypes
    <2>4. QED
      BY <2>1, <2>2, <2>3 DEF FormTypes, PageTypes, DiskTypes, ListTypes, TypeOK
  <1>4. QED
    BY <1>1, <1>2, <1>3, PTL DEF BuilderSpec
=============================================================================
