------------------------------ MODULE Builder ------------------------------
(***************************************************************************)
(* The no-code strategy builder (web/components/StrategyBuilder.tsx): the  *)
(* page of StrategyForm with its forms.  A form has a setup and a tree of  *)
(* conditions (ConditionTrees) for each section; an edit changes one field *)
(* or one node; what is sent is the tree as the backend takes it.          *)
(***************************************************************************)
EXTENDS StrategyForm, ConditionTrees, FiniteSetsExt

CONSTANTS
    EditedSections,  \* bound: sections the user edits
    EditedFields,    \* bound: fields of the setup the user edits
    Types, Ops,      \* bound: parameters and operators the user picks from the menus
    Universes        \* coin, timeframe and market count, as one choice

ASSUME BuilderAssumption ==
    /\ EditedSections \subseteq {"entry", "takeProfit", "stopLoss"}
    /\ EditedFields \subseteq {"universe", "order", "queue", "risk", "logic"}
    /\ Types \subseteq DOMAIN ParamSpecs

Sections == {"entry", "takeProfit", "stopLoss"}

(* ------------------------------- states -------------------------------- *)

(* Ids are random in the code: any id in use by no node here would do.     *)
Used(f) == {n.id : n \in UNION {Nodes(f[s]) : s \in Sections}}
FreshId(f) == Min((1..(Cardinality(Used(f)) + 1)) \ Used(f))

Setup == [universe |-> CHOOSE u \in Universes : TRUE, order |-> "market",
          queue |-> FALSE, risk |-> FALSE, logic |-> "always_up"]

Strategy(entry, takeProfit, stopLoss) ==
    [entry      |-> NewGroup(1, entry), takeProfit |-> NewGroup(2, takeProfit),
     stopLoss   |-> NewGroup(3, stopLoss)] @@ Setup

Row(id, type, op) == [NewCondition(id, type) EXCEPT !.op = op, !.value = "preset"]

DefaultState == Strategy(<<NewCondition(4, "token_price")>>, <<>>, <<>>)

(* The presets: every section a plain AND of at most one row.              *)
Templates ==
    {Strategy(<<>>, <<>>, <<>>), [Strategy(<<>>, <<>>, <<>>) EXCEPT !.logic = "always_down"],
     Strategy(<<Row(4, "token_price", "crosses_above")>>, <<>>, <<>>),
     Strategy(<<Row(4, "token_price", "<=")>>, <<Row(5, "token_price", ">=")>>,
              <<Row(6, "token_price", "<=")>>)}

(* What the calibration page hands over: an entry of two rows.             *)
HandOff == Strategy(<<Row(4, "token_price", ">="), Row(5, "token_price", "<=")>>, <<>>, <<>>)

(* -------------------------------- edits -------------------------------- *)

FieldValues == [universe |-> Universes, order |-> {"market", "limit"}, queue |-> BOOLEAN,
            risk |-> BOOLEAN, logic |-> {"always_up", "always_down"}]

(* One field of the setup: the queue toggle is there for limit orders only.*)
SetField(f) ==
    UNION {{[f EXCEPT ![k] = x] : x \in FieldValues[k] \ {f[k]}} :
              k \in {k \in EditedFields : k = "queue" => f.order = "limit"}}

(* The edits of a group g: a row or a group more, a child less, a pill the *)
(* other way.                                                              *)
AddCond(f, g) == AppendChild(g, NewCondition(FreshId(f), "token_price"))
AddGroup(f, g) == AppendChild(g, NewGroup(FreshId(f), <<>>))
RemoveNode(g) == {RemoveChild(g, i) : i \in DOMAIN g.children}
Toggle(g) == {ToggleConnector(g, i) : i \in 1..(Len(g.children) - 1)}

(* The edits of a row c: another parameter, operator, value or side.       *)
PatchCond(c) ==
    {PatchType(c, t) : t \in Types}
    \cup {[c EXCEPT !.op = op] : op \in ParamSpecs[c.type].ops \cap Ops}
    \cup ({[c EXCEPT !.value = "typed"]} \ {c})
    \cup (IF c.side = "yes" THEN {[c EXCEPT !.side = "no"]} ELSE {})

EditNode(f, n) ==
    IF IsGroup(n) THEN {AddCond(f, n), AddGroup(f, n)} \cup RemoveNode(n) \cup Toggle(n)
    ELSE PatchCond(n)

EditSection(f, s) ==
    UNION {{[f EXCEPT ![s] = Put(@, p, node)] : node \in EditNode(f, At(f[s], p))} :
              p \in Paths(f[s])}
EditTree(f) == UNION {EditSection(f, s) : s \in EditedSections}

Edits(f) == SetField(f) \cup EditTree(f)

(* The spec that goes out; options off by default are left out altogether. *)
BuildStrategySpec(f) ==
    [section |-> [s \in Sections |-> SerialiseSection(f[s])],
     logic   |-> f.logic,
     options |-> (IF f.risk THEN {"risk"} ELSE {})
                 \cup (IF f.order # "limit" THEN {}
                       ELSE {"limit"} \cup (IF f.queue THEN {"queue"} ELSE {}))]

(* ------------------------------ properties ----------------------------- *)

(* Every row on the page is one the backend evaluates: no sequence of      *)
(* picks, templates and loads leaves an operator, a side or a window that  *)
(* evaluate_one would silently read as "never" (StrategyBuilder.tsx        *)
(* patchCond, "so the row never holds inconsistent state").                *)
RowsEvaluable ==
    page = "builder" => \A s \in Sections : \A c \in Leaves(form[s]) : BackendReads(c)

(* Adding, removing and patching leave the pill before every child that    *)
(* stays as it was shown, and a click on a pill changes that one alone,    *)
(* although the array behind the pills may be missing or too short.        *)
PillBefore(g, id) ==
    LET i == CHOOSE k \in DOMAIN g.children : g.children[k].id = id
    IN  IF i = 1 THEN "first" ELSE Pill(g, i - 1)
ChildIds(g) == {c.id : c \in ToSet(g.children)}

PillsKept(old, new) ==
    LET changed == {id \in ChildIds(old) \cap ChildIds(new) :
                        /\ PillBefore(old, id) # PillBefore(new, id)
                        /\ PillBefore(new, id) # "first"}
    IN  IF ChildIds(old) = ChildIds(new) THEN Cardinality(changed) <= 1 ELSE changed = {}

PillsChangeOnlyWhenClicked ==
    [][edits' > edits =>
        \A s \in Sections : \A old \in Groups(form[s]) : \A new \in Groups(form[s])' :
            old.id = new.id => PillsKept(old, new)]_vars

(* Where the downloaded script gets to an answer, it is that of the        *)
(* sentences on the page, whatever the tree and its pills (pythonCodegen.ts*)
(* groupExpr).  It often does not: see LeafExpr.                           *)
CodeAnswersAsShown ==
    page = "builder" => \A s \in EditedSections : CodeAgrees(s, form[s])

(* What is submitted fires on the snapshots the page says, as long as no   *)
(* pill differs from its group's operator and no row is a crossing: the    *)
(* list and the tree form, and empty sections and sub-groups, come to the  *)
(* same, and so does a value that is not known.                            *)
WireMeansWhatIsShownUntoggled ==
    page = "builder" => \A s \in EditedSections : Untoggled(form[s]) => WireAgrees(s, form[s])

(* The script's answers and the submitted spec agree with the page.        *)
CopiesAgree == CodeAnswersAsShown /\ WireMeansWhatIsShownUntoggled

(* "Anything with mixed connectors, nested groups, or root OR goes out as  *)
(* the explicit tree shape that Phase T+W evaluator handles"               *)
(* (StrategyBuilder.tsx:863): what is submitted fires when the page says.  *)
WireMeansWhatIsShown ==
    page = "builder" => \A s \in EditedSections : WireAgrees(s, form[s])
=============================================================================
