--------------------------- MODULE ConditionTrees ---------------------------
(***************************************************************************)
(* A section of a no-code strategy as a tree, and its four readings: the   *)
(* sentence and the AND/OR pills the builder shows, the JSON it submits    *)
(* (web/components/StrategyBuilder.tsx), the evaluator of the backend      *)
(* (backtest/conditions.py) and the Python it offers for download          *)
(* (web/libs/pythonCodegen.ts).                                            *)
(*                                                                         *)
(* A node is a leaf [id, type, side, op, value, window] or a group         *)
(* [id, op, children, connectors] with op AND or OR; connectors is Null    *)
(* when the field is absent, and connectors[i] joins child i + 1 to what is*)
(* left of it.  A leaf's test on a snapshot depends on its fields but the  *)
(* id: a valuation maps Bare leaves to "true", "false" or "unknown", the   *)
(* last when the snapshot lacks a value the test needs.  How a value is    *)
(* computed is left out.  A crossing also depends on the level before, and *)
(* in the evaluator equal rows of a section share that level, which rows   *)
(* skipped behind a true OR do not record: nothing is claimed of what the  *)
(* evaluator makes of a section with crossings.                            *)
(***************************************************************************)
EXTENDS Integers, SequencesExt

CONSTANT Null

Asym  == {">=", ">", "<=", "<"}
Full  == Asym \cup {"==", "!=", "crosses_above", "crosses_below"}

(* What the builder knows of each parameter: the operator a new row starts *)
(* with, the operators on its menu, whether it has a side and a window.    *)
Spec(op, ops, side, window) == [op |-> op, ops |-> ops, side |-> side, window |-> window]
ParamSpecs ==
    [token_price              |-> Spec(">=", Full, TRUE,  FALSE),
     spread                   |-> Spec("<=", Asym, TRUE,  FALSE),
     time_to_resolution_s     |-> Spec("<=", Asym, FALSE, FALSE),
     time_since_market_open_s |-> Spec(">=", Asym, FALSE, FALSE),
     coin_move_since_open_usd |-> Spec(">=", Full, FALSE, FALSE),
     coin_move_since_open_pct |-> Spec(">=", Full, FALSE, FALSE),
     coin_price_volatility    |-> Spec(">=", Asym, FALSE, TRUE),
     token_price_volatility   |-> Spec(">=", Asym, TRUE,  TRUE)]

(* What the backend's evaluator accepts: any other row is never true.      *)
Crossable == {"token_price", "coin_move_since_open_usd", "coin_move_since_open_pct"}
Sided     == {"token_price", "spread", "token_price_volatility"}
Windowed  == {"coin_price_volatility", "token_price_volatility"}
BackendReads(c) ==
    /\ c.op \in Asym \/ (c.type \in Crossable /\ c.op \in Full)
    /\ c.type \in Sided => c.side \in {"yes", "no"}
    /\ c.type \in Windowed => c.window # Null

(* ------------------------------- trees -------------------------------- *)

IsGroup(n) == n.op \in {"AND", "OR"}

NewCondition(id, type) ==
    LET spec == ParamSpecs[type]
    IN  [id |-> id, type |-> type, op |-> spec.op, value |-> "default",
         side   |-> IF spec.side THEN "yes" ELSE Null,
         window |-> IF spec.window THEN 60 ELSE Null]

NewGroup(id, children) ==
    [id |-> id, op |-> "AND", children |-> children, connectors |-> Null]

RECURSIVE At(_, _), Put(_, _, _), Nodes(_), Paths(_)
At(n, path) == IF path = <<>> THEN n ELSE At(n.children[Head(path)], Tail(path))

(* mutateAt: a new root with another node at the path.                     *)
Put(n, path, new) ==
    IF path = <<>> THEN new
    ELSE [n EXCEPT !.children[Head(path)] = Put(@, Tail(path), new)]

Nodes(n) == {n} \cup (IF IsGroup(n) THEN UNION {Nodes(c) : c \in ToSet(n.children)} ELSE {})
Paths(n) ==
    {<<>>} \cup (IF IsGroup(n)
                 THEN UNION {{<<i>> \o p : p \in Paths(n.children[i])} : i \in DOMAIN n.children}
                 ELSE {})

Leaves(n) == {x \in Nodes(n) : ~IsGroup(x)}
Groups(n) == {x \in Nodes(n) : IsGroup(x)}
Bare(c) == [type |-> c.type, side |-> c.side, op |-> c.op, value |-> c.value, window |-> c.window]

(* The pill between child i and child i + 1.                               *)
Pill(g, i) ==
    IF g.connectors # Null /\ i \in DOMAIN g.connectors THEN g.connectors[i] ELSE g.op
Pills(g) == [i \in 1..(Len(g.children) - 1) |-> Pill(g, i)]

(* ------------------------------ the edits ------------------------------ *)

(* A child's pill repeats the last one.                                    *)
AppendChild(g, child) ==
    LET old  == IF g.connectors = Null THEN <<>> ELSE g.connectors
        next == IF old = <<>> THEN g.op ELSE Last(old)
    IN  IF g.children = <<>> THEN [g EXCEPT !.children = <<child>>]
        ELSE [g EXCEPT !.children = Append(@, child), !.connectors = Append(old, next)]

(* The pill before the child goes with it; for the first, the one after.   *)
RemoveChild_DropsAfter(g, i) ==
    [g EXCEPT !.children = RemoveAt(@, i),
              !.connectors = IF @ = Null THEN Null
                             ELSE IF i \in DOMAIN @ THEN RemoveAt(@, i) ELSE @]

RemoveChild(g, i) ==
    LET at == IF i = 1 THEN 1 ELSE i - 1
    IN  [g EXCEPT !.children = RemoveAt(@, i),
                  !.connectors = IF @ = Null \/ at \notin DOMAIN @ THEN @ ELSE RemoveAt(@, at)]

(* Connectors of the wrong length are laid out again from the group's op.  *)
ToggleConnector(g, i) ==
    LET need == Len(g.children) - 1
        base == IF g.connectors # Null /\ Len(g.connectors) = need THEN g.connectors
                ELSE [k \in 1..need |-> g.op]
    IN  [g EXCEPT !.connectors = [base EXCEPT ![i] = IF @ = "AND" THEN "OR" ELSE "AND"]]

(* Another parameter brings its own defaults, so that the operator is one  *)
(* of its menu; patchCond's own check of it has nothing left to repair.    *)
PatchType_KeepsOp(c, type) == [NewCondition(c.id, type) EXCEPT !.op = c.op]
PatchType(c, type) == NewCondition(c.id, type)

(* ---------------------------- what is shown ---------------------------- *)

(* humanNode and humanSection: a lone child stands for its group.          *)
RECURSIVE ReadsAs(_), Meaning(_, _)
ReadsAs(n) ==
    IF ~IsGroup(n) THEN [kind |-> "rule", rule |-> Bare(n)]
    ELSE IF n.children = <<>> THEN [kind |-> "no rules"]
    ELSE IF Len(n.children) = 1 THEN ReadsAs(n.children[1])
    ELSE [kind |-> "chain", joins |-> Pills(n),
          items |-> [i \in DOMAIN n.children |-> ReadsAs(n.children[i])]]

Joined(op, a, b) == IF op = "AND" THEN a /\ b ELSE a \/ b
LeftToRight(truths, Join(_)) ==
    LET upTo[i \in 1..Len(truths)] ==
            IF i = 1 THEN truths[1] ELSE Joined(Join(i - 1), upTo[i - 1], truths[i])
    IN  upTo[Len(truths)]

(* The sentence read aloud, from left to right; a rule about a value that  *)
(* is not known does not hold.                                             *)
Meaning(e, v) ==
    CASE e.kind = "rule"     -> v[e.rule] = "true"
      [] e.kind = "no rules" -> FALSE
      [] OTHER -> LeftToRight([i \in DOMAIN e.items |-> Meaning(e.items[i], v)],
                              LAMBDA i : e.joins[i])

(* ----------------------------- what is sent ---------------------------- *)

RECURSIVE StripIds(_), Evaluate(_, _), Code(_), Run(_, _)
StripIds(n) ==
    IF IsGroup(n)
    THEN [op |-> n.op, children |-> [i \in DOMAIN n.children |-> StripIds(n.children[i])]]
    ELSE Bare(n)

(* Leaves under AND alone go out as a list, anything else as a tree.       *)
SerialiseSection(root) ==
    LET uniform == /\ \A i \in DOMAIN root.children : ~IsGroup(root.children[i])
                   /\ root.op = "AND"
                   /\ root.connectors = Null \/ ToSet(root.connectors) \subseteq {"AND"}
    IN  IF uniform
        THEN [list |-> [i \in DOMAIN root.children |-> StripIds(root.children[i])]]
        ELSE [tree |-> StripIds(root)]

(* evaluate_node, of nodes without crossings: connectors win over op where *)
(* the field is there, and a test of an unknown value fails.               *)
Evaluate(n, v) ==
    IF ~IsGroup(n) THEN v[n] = "true"
    ELSE IF n.children = <<>> THEN FALSE
    ELSE LeftToRight([i \in DOMAIN n.children |-> Evaluate(n.children[i], v)],
                     LAMBDA i : IF "connectors" \in DOMAIN n /\ i \in DOMAIN n.connectors
                                THEN n.connectors[i] ELSE n.op)

(* evaluate_section, and the strategy around it: an entry that is an empty *)
(* list lets every snapshot through, the two exits never fire.             *)
EvaluateSection(section, wire, v) ==
    IF "tree" \in DOMAIN wire THEN Evaluate(wire.tree, v)
    ELSE IF wire.list = <<>> THEN section = "entry"
    ELSE Evaluate([op |-> "AND", children |-> wire.list], v)

(* -------------------------- what is downloaded ------------------------- *)

(* leafExpr: a price or a spread is looked up under a key that the rows of *)
(* /v1/snapshots do not have, a token's volatility is computed from it, and*)
(* a crossing is compared with a variable that the script never defines.   *)
Crossing(c) == c.op \in {"crosses_above", "crosses_below"}
LeafExpr(c) ==
    [kind |-> CASE c.type \in {"token_price", "spread"}  -> "missing key"
                [] c.type = "token_price_volatility"     -> "missing value"
                [] OTHER -> IF Crossing(c) THEN "undefined name" ELSE "test",
     rule |-> Bare(c)]

(* groupExpr: a nested binary expression.                                  *)
Code(n) ==
    IF ~IsGroup(n) THEN LeafExpr(n)
    ELSE IF n.children = <<>> THEN [kind |-> "constant", value |-> FALSE]
    ELSE LET acc[i \in DOMAIN n.children] ==
                 IF i = 1 THEN Code(n.children[1])
                 ELSE [kind |-> IF Pill(n, i - 1) = "OR" THEN "or" ELSE "and",
                       left |-> acc[i - 1], right |-> Code(n.children[i])]
         IN  acc[Len(n.children)]

(* The default op of the group for every join, as before per-pair pills.   *)
SectionExpr_OneOp(section, root) ==
    IF root.children = <<>> THEN [kind |-> "constant", value |-> section = "entry"]
    ELSE Code([root EXCEPT !.connectors = Null])

SectionExpr(section, root) ==
    IF root.children = <<>> THEN [kind |-> "constant", value |-> section = "entry"]
    ELSE Code(root)

(* What Python makes of it: "true", "false" or an exception, that of a     *)
(* comparison with None included.  The right of a settled join is skipped. *)
RunTest(c, v) ==
    CASE v[c] # "unknown" -> v[c]
      [] c.op = "=="      -> "false"
      [] c.op = "!="      -> "true"
      [] OTHER            -> "raises"
Run(e, v) ==
    LET goesOn == IF e.kind = "or" THEN "false" ELSE "true"
        left   == Run(e.left, v)
    IN  CASE e.kind = "test"          -> RunTest(e.rule, v)
          [] e.kind = "constant"      -> IF e.value THEN "true" ELSE "false"
          [] e.kind \in {"and", "or"} -> IF left = goesOn THEN Run(e.right, v) ELSE left
          [] OTHER                    -> "raises"

(* --------------------------- the three agree --------------------------- *)

Valuations(root) == [{Bare(c) : c \in Leaves(root)} -> {"true", "false", "unknown"}]

(* The sentence under a section; without rules an entry is immediate and   *)
(* an exit never comes.                                                    *)
ShownMeaning(section, root, v) ==
    IF root.children = <<>> THEN section = "entry" ELSE Meaning(ReadsAs(root), v)

(* Where the script gets to an answer, on snapshots that have the values   *)
(* its != rows test: an unknown value differs from any other in Python.    *)
CodeAgrees(section, root) ==
    \A v \in Valuations(root) :
        LET answer == Run(SectionExpr(section, root), v)
        IN  answer # "raises" /\ (\A c \in DOMAIN v : c.op = "!=" => v[c] # "unknown")
            => (answer = "true") = ShownMeaning(section, root, v)

WireAgrees(section, root) ==
    (\A c \in Leaves(root) : ~Crossing(c)) =>
    \A v \in Valuations(root) :
        EvaluateSection(section, SerialiseSection(root), v) = ShownMeaning(section, root, v)

(* Every pill still shows its group's own operator.                        *)
Untoggled(root) == \A g \in Groups(root) : ToSet(Pills(g)) \subseteq {g.op}
=============================================================================
