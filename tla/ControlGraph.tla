----------------------------- MODULE ControlGraph ------------------------------
(***************************************************************************)
(* From the control blocks of the program under test to the graph its      *)
(* static analysis walks (SetNodeValues, AddControlBlock, AddIfBlock and   *)
(* class DAG), and the evaluation of conditions on a set of headers.       *)
(*                                                                         *)
(* A block is a sequence of statements:                                    *)
(*   [kind |-> "apply", table |-> t, cases |-> <<block, ...>>],            *)
(*   [kind |-> "call", block |-> b] for another control,                   *)
(*   [kind |-> "if", cond |-> e, then |-> b, else |-> <<b>> or <<>>],      *)
(* an else if being an else block of one statement.                        *)
(*                                                                         *)
(* An expression is [op |-> "valid", hdr |-> h], [op |-> "field", ...],    *)
(* [op |-> "word", ...] or an operator with left and right.  A name is the *)
(* sequence of its characters' codes, in their order: a digit is itself,   *)
(* "IF_CONDITION_" one code below "_parser_", the letters are above it.    *)
(***************************************************************************)
EXTENDS Integers, Sequences, FiniteSets, SequencesExt

\* The bound of the model: the number of a condition has at most two digits.
IfName(id) == IF id < 10 THEN <<40, id>> ELSE <<40, id \div 10, id % 10>>
Parser == <<50>>      \* the parent of the first node
Leaf(e) == e.op \in {"valid", "field", "word"}
-----------------------------------------------------------------------------
\* Conditions.

(* evaluate: the modes it may return.  resolveArith compares its output's  *)
(* mode where it should set it, so two known operands give any value.      *)
RECURSIVE Evaluate(_, _)
Evaluate(e, hdrs) ==
    IF e.op = "valid" THEN {IF e.hdr \in hdrs THEN "TRUE" ELSE "FALSE"}
    ELSE IF Leaf(e) THEN {"UNKNOWN"}
    ELSE LET known(l, r) ==
               CASE e.op = "||" -> IF "TRUE" \in {l, r} THEN {"TRUE"}
                                   ELSE IF {l, r} = {"FALSE"} THEN {"FALSE"} ELSE {"UNKNOWN"}
                 [] e.op = "&&" -> IF {l, r} = {"TRUE"} THEN {"TRUE"}
                                   ELSE IF "FALSE" \in {l, r} THEN {"FALSE"} ELSE {"UNKNOWN"}
                 [] OTHER -> IF "UNKNOWN" \in {l, r} THEN {"UNKNOWN"}
                             ELSE {"TRUE", "FALSE", "UNKNOWN"}
         IN  UNION {known(l, r) : l \in Evaluate(e.left, hdrs), r \in Evaluate(e.right, hdrs)}

RECURSIVE GetFields(_)
GetFields(e) ==
    IF e.op = "field" THEN {e.field}
    ELSE IF Leaf(e) THEN {} ELSE GetFields(e.left) \cup GetFields(e.right)

(* GetFixedValues appends what it returns to what it was given, so values  *)
(* are repeated; a leaf returns what it was given.                         *)
RECURSIVE GetFixedValues(_, _)
GetFixedValues(e, given) ==
    IF Leaf(e) THEN given
    ELSE LET one == given \o GetFixedValues(e.left, given)
             two == one \o GetFixedValues(e.right, one)
         IN  IF e.op = "==" THEN Append(two, <<e.left, e.right>>) ELSE two
-----------------------------------------------------------------------------
(***************************************************************************)
(* Actions.  A statement is [cmd |-> "assign", left, fields, other]: a     *)
(* primitive with two arguments or more, its later arguments that are      *)
(* fields and whether there are others; [cmd |-> "header", hdr, valid]:    *)
(* add_header, push, remove_header or pop, valid being what the header may *)
(* be behind it: {TRUE}, {FALSE}, and both for the pop of a stack;         *)
(* [cmd |-> "drop"]; or [cmd |-> "execute", inputs, outputs]: a stateful   *)
(* ALU with the fields its own statements and the index arguments of the   *)
(* actions so far read, and at most one output.  Other statements are left *)
(* out.  The headers an action adds and removes are kept in addedHeaders   *)
(* and removedHeaders, which nobody reads: Action::evaluate changes a copy *)
(* of validHeaders.                                                        *)
(***************************************************************************)
All(stmts, cmd) == {s \in Range(stmts) : s.cmd = cmd}
ModifiedPairs(stmts) ==
    UNION {{s.left} \X s.fields : s \in All(stmts, "assign")}
      \cup UNION {s.outputs \X s.inputs : s \in All(stmts, "execute")}
Modified(stmts) ==
    {s.left : s \in {x \in All(stmts, "assign") : x.other}}
      \cup UNION {s.outputs : s \in {x \in All(stmts, "execute") : x.inputs = {}}}
ActionOf(stmts) == [pairs |-> ModifiedPairs(stmts), sets |-> Modified(stmts),
                    drop |-> All(stmts, "drop") # {}, processing |-> stmts # <<>>]
-----------------------------------------------------------------------------
\* The graph.  Declarations: table |-> [keys, actions], an action its statements.

Blank(decls) ==
    [root |-> {}, ifs |-> [x \in {} |-> {}],
     tables |-> [t \in DOMAIN decls |-> [keys     |-> decls[t].keys,
                                         actions  |-> {a \in {ActionOf(x) : x \in decls[t].actions} :
                                                         a.processing},
                                         children |-> {}]]]

(* The edges setTableParents and addIfCondition draw: from an if statement *)
(* to its true side or its false side, by the flag of the block being      *)
(* added, whichever statement the parent belongs to.                       *)
AttachToTrue(g, parents, node, side) ==   \* mutant
    [g EXCEPT
       !.root   = IF Parser \in parents THEN @ \cup {node} ELSE @,
       !.tables = [t \in DOMAIN @ |-> IF t \in parents THEN [@[t] EXCEPT !.children = @ \cup {node}]
                                      ELSE @[t]],
       !.ifs    = [c \in DOMAIN @ |-> IF c \in parents THEN [@[c] EXCEPT !.yes = @ \cup {node}]
                                      ELSE @[c]]]
Attach(g, parents, node, side) ==
    [g EXCEPT
       !.root   = IF Parser \in parents THEN @ \cup {node} ELSE @,
       !.tables = [t \in DOMAIN @ |-> IF t \in parents THEN [@[t] EXCEPT !.children = @ \cup {node}]
                                      ELSE @[t]],
       !.ifs    = [c \in DOMAIN @ |->
                     IF c \notin parents THEN @[c]
                     ELSE IF side THEN [@[c] EXCEPT !.yes = @ \cup {node}]
                     ELSE [@[c] EXCEPT !.no = @ \cup {node}]]]

(* addIfCondition: the fields of an enclosing condition count as its own.  *)
AddIfCondition(g, cond, parents, side) ==
    LET name == IfName(Cardinality(DOMAIN g.ifs))
        inherited == UNION {g.ifs[c].fields : c \in parents \cap DOMAIN g.ifs}
        h == Attach(g, parents, name, side)
    IN  [h EXCEPT !.ifs = [c \in DOMAIN @ \cup {name} |->
                             IF c # name THEN @[c]
                             ELSE [cond |-> cond, fields |-> GetFields(cond) \cup inherited,
                                   yes |-> {}, no |-> {}]]]

(* AddControlBlock: the graph and what the next statement hangs on.  After *)
(* an if without else that is the end of its block only, after a select    *)
(* the ends of its cases only.                                             *)
RECURSIVE AddControlBlock(_, _, _, _)
AddStatement(g, s, parents, side) ==
    CASE s.kind = "apply" ->
           LET start == [graph |-> Attach(g, parents, s.table, side), ends |-> {}]
               add(acc, b) == LET r == AddControlBlock(acc.graph, b, {s.table}, side)
                              IN  [graph |-> r.graph, ends |-> acc.ends \cup r.ends]
           IN  IF s.cases = <<>> THEN [start EXCEPT !.ends = {s.table}]
               ELSE FoldLeft(add, start, s.cases)
      [] s.kind = "call" -> AddControlBlock(g, s.block, parents, side)
      [] s.kind = "if" ->
           LET name == IfName(Cardinality(DOMAIN g.ifs))
               yes == AddControlBlock(AddIfCondition(g, s.cond, parents, side), s.then, {name}, TRUE)
               no == AddControlBlock(yes.graph, s.else[1], {name}, FALSE)
           IN  IF s.else = <<>> THEN yes ELSE [no EXCEPT !.ends = @ \cup yes.ends]
AddControlBlock(g, block, parents, side) ==
    IF block = <<>> THEN [graph |-> g, ends |-> parents]
    ELSE LET r == AddStatement(g, Head(block), parents, side)
         IN  AddControlBlock(r.graph, Tail(block), r.ends, side)

(* GetMoveFieldsMap: ingress hangs on the parser, egress on its ends.      *)
ControlGraph(decls, ingress, egress, paths) ==
    LET first == AddControlBlock(Blank(decls), ingress, {Parser}, TRUE)
        g == AddControlBlock(first.graph, egress, first.ends, TRUE).graph
    IN  [root |-> g.root, tables |-> g.tables, paths |-> paths,
         ifs |-> [c \in DOMAIN g.ifs |->
                    [fields |-> g.ifs[c].fields, yes |-> g.ifs[c].yes, no |-> g.ifs[c].no,
                     verdict |-> [i \in DOMAIN paths |-> Evaluate(g.ifs[c].cond, paths[i])]]]]
=============================================================================
