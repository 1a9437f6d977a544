------------------------------- MODULE Instrument ------------------------------
(***************************************************************************)
(* The passes that turn the program under test into the one that reports   *)
(* which actions it took (UTModifier), the copying of its table entries,   *)
(* and the layout of the visited header the tester's program declares from *)
(* a second parse (DTModifier).  One action per pass, in the constructors' *)
(* order.                                                                  *)
(*                                                                         *)
(* A name is the sequence of its characters' codes, 20 to 45 capitals; a   *)
(* word that the passes add is one code.  A program is                     *)
(*   [order, tables, actions, blocks, roots, asserts, rules, target]:      *)
(* order lists the tables as declared, a table is [actions, default].      *)
(* blocks are the bodies of controls, branches and cases, each after those *)
(* it leads to: a statement names the block in it, or of the control it    *)
(* calls, by number, and the else of an if is <<n>> or <<>>.  The roots    *)
(* are ingress and, if there is one, egress.                               *)
(* A default action is None or [name, args], args "bare", "digits" or      *)
(* "other"; an assertion [op, value]; a rule [table, cmd, action, args].   *)
(***************************************************************************)
EXTENDS Integers, Sequences, FiniteSets, SequencesExt

CONSTANT Programs

VARIABLES prog, pass,
          actionTables,   \* prev_action_2_tbls_
          stateActions,   \* state_action_2_tbl_, its keys
          tableState,     \* tbl_2_state_action_
          popular,        \* popular_actions_
          bits,           \* tbl_action_stmt_
          tables, blocks, rules,
          nodes,          \* ActionNodes: name |-> [stmts, removed]
          extra,          \* unanchored_nodes_: [table, sets] beyond the program's
          assertRules,    \* assert_rules_: <<n, lowest, highest>>
          header,         \* the fields of fp4_visited_t: <<name, bits>>
          tester          \* the same in the tester's program

vars == <<prog, pass, actionTables, stateActions, tableState, popular, bits, tables,
          blocks, rules, nodes, extra, assertRules, header, tester>>

None == <<>>
Fp4 == <<50, 51, 50>>              \* "_fp4_"
TState == <<52>>                   \* "tstate_"
AssertTable(n) == <<53, n>>        \* "assert_table"
AssertBit(n) == <<54, n>>          \* "assertion"
PortCorrection == <<55>>           \* "ti_port_correction"
VisitedType == <<56>>              \* "ti_set_visited_type"
Preamble == <<57>>
PktType == <<58>>
Pad == <<59>>                      \* "__pad"
Lower(c) == c \notin 20..45
Plain(name) == \A i \in DOMAIN name : Lower(name[i])
Distinct(a, t) == a \o Fp4 \o t
NameBefore(m, n) ==
    \/ \E k \in 1..Len(m) : k <= Len(n) /\ m[k] < n[k] /\ \A j \in 1..(k - 1) : m[j] = n[j]
    \/ IsStrictPrefix(m, n)
\* The place of the i-th name among all, and std::sort.
Place(names, i) ==
    Cardinality({j \in DOMAIN names : NameBefore(names[j], names[i]) \/ (names[j] = names[i] /\ j <= i)})
InOrder(names) == [k \in DOMAIN names |-> names[CHOOSE i \in DOMAIN names : Place(names, i) = k]]

Stmt(op) == [op |-> op, field |-> None]
Mark(field) == [op |-> "mark", field |-> field]
Apply(t) == [kind |-> "apply", table |-> t, cases |-> <<>>]

\* The elements of s at the positions in at.
Picked(s, at) == FlattenSeq([i \in DOMAIN s |-> IF i \in at THEN <<s[i]>> ELSE <<>>])
-----------------------------------------------------------------------------
\* Programs: no name has a word of the passes in it, and blocks lead to earlier ones.

Name(n) == n \in Seq(Nat) /\ n # <<>> /\ \A i \in DOMAIN n : n[i] \notin 51..59
TablesOf(p) ==
    [actions : Seq(DOMAIN p.actions), default : {None} \cup [name : DOMAIN p.actions, args : {"bare", "digits", "other"}]]
Statements(p, n) ==
    [kind : {"apply"}, table : DOMAIN p.tables, cases : Seq([on : DOMAIN p.actions, block : 1..(n - 1)])]
      \cup [kind : {"call"}, block : 1..(n - 1)]
      \cup [kind : {"if"}, then : 1..(n - 1), else : {<<>>} \cup {<<m>> : m \in 1..(n - 1)}, elseif : BOOLEAN]
      \cup [kind : {"assert"}, num : 0..(Len(p.asserts) - 1)]
RulesOf(p) ==
    [table : DOMAIN p.tables, cmd : {"entry", "default"}, action : DOMAIN p.actions, args : Seq(Seq(Nat))]
WellFormed(p) ==
    /\ \A a \in DOMAIN p.actions : Name(a) /\ p.actions[a] \in Seq({"drop", "forward", "exec", "other"})
    /\ p.order \in Seq(Range(p.order)) /\ IsInjective(p.order) /\ \A t \in Range(p.order) : Name(t)
    /\ p.tables \in [Range(p.order) -> TablesOf(p)]
    /\ \A t \in DOMAIN p.tables :
         /\ IsInjective(p.tables[t].actions)
         /\ p.tables[t].default # None => p.tables[t].default.name \in Range(p.tables[t].actions)
    /\ p.asserts \in Seq([op : {"==", "<=", ">="}, value : Nat])
    /\ p.blocks \in Seq(Range(p.blocks))
    /\ \A n \in DOMAIN p.blocks :
         /\ p.blocks[n] \in Seq(Statements(p, n))
         /\ \A i \in DOMAIN p.blocks[n] :
              LET s == p.blocks[n][i] IN s.kind = "if" /\ s.elseif =>
                s.else # <<>> /\ Len(p.blocks[s.else[1]]) = 1 /\ p.blocks[s.else[1]][1].kind = "if"
    /\ p.roots \in Seq(DOMAIN p.blocks) /\ Len(p.roots) \in 1..2
    /\ p.rules \in Seq(RulesOf(p))
    /\ p.target \in {"hw", "sim"}
ASSUME ProgramsAssumption == \A p \in Programs : WellFormed(p)
-----------------------------------------------------------------------------
\* Reading the program.

\* GetAction2Tbls: a table with an action profile has no list of actions here.
ActionTables(p) == [a \in DOMAIN p.actions |-> {t \in DOMAIN p.tables : a \in Range(p.tables[t].actions)}]
IsPopular(tbls, a) == a \in DOMAIN tbls /\ \E t, u \in tbls[a] : t # u

\* The later tables are visited first.
Mentions(p) ==
    FlattenSeq([i \in DOMAIN p.order |->
        LET t == Reverse(p.order)[i] IN [j \in DOMAIN p.tables[t].actions |-> <<p.tables[t].actions[j], t>>]])
BitOf(tbls, a, t) == IF IsPopular(tbls, a) THEN Distinct(a, t) ELSE a
BitsOf(p, tbls) ==
    LET ms == Mentions(p) IN [i \in DOMAIN ms |-> BitOf(tbls, ms[i][1], ms[i][2])]

\* Mutant: the padding forgets the assertions.
LayoutUnpadded(names, count, asserts) ==
    LET left == (count + 50) % 8
    IN  <<<<Preamble, 48>>, <<PktType, 2>>>>
          \o [i \in DOMAIN names |-> <<names[i], 1>>]
          \o [i \in 1..asserts |-> <<AssertBit(i - 1), 1>>]
          \o (IF left > 0 THEN <<<<Pad, 8 - left>>>> ELSE <<>>)
(* DeclVisitedHdr; names is tbl_action_stmt_, count num_tbl_action_stmt_.  *)
Layout(names, count, asserts) ==
    LET left == (count + asserts + 50) % 8
    IN  <<<<Preamble, 48>>, <<PktType, 2>>>>
          \o [i \in DOMAIN names |-> <<names[i], 1>>]
          \o [i \in 1..asserts |-> <<AssertBit(i - 1), 1>>]
          \o (IF left > 0 THEN <<<<Pad, 8 - left>>>> ELSE <<>>)
-----------------------------------------------------------------------------
\* Control blocks.

\* The blocks addModifyTablesRecurse goes into: of an else if the first branch only.
Inner(bs, s) ==
    CASE s.kind = "apply" -> [j \in DOMAIN s.cases |-> s.cases[j].block]
      [] s.kind = "call" -> <<s.block>>
      [] s.kind = "if" -> <<s.then>> \o IF s.elseif THEN <<bs[s.else[1]][1].then>> ELSE s.else
      [] OTHER -> <<>>
\* Of every block, the <<block, position>> it comes to, in that order.
Walks(bs) ==
    LET upTo[n \in 0..Len(bs)] ==
          IF n = 0 THEN <<>>
          ELSE LET before == upTo[n - 1]
                   from(s) == FlattenSeq([j \in DOMAIN Inner(bs, s) |-> before[Inner(bs, s)[j]]])
               IN  Append(before, FlattenSeq([i \in DOMAIN bs[n] |-> <<<<n, i>>>> \o from(bs[n][i])]))
    IN  upTo[Len(bs)]
Walked(p) == LET walks == Walks(p.blocks) IN FlattenSeq([i \in DOMAIN p.roots |-> walks[p.roots[i]]])
Counted(x, seq) == Cardinality({i \in DOMAIN seq : seq[i] = x})

\* Mutant: the first statement of a block is passed over.
WithMarkersLater(bs, walked, stateful) ==
    [n \in DOMAIN bs |->
       FlattenSeq([i \in DOMAIN bs[n] |-> <<bs[n][i]>> \o
         IF bs[n][i].kind = "apply" /\ bs[n][i].cases = <<>> /\ bs[n][i].table \in stateful /\ i > 1
         THEN [k \in 1..Counted(<<n, i>>, walked) |-> Apply(TState \o bs[n][i].table)] ELSE <<>>])]
(* A table that marks a stateful action goes behind the one that takes it, *)
(* whenever addModifyTablesRecurse comes by.                               *)
WithMarkers(bs, walked, stateful) ==
    [n \in DOMAIN bs |->
       FlattenSeq([i \in DOMAIN bs[n] |-> <<bs[n][i]>> \o
         IF bs[n][i].kind = "apply" /\ bs[n][i].cases = <<>> /\ bs[n][i].table \in stateful
         THEN [k \in 1..Counted(<<n, i>>, walked) |-> Apply(TState \o bs[n][i].table)] ELSE <<>>])]

\* Mutant: the table's name is forgotten.
RenamedCaseNoTable(s, names) ==
    IF s.kind = "apply" /\ s.cases # <<>> /\ s.cases[1].on \in names
    THEN [s EXCEPT !.cases[1].on = @ \o Fp4] ELSE s
\* P4ControlNode::toString: the first case of a table in small letters is renamed.
RenamedCase(s, names) ==
    IF s.kind = "apply" /\ s.cases # <<>> /\ s.cases[1].on \in names /\ Plain(s.table)
    THEN [s EXCEPT !.cases[1].on = Distinct(@, s.table)] ELSE s
RenamedCases(bs, names) == [n \in DOMAIN bs |-> [i \in DOMAIN bs[n] |-> RenamedCase(bs[n][i], names)]]
-----------------------------------------------------------------------------
\* Default actions and rules: regular expressions on their text.

Rest(a, name) == SubSeq(name, Len(a) + 1, Len(name))
\* Mutant: a default action without parentheses is left alone.
RenamedDefaultCalls(d, t, a) ==
    IF d # None /\ d.args = "digits" /\ d.name = a
    THEN [d EXCEPT !.name = Distinct(a, t)] ELSE d
RenamedDefault(d, t, a) ==
    IF d # None /\ \/ d.args = "digits" /\ d.name = a
                   \/ d.args = "bare" /\ IsPrefix(a, d.name)
    THEN [d EXCEPT !.name = Distinct(a, t) \o Rest(a, @)] ELSE d
RenamedDefaults(d, t, names) ==
    LET upTo[i \in 0..Len(names)] == IF i = 0 THEN d ELSE RenamedDefault(upTo[i - 1], t, names[i])
    IN  upTo[Len(names)]

\* Mutant: no blank is put back behind the name of an entry's action either.
RenamedGlued(r, a, target) ==
    LET rest == Rest(a, r.action)
        text == (IF rest = <<>> THEN <<>> ELSE <<rest>>) \o r.args
    IN  IF IsPrefix(a, r.action) /\ (target = "hw" \/ Plain(r.table))
        THEN IF text = <<>> THEN [r EXCEPT !.action = Distinct(a, r.table)]
             ELSE [r EXCEPT !.action = Distinct(a, r.table) \o Head(text), !.args = Tail(text)]
        ELSE r
(* instrumentRules: an entry's pattern ends in a blank it puts back, the   *)
(* default action's takes the blanks and puts none.  For the simulator a   *)
(* table in small letters may be cut where the action's name begins in it. *)
Cuts(r, a) ==
    {k \in 1..Len(r.table) : Plain(SubSeq(r.table, 1, k - 1)) /\ IsPrefix(a, SubSeq(r.table, k, Len(r.table)))}
Renamed(r, a, target) ==
    LET rest == Rest(a, r.action)
        text == (IF rest = <<>> THEN <<>> ELSE <<rest>>) \o r.args
    IN  CASE IsPrefix(a, r.action) /\ (target = "hw" \/ Plain(r.table)) ->
               IF r.cmd = "entry" \/ text = <<>>
               THEN [r EXCEPT !.action = Distinct(a, r.table), !.args = text]
               ELSE [r EXCEPT !.action = Distinct(a, r.table) \o Head(text), !.args = Tail(text)]
          [] target = "sim" /\ ~(IsPrefix(a, r.action) /\ Plain(r.table)) /\ Cuts(r, a) # {} ->
               LET k == CHOOSE k \in Cuts(r, a) : \A l \in Cuts(r, a) : l <= k
                   t == SubSeq(r.table, 1, k - 1)
               IN  [r EXCEPT !.table = t, !.action = Distinct(a, t),
                             !.args = <<SubSeq(r.table, k + Len(a), Len(r.table)), r.action>> \o @]
          [] OTHER -> r
RenamedRule(r, names, target) ==
    LET upTo[i \in 0..Len(names)] == IF i = 0 THEN r ELSE Renamed(upTo[i - 1], names[i], target)
    IN  upTo[Len(names)]

\* addAssertExpression: the values that take assert_action, of a 16-bit range.
AssertRange(e) ==
    CASE e.op = "==" -> <<e.value, e.value>>
      [] e.op = "<=" -> <<e.value + 1, 65535>>
      [] e.op = ">=" -> <<0, e.value - 1>>
-----------------------------------------------------------------------------
Init ==
    /\ prog \in Programs
    /\ pass = "GetAction2Tbls"
    /\ tables = prog.tables /\ blocks = prog.blocks /\ rules = prog.rules
    /\ actionTables = <<>> /\ stateActions = {} /\ tableState = <<>> /\ nodes = <<>>
    /\ popular = <<>> /\ bits = <<>> /\ extra = <<>> /\ assertRules = <<>>
    /\ header = <<>> /\ tester = <<>>

Pass(this, next) == pass = this /\ pass' = next /\ UNCHANGED prog

GetAction2Tbls ==
    /\ Pass("GetAction2Tbls", "findStatefulActions")
    /\ actionTables' = ActionTables(prog)
    /\ UNCHANGED <<stateActions, tableState, popular, bits, tables, blocks, rules, nodes,
                   extra, assertRules, header, tester>>

FindStatefulActions ==
    /\ Pass("findStatefulActions", "createStatefulTables")
    /\ stateActions' = {a \in DOMAIN prog.actions : prog.actions[a] = <<"exec">>}
    /\ UNCHANGED <<actionTables, tableState, popular, bits, tables, blocks, rules, nodes,
                   extra, assertRules, header, tester>>

CreateStatefulTables ==
    /\ Pass("createStatefulTables", "GetAction2Nodes")
    /\ tableState' =
         LET alone == {t \in DOMAIN tables : Len(tables[t].actions) = 1 /\ tables[t].actions[1] \in stateActions}
         IN  [t \in alone |-> tables[t].actions[1]]
    /\ UNCHANGED <<actionTables, stateActions, popular, bits, tables, blocks, rules, nodes,
                   extra, assertRules, header, tester>>

GetAction2Nodes ==
    /\ Pass("GetAction2Nodes", "distinguishPopularActions")
    /\ nodes' = [a \in DOMAIN prog.actions |->
                   [stmts |-> [i \in DOMAIN prog.actions[a] |-> Stmt(prog.actions[a][i])], removed |-> FALSE]]
    /\ UNCHANGED <<actionTables, stateActions, tableState, popular, bits, tables, blocks, rules,
                   extra, assertRules, header, tester>>

\* The mentions of popular actions, and the first of each.
Shared(p) == Picked(Mentions(p), {i \in DOMAIN Mentions(p) : IsPopular(ActionTables(p), Mentions(p)[i][1])})
PopularActions(p) ==
    LET ms == Shared(p)
        once == Picked(ms, {i \in DOMAIN ms : \A j \in 1..(i - 1) : ms[j][1] # ms[i][1]})
    IN  [i \in DOMAIN once |-> once[i][1]]
DistinguishPopularActions ==
    LET copies == {Distinct(m[1], m[2]) : m \in Range(Shared(prog))}
        of(n) == IF n \in copies THEN (CHOOSE m \in Range(Shared(prog)) : Distinct(m[1], m[2]) = n)[1] ELSE n
    IN  /\ Pass("distinguishPopularActions", "distinguishPopularActionsForControl")
        /\ popular' = PopularActions(prog)
        /\ bits' = BitsOf(prog, actionTables)
        /\ tables' = [t \in DOMAIN tables |->
                        [tables[t] EXCEPT !.actions = [i \in DOMAIN @ |-> BitOf(actionTables, @[i], t)]]]
        /\ nodes' = [n \in DOMAIN nodes \cup copies |-> nodes[of(n)]]
        /\ UNCHANGED <<actionTables, stateActions, tableState, blocks, rules, extra, assertRules, header, tester>>

\* The substitution is made when the block is printed; no later pass touches cases.
DistinguishPopularActionsForControl ==
    /\ Pass("distinguishPopularActionsForControl", "distinguishDefaultPopularActions")
    /\ blocks' = RenamedCases(blocks, Range(popular))
    /\ UNCHANGED <<actionTables, stateActions, tableState, popular, bits, tables, rules, nodes,
                   extra, assertRules, header, tester>>

DistinguishDefaultPopularActions ==
    /\ Pass("distinguishDefaultPopularActions", "RemoveNodes")
    /\ tables' = [t \in DOMAIN tables |-> [tables[t] EXCEPT !.default = RenamedDefaults(@, t, popular)]]
    /\ UNCHANGED <<actionTables, stateActions, tableState, popular, bits, blocks, rules, nodes,
                   extra, assertRules, header, tester>>

RemoveNodes ==
    /\ Pass("RemoveNodes", "AssignAction2Bitmap")
    /\ nodes' = [a \in DOMAIN nodes |-> [nodes[a] EXCEPT !.removed = IsPopular(actionTables, a)]]
    /\ UNCHANGED <<actionTables, stateActions, tableState, popular, bits, tables, blocks, rules,
                   extra, assertRules, header, tester>>

AssignAction2Bitmap ==
    /\ Pass("AssignAction2Bitmap", "addStatefulTblActions")
    /\ bits' = InOrder(bits)
    /\ UNCHANGED <<actionTables, stateActions, tableState, popular, tables, blocks, rules, nodes,
                   extra, assertRules, header, tester>>

\* astate_t sets the field of the action's name in the source.
AddStatefulTblActions ==
    /\ Pass("addStatefulTblActions", "addModifyTables")
    /\ extra' = extra \o SetToSeq({[table |-> TState \o t, sets |-> tableState[t]] : t \in DOMAIN tableState})
    /\ UNCHANGED <<actionTables, stateActions, tableState, popular, bits, tables, blocks, rules,
                   nodes, assertRules, header, tester>>

\* The assertions in the order addModifyTablesRecurse comes to them.
AssertsMet(p) ==
    LET walked == Walked(p)
        met == [k \in DOMAIN walked |-> p.blocks[walked[k][1]][walked[k][2]]]
    IN  Picked(met, {k \in DOMAIN met : met[k].kind = "assert"})
AddModifyTables ==
    LET asserts == AssertsMet(prog)
    IN  /\ Pass("addModifyTables", "AddVisitedHdr")
        /\ blocks' = WithMarkers(blocks, Walked(prog), DOMAIN tableState)
        /\ extra' = extra \o [i \in DOMAIN asserts |->
                                [table |-> AssertTable(asserts[i].num), sets |-> AssertBit(asserts[i].num)]]
        /\ assertRules' = [i \in DOMAIN asserts |->
                             <<asserts[i].num>> \o AssertRange(prog.asserts[asserts[i].num + 1])]
        /\ UNCHANGED <<actionTables, stateActions, tableState, popular, bits, tables, rules, nodes, header, tester>>

AddVisitedHdr ==
    /\ Pass("AddVisitedHdr", "markActionVisited")
    /\ header' = Layout(bits, Len(Mentions(prog)), Len(prog.asserts))
    /\ UNCHANGED <<actionTables, stateActions, tableState, popular, bits, tables, blocks, rules,
                   nodes, extra, assertRules, tester>>

Marked(a, n) ==
    IF IsPopular(actionTables, a) \/ a \in stateActions THEN n
    ELSE [n EXCEPT !.stmts = Append(@, Mark(a))]
MarkActionVisited ==
    /\ Pass("markActionVisited", "addVisitedType")
    /\ nodes' = [a \in DOMAIN nodes |-> Marked(a, nodes[a])]
    /\ UNCHANGED <<actionTables, stateActions, tableState, popular, bits, tables, blocks, rules,
                   extra, assertRules, header, tester>>

\* At the end of ingress and of egress.
Behind(p, n) ==
    (IF n = p.roots[1] THEN <<Apply(PortCorrection)>> ELSE <<>>)
      \o (IF n \in Range(Tail(p.roots)) THEN <<Apply(VisitedType)>> ELSE <<>>)
AddVisitedType ==
    /\ Pass("addVisitedType", "redirectDroppedPacket")
    /\ blocks' = [n \in DOMAIN blocks |-> blocks[n] \o Behind(prog, n)]
    /\ extra' = Append(extra, [table |-> VisitedType, sets |-> PktType])
    /\ UNCHANGED <<actionTables, stateActions, tableState, popular, bits, tables, rules, nodes,
                   assertRules, header, tester>>

Redirected(stmts) ==
    LET drops == {i \in DOMAIN stmts : stmts[i].op = "drop"}
    IN  Picked(stmts, DOMAIN stmts \ drops) \o [i \in 1..Cardinality(drops) |-> Stmt("redirect")]
RedirectDroppedPacket ==
    /\ Pass("redirectDroppedPacket", "correctPort")
    /\ nodes' = [a \in DOMAIN nodes |-> [nodes[a] EXCEPT !.stmts = Redirected(@)]]
    /\ UNCHANGED <<actionTables, stateActions, tableState, popular, bits, tables, blocks, rules,
                   extra, assertRules, header, tester>>

CorrectPort ==
    /\ Pass("correctPort", "instrumentRules")
    /\ extra' = Append(extra, [table |-> PortCorrection, sets |-> None])
    /\ UNCHANGED <<actionTables, stateActions, tableState, popular, bits, tables, blocks, rules,
                   nodes, assertRules, header, tester>>

InstrumentRules ==
    /\ Pass("instrumentRules", "DTModifier")
    /\ rules' = Append([i \in DOMAIN rules |-> RenamedRule(rules[i], popular, prog.target)],
                       [table |-> PortCorrection, cmd |-> "entry", action |-> PortCorrection, args |-> <<>>])
    /\ UNCHANGED <<actionTables, stateActions, tableState, popular, bits, tables, blocks,
                   nodes, extra, assertRules, header, tester>>

\* The second parse: its own GetAction2Tbls, DistinguishPopularActions, AssignAction2Bitmap.
DTModifier ==
    /\ Pass("DTModifier", "done")
    /\ tester' = Layout(InOrder(BitsOf(prog, ActionTables(prog))), Len(Mentions(prog)), Len(prog.asserts))
    /\ UNCHANGED <<actionTables, stateActions, tableState, popular, bits, tables, blocks, rules,
                   nodes, extra, assertRules, header>>

Next ==
    \/ GetAction2Tbls \/ FindStatefulActions \/ CreateStatefulTables \/ GetAction2Nodes
    \/ DistinguishPopularActions \/ DistinguishPopularActionsForControl \/ DistinguishDefaultPopularActions
    \/ RemoveNodes \/ AssignAction2Bitmap \/ AddStatefulTblActions \/ AddModifyTables \/ AddVisitedHdr
    \/ MarkActionVisited \/ AddVisitedType \/ RedirectDroppedPacket \/ CorrectPort \/ InstrumentRules
    \/ DTModifier

Spec == Init /\ [][Next]_vars
=============================================================================
