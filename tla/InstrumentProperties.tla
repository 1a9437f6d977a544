-------------------------- MODULE InstrumentProperties -------------------------
(***************************************************************************)
(* What the instrumented program owes the tester: it runs as the program   *)
(* does, its reports name exactly the actions taken, and everything it     *)
(* mentions is declared.                                                   *)
(***************************************************************************)
EXTENDS Instrument

Done == pass = "done"
Taken(a, t) == BitOf(ActionTables(prog), a, t)
ProgramTables == DOMAIN prog.tables
Actions(t) == Range(prog.tables[t].actions)
InProgram(n) == Range(prog.blocks[n])
Selects == {s \in UNION {InProgram(n) : n \in DOMAIN prog.blocks} : s.kind = "apply" /\ s.cases # <<>>}

(* The blocks that a block leads to, the ones of called controls included. *)
Children(s) ==
    CASE s.kind = "apply" -> {s.cases[j].block : j \in DOMAIN s.cases}
      [] s.kind = "call" -> {s.block}
      [] s.kind = "if" -> {s.then} \cup Range(s.else)
      [] OTHER -> {}
Leads(bs) ==
    LET upTo[n \in 0..Len(bs)] ==
          IF n = 0 THEN <<>>
          ELSE LET before == upTo[n - 1]
               IN  Append(before, {n} \cup UNION {UNION {before[m] : m \in Children(bs[n][i])} : i \in DOMAIN bs[n]})
    IN  upTo[Len(bs)]
\* The blocks a packet may come to.
Live == UNION {Leads(prog.blocks)[c] : c \in Range(prog.roots)}

(* The runs of a block, each the sequence of the <<table, action>> a       *)
(* packet takes.  A table takes any of its actions; a condition, either    *)
(* branch; a case is taken by the action of its name.                      *)
Joined(A, B) == {l \o r : l \in A, r \in B}
CaseRuns(s, a, into) ==
    LET js == {j \in DOMAIN s.cases : s.cases[j].on = a}
    IN  IF js = {} THEN {<<>>} ELSE UNION {into[s.cases[j].block] : j \in js}
StatementRuns(s, into, acts) ==
    CASE s.kind = "apply" -> UNION {Joined({<<<<s.table, a>>>>}, CaseRuns(s, a, into)) : a \in acts[s.table]}
      [] s.kind = "call" -> into[s.block]
      [] s.kind = "if" -> into[s.then] \cup IF s.else = <<>> THEN {<<>>} ELSE into[s.else[1]]
      [] OTHER -> {<<>>}
BlockRuns(b, into, acts) ==
    LET upTo[i \in 0..Len(b)] ==
          IF i = 0 THEN {<<>>} ELSE Joined(upTo[i - 1], StatementRuns(b[i], into, acts))
    IN  upTo[Len(b)]
Runs(bs, acts) ==
    LET upTo[n \in 0..Len(bs)] ==
          IF n = 0 THEN <<>>
          ELSE LET before == upTo[n - 1] IN Append(before, BlockRuns(bs[n], before, acts))
    IN  upTo[Len(bs)]

ProgramRuns == Runs(prog.blocks, [t \in ProgramTables |-> Actions(t)])
InstrumentedActions ==
    LET added == {e.table : e \in Range(extra)}
    IN  [t \in ProgramTables \cup added |-> IF t \in ProgramTables THEN Range(tables[t].actions) ELSE {None}]
InstrumentedRuns == Runs(blocks, InstrumentedActions)
OfProgram(run) == Picked(run, {i \in DOMAIN run : run[i][1] \in ProgramTables})
Renaming(run) == [i \in DOMAIN run |-> <<run[i][1], Taken(run[i][2], run[i][1])>>]

Fields(stmts) == {stmts[i].field : i \in {j \in DOMAIN stmts : stmts[j].op = "mark"}}
Sets(x) ==
    IF x[1] \notin ProgramTables THEN {e.sets : e \in {f \in Range(extra) : f.table = x[1]}}
    ELSE IF x[2] \in DOMAIN nodes THEN Fields(nodes[x[2]].stmts) ELSE {}
Reported(run) == (UNION {Sets(run[i]) : i \in DOMAIN run}) \ {None, PktType}
Declared == {header[i][1] : i \in DOMAIN header}
Exists(a) == a \in DOMAIN nodes /\ ~nodes[a].removed
-----------------------------------------------------------------------------
\* What the passes ask of a program without a test of theirs.

(* A stateful action stands alone in its one table, which is applied       *)
(* without cases and where addModifyTablesRecurse looks for it.            *)
StatefulAlone ==
    \A t \in ProgramTables : \A a \in Actions(t) \cap stateActions :
        /\ prog.tables[t].actions = <<a>> /\ ~IsPopular(ActionTables(prog), a)
        /\ \A s \in Selects : s.table # t
        /\ \A n \in Live : \A i \in DOMAIN prog.blocks[n] :
             prog.blocks[n][i] = Apply(t) => <<n, i>> \in Range(Walked(prog))
\* Only the first case of a table in small letters has the name of a popular action.
FirstCasesOnly ==
    \A s \in Selects : \A j \in DOMAIN s.cases :
        s.cases[j].on \in Range(popular) => j = 1 /\ Plain(s.table)
AllActionsUsed ==
    /\ \A a \in DOMAIN prog.actions : \E t \in ProgramTables : a \in Actions(t)
    /\ \A a \in stateActions : ~IsPopular(ActionTables(prog), a)
\* No other popular action's name is the beginning of what is to become of a.
NoneBegins(a, t) == \A b \in Range(popular) : IsPrefix(b, Taken(a, t)) => b = a
AssertsReachedOnce ==
    LET walked == Walked(prog)
    IN  \A n \in 0..(Len(prog.asserts) - 1) :
          Cardinality({k \in DOMAIN walked :
                         prog.blocks[walked[k][1]][walked[k][2]] = [kind |-> "assert", num |-> n]}) = 1
-----------------------------------------------------------------------------
\* Every bit is for one mention of an action, the popular actions are listed
\* once (distinguishPopularActions), and what is applied is declared.
TypeOK ==
    /\ prog \in Programs
    /\ IsInjective(popular) /\ Range(popular) \subseteq DOMAIN prog.actions
    /\ Len(bits) \in {0, Len(Mentions(prog))}
    /\ DOMAIN tables = ProgramTables /\ DOMAIN blocks = DOMAIN prog.blocks
    /\ Done => \A n \in DOMAIN blocks : \A s \in Range(blocks[n]) :
                  s.kind = "apply" => s.table \in DOMAIN InstrumentedActions

(* An action that drops never does so any more, and the last port it sets  *)
(* is the one the tester watches (redirectDroppedPacket).                  *)
DropsRedirected ==
    \A a \in DOMAIN nodes :
        LET stmts == nodes[a].stmts
            drops(b) == "drop" \in Range(prog.actions[b])
        IN  /\ \A i \in DOMAIN stmts : stmts[i].op # "drop"
            /\ \A b \in DOMAIN prog.actions, t \in ProgramTables :
                 drops(b) /\ a \in {b, Distinct(b, t)} =>
                   \E i \in DOMAIN stmts :
                     /\ stmts[i].op = "redirect"
                     /\ \A j \in DOMAIN stmts : stmts[j].op = "forward" => j < i

(* The instrumented blocks take a packet through the tables the program    *)
(* takes it through, actions renamed: the renaming in tables and in cases  *)
(* agree, and the added tables change no way (UTModifier).  What an action *)
(* does to the packet differs in one thing, that it is not dropped.        *)
SameRuns ==
    Done => /\ DropsRedirected
            /\ FirstCasesOnly =>
                 LET was == ProgramRuns
                     is == InstrumentedRuns
                 IN  \A c \in Range(prog.roots) : {OfProgram(r) : r \in is[c]} = {Renaming(r) : r \in was[c]}

Fails(e, v) == CASE e.op = "==" -> v # e.value [] e.op = "<=" -> v > e.value [] e.op = ">=" -> v < e.value
BitTells(n) ==
    LET e == prog.asserts[n + 1]
        ranges == {r \in Range(assertRules) : r[1] = n}
    IN  \A v \in {0, e.value - 1, e.value, e.value + 1, 65535} \cap 0..65535 :
            Fails(e, v) <=> \E r \in ranges : v \in r[2]..r[3]
(* An assertion that is applied has its table once, and its entry matches  *)
(* exactly the values that fail it (addAssertTable, addAssertExpression).  *)
AssertsInstrumented ==
    \A n \in 0..(Len(prog.asserts) - 1) :
        /\ Cardinality({i \in DOMAIN extra : extra[i].table = AssertTable(n)}) = 1
        /\ AssertBit(n) \in Declared
        /\ prog.asserts[n + 1].op # "==" => BitTells(n)

(* A packet's report says what happened to it: it names exactly the actions *)
(* taken, each with the table if several have it (markActionVisited,       *)
(* addStatefulTblActions, addModifyTables), and the assertions that failed, *)
(* all in fields of the header.                                            *)
ReportsExact ==
    Done => /\ AssertsReachedOnce => AssertsInstrumented
            /\ StatefulAlone =>
                 LET runs == InstrumentedRuns
                 IN  \A c \in Range(prog.roots) : \A r \in runs[c] :
                   /\ Reported(r) = {x[2] : x \in Range(OfProgram(r))}
                   /\ Reported(r) \subseteq Declared

(* No action that is printed writes a field of fp4_visited that is         *)
(* declared never or twice: the target's compiler would refuse it.         *)
FieldsDeclared ==
    \A f \in (UNION {Fields(nodes[a].stmts) : a \in {b \in DOMAIN nodes : Exists(b)}})
               \cup {e.sets : e \in Range(extra)} :
        f # None => Cardinality({i \in DOMAIN header : header[i][1] = f}) = 1

(* Tables and their default actions name printed actions only, a default   *)
(* one of the table's own (distinguishDefaultPopularActions, RemoveNodes). *)
ActionsResolve ==
    \A t \in ProgramTables :
        /\ \A a \in Range(tables[t].actions) : Exists(a)
        /\ LET d == tables[t].default
           IN  /\ d # None
               /\ d.args = "other" => prog.tables[t].default.name \notin Range(popular)
               /\ NoneBegins(prog.tables[t].default.name, t)
               => d.name \in Range(tables[t].actions)

(* The passes keep their maps in order, and whatever the program they end  *)
(* with mentions, it declares.                                             *)
NamesResolve ==
    TypeOK /\ (Done => (AllActionsUsed => FieldsDeclared) /\ ActionsResolve)

(* The copied entries name the actions their tables now have, table and    *)
(* arguments as they were (instrumentRules).                               *)
RulesRenamed ==
    LET plainRule(r) ==
          /\ r.cmd = "default" => r.args = <<>>
          /\ NoneBegins(r.action, r.table)
          /\ prog.target = "sim" => Plain(r.table) /\ \A a \in Range(popular) : Cuts(r, a) = {}
    IN  Done => \A i \in DOMAIN prog.rules :
                  plainRule(prog.rules[i]) =>
                    rules[i] = [prog.rules[i] EXCEPT !.action = Taken(@, prog.rules[i].table)]

(* The tester parses the header the program under test sends: the same     *)
(* fields in the same order, ending on a byte (DeclVisitedHdr, twice).     *)
Width(fields) ==
    LET upTo[i \in 0..Len(fields)] == IF i = 0 THEN 0 ELSE upTo[i - 1] + fields[i][2]
    IN  upTo[Len(fields)]
LayoutsAgree ==
    Done => /\ header = tester
            /\ Width(header) % 8 = 0
-----------------------------------------------------------------------------
\* What the tester's comment says of every assertion.

(* "Check new actions explored or any assertion failure" (dt.cpp:99): the  *)
(* bit of an assertion is set by the values that fail it.                  *)
BitsTellFailures ==
    Done /\ AssertsReachedOnce => \A n \in 0..(Len(prog.asserts) - 1) : BitTells(n)
=============================================================================
