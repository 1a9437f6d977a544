----------------------------- MODULE StaticAnalysis ----------------------------
(***************************************************************************)
(* The static analysis of a program: MoveFields on the graph ControlGraph  *)
(* makes of its control blocks, against what the program does with a       *)
(* packet.                                                                 *)
(***************************************************************************)
EXTENDS MoveFields, ControlGraph

\* A program: [decls, ingress, egress, paths].
Analysed(q) ==
    ControlGraph(q.decls, q.ingress, q.egress, q.paths) @@ [program |-> q]

(* The reference: what the program does with a packet.  A run is           *)
(* [tables, hdrs, astray]: the tables applied so far, the headers the      *)
(* packet now has, and whether the analysis has lost it.  An action leaves *)
(* the headers as its statements make them; a table runs any of its        *)
(* actions or none, and the case of any; a condition is decided as far as  *)
(* the headers of the packet decide it.  (A drop ends a run early: it      *)
(* applies no more than the run that goes on.)                             *)
HeadersAfter(stmts, hdrs) ==
    LET after[i \in 0..Len(stmts)] ==
          IF i = 0 THEN {hdrs}
          ELSE IF stmts[i].cmd # "header" THEN after[i - 1]
          ELSE {IF there THEN h \cup {stmts[i].hdr} ELSE h \ {stmts[i].hdr} :
                  h \in after[i - 1], there \in stmts[i].valid}
    IN  after[Len(stmts)]
Applied(q, t, r) ==
    {[r EXCEPT !.tables = @ \cup {t}, !.hdrs = h] :
       h \in UNION {HeadersAfter(a, r.hdrs) : a \in {<<>>} \cup q.decls[t].actions}}

\* A block that applies and decides nothing, and one each of whose ifs has two
\* branches that do.
RECURSIVE Idle(_)
Idle(block) == \A i \in DOMAIN block : block[i].kind = "call" /\ Idle(block[i].block)
Else(s) == IF s.else = <<>> THEN <<>> ELSE s.else[1]
RECURSIVE TwoSided(_)
TwoSided(block) ==
    \A i \in DOMAIN block :
        LET s == block[i]
        IN  CASE s.kind = "apply" -> \A j \in DOMAIN s.cases : TwoSided(s.cases[j])
              [] s.kind = "call" -> TwoSided(s.block)
              [] s.kind = "if" -> \A b \in {s.then, Else(s)} : ~Idle(b) /\ TwoSided(b)

(* A run goes astray where the graph has no way for it: at a condition     *)
(* that the headers the parser found decide otherwise, since the analysis  *)
(* passes validHeaders by value and no action changes them; on a side of   *)
(* an if that is idle or not there; past a select without taking a case,   *)
(* if a way through one of the cases is missing.                           *)
RECURSIVE Runs(_, _, _, _)
After(q, s, r, parsed) ==
    CASE s.kind = "apply" ->
           LET lost == ~TwoSided(<<s>>)
           IN  UNION {Runs(q, b, hit, parsed) : b \in Range(s.cases), hit \in Applied(q, s.table, r)}
                 \cup {[hit EXCEPT !.astray = lost] : hit \in Applied(q, s.table, r)}
      [] s.kind = "call" -> Runs(q, s.block, r, parsed)
      [] s.kind = "if" ->
           LET verdicts == Evaluate(s.cond, r.hdrs)
               to(b) == Runs(q, b, [r EXCEPT !.astray = Idle(b) \/ verdicts # Evaluate(s.cond, parsed)], parsed)
           IN  (IF verdicts = {"FALSE"} THEN {} ELSE to(s.then))
                 \cup (IF verdicts = {"TRUE"} THEN {} ELSE to(Else(s)))
Runs(q, block, r, parsed) ==
    IF block = <<>> \/ r.astray THEN {r}
    ELSE UNION {Runs(q, Tail(block), next, parsed) : next \in After(q, Head(block), r, parsed)}

RECURSIVE Conditions(_)
Conditions(block) ==
    UNION {LET s == block[i]
           IN  CASE s.kind = "apply" -> UNION {Conditions(s.cases[j]) : j \in DOMAIN s.cases}
                 [] s.kind = "call" -> Conditions(s.block)
                 [] s.kind = "if" -> {s.cond} \cup Conditions(s.then)
                                       \cup UNION {Conditions(s.else[j]) : j \in DOMAIN s.else}
           : i \in DOMAIN block}

\* A program whose walk is not cut short: a condition has one verdict, and every
\* table an action that processes the packet and lets it go on.
Decided(q) ==
    /\ \A c \in Conditions(q.ingress \o q.egress), i \in DOMAIN q.paths :
         Cardinality(Evaluate(c, q.paths[i])) = 1
    /\ \A t \in DOMAIN q.decls : \E a \in q.decls[t].actions : a # <<>> /\ ~ActionOf(a).drop

Looked(q, i) ==
    LET runs == Runs(q, q.ingress \o q.egress,
                     [tables |-> {}, hdrs |-> q.paths[i], astray |-> FALSE], q.paths[i])
    IN  {f \in UNION {q.decls[t].keys : t \in UNION {r.tables : r \in runs}} : HeaderOf[f] \in q.paths[i]}

\* Every field that a table looks at in some run of the program on a packet is,
\* if the packet arrived with the field's header, in a group that the seeds with
\* the packet's headers can mutate, unless the run has gone astray before: actions
\* that add and remove headers do not by themselves hide a table from the analysis
\* (DAG::getFields).
Mutable(hdrs) == UNION {groups[n] : n \in {m \in DOMAIN groups : \A f \in groups[m] : HeaderOf[f] \in hdrs}}
KeysMutated ==
    (phase = "done" /\ NamesDistinct /\ Decided(graph.program)) =>
        \A i \in DOMAIN graph.program.paths :
          Looked(graph.program, i) \subseteq Mutable(graph.program.paths[i])

RECURSIVE Compared(_)
Compared(e) ==
    IF Leaf(e) THEN {}
    ELSE Compared(e.left) \cup Compared(e.right)
           \cup (IF e.op = "==" THEN {<<e.left, e.right>>} ELSE {})

\* The values the controller is told to try hold every comparison with "==" of a
\* program's conditions and nothing else, however they are nested; a value may be
\* repeated.
FixedValuesOf(q) ==
    \A e \in Conditions(q.ingress \o q.egress) :
        Range(GetFixedValues(e, <<>>)) = Compared(e)
=============================================================================
