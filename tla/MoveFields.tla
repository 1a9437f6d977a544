------------------------------ MODULE MoveFields -------------------------------
(***************************************************************************)
(* The static analysis proper, DAG::getFields: every parser path is sent   *)
(* through the graph of tables and conditions, action by action, keeping   *)
(* for each field the fields it may have been computed from; what a table  *)
(* or a condition looks at is collected, and the collected fields are cut  *)
(* into the groups that seeds mutate together.                             *)
(*                                                                         *)
(* Fields are numbers in the order of their names, names sequences of      *)
(* codes.  A graph is what ControlGraph builds; verdict[i] of a condition  *)
(* holds the values that evaluate may return for parser path i.            *)
(***************************************************************************)
EXTENDS Integers, Sequences, FiniteSets, SequencesExt

CONSTANTS Graphs, HeaderOf

Fields == DOMAIN HeaderOf
ChunkSize == 3
\* The bound of the model: the number of a chunk is one digit.
MaxChunks == 10

NodesOf(g) == DOMAIN g.tables \cup DOMAIN g.ifs
IsGraph(g) ==
    /\ IsFiniteSet(NodesOf(g)) /\ \A n \in NodesOf(g) : n \in Seq(Nat)
    /\ Len(g.paths) \in Nat /\ DOMAIN g.paths = 1..Len(g.paths)
    /\ g.root \subseteq NodesOf(g)
    /\ \A n \in DOMAIN g.tables :
         LET t == g.tables[n]
         IN  /\ t.keys \subseteq Fields /\ t.children \subseteq NodesOf(g)
             /\ IsFiniteSet(t.actions)
             /\ \A a \in t.actions : a.pairs \subseteq Fields \X Fields /\ a.sets \subseteq Fields
    /\ \A n \in DOMAIN g.ifs :
         LET c == g.ifs[n]
         IN  c.fields \subseteq Fields /\ c.yes \subseteq NodesOf(g) /\ c.no \subseteq NodesOf(g)

ASSUME GraphsAssumption ==
    /\ Len(HeaderOf) \in 0..(ChunkSize * MaxChunks) /\ Fields = 1..Len(HeaderOf)
    /\ \A g \in Graphs : IsGraph(g)

VARIABLES graph,
          queue,        \* pathQueue
          finished,     \* finishedPaths
          groups,       \* what getFields returns: name |-> set of fields
          phase

vars == <<graph, queue, finished, groups, phase>>

Nothing == [x \in {} |-> {}]
At(d, k) == IF k \in DOMAIN d THEN d[k] ELSE {}
Plus(d, k, more) == [x \in DOMAIN d \cup {k} |-> IF x = k THEN At(d, k) \cup more ELSE d[x]]
WithSources(dict, fs) == fs \cup UNION {At(dict, f) : f \in fs}
IsTable(g, n) == n \in DOMAIN g.tables

(* What an action with some keys does to the dictionary: the pairs in the  *)
(* order of the set they are kept in, then the fields set otherwise.       *)
NF == Len(HeaderOf)
PairAt(i) == <<((i - 1) \div NF) + 1, ((i - 1) % NF) + 1>>
PairedWithoutKeys(d, keys, x) == Plus(d, x[1], WithSources(d, {x[2]}))   \* mutant
Paired(d, keys, x) == Plus(d, x[1], WithSources(d, {x[2]} \cup keys))
PairsExecuted(dict, keys, pairs) ==
    LET upTo[i \in 0..(NF * NF)] ==
          IF i = 0 THEN dict
          ELSE IF PairAt(i) \in pairs THEN Paired(upTo[i - 1], keys, PairAt(i)) ELSE upTo[i - 1]
    IN  upTo[NF * NF]
SetsExecuted(dict, keys, sets) ==
    LET upTo[f \in 0..NF] ==
          IF f = 0 THEN dict
          ELSE IF f \in sets THEN Plus(upTo[f - 1], f, WithSources(upTo[f - 1], keys)) ELSE upTo[f - 1]
    IN  upTo[NF]
Executed(dict, keys, a) == SetsExecuted(PairsExecuted(dict, keys, a.pairs), keys, a.sets)

GoOn(path, nodes) ==
    LET s == SetToSeq(nodes) IN [i \in DOMAIN s |-> [path EXCEPT !.node = s[i]]]
-----------------------------------------------------------------------------
Init ==
    /\ graph \in Graphs
    /\ LET start(i) == [parser |-> i, node |-> <<>>, dict |-> Nothing, out |-> Nothing, clean |-> Nothing, steps |-> <<>>]
       IN  queue = FlattenSeq([i \in DOMAIN graph.paths |-> GoOn(start(i), graph.root)])
    /\ finished = {} /\ groups = Nothing /\ phase = "walk"

\* A table: one path for each of its actions and each child, none for a table
\* whose actions process nothing.
ExecuteTable ==
    /\ phase = "walk" /\ queue # <<>> /\ IsTable(graph, Head(queue).node)
    /\ LET p == Head(queue)
           t == graph.tables[p.node]
           looked == [p EXCEPT !.out = Plus(@, p.node, WithSources(p.dict, t.keys))]
           after(a) == [looked EXCEPT !.dict = Executed(@, t.keys, a),
                                      !.steps = Append(@, <<p.node, a>>)]
           ends(a) == a.drop \/ t.children = {}
           actions == SetToSeq({a \in t.actions : ~ends(a)})
       IN  /\ queue' = Tail(queue) \o
                         FlattenSeq([i \in DOMAIN actions |-> GoOn(after(actions[i]), t.children)])
           /\ finished' = finished \cup {after(a) : a \in {b \in t.actions : ends(b)}}
    /\ UNCHANGED <<graph, groups, phase>>

\* A condition: the side its verdict names, both when it is not known.
EvaluateIf ==
    /\ phase = "walk" /\ queue # <<>> /\ ~IsTable(graph, Head(queue).node)
    /\ LET p == Head(queue)
           c == graph.ifs[p.node]
           looked == [p EXCEPT !.out = Plus(@, p.node, WithSources(p.dict, c.fields)),
                               !.steps = Append(@, <<p.node>>)]
       IN  \E verdict \in c.verdict[p.parser] :
             LET yes == IF verdict = "FALSE" THEN {} ELSE c.yes
                 no == IF verdict = "TRUE" THEN {} ELSE c.no
             IN  /\ queue' = Tail(queue) \o GoOn(looked, yes) \o GoOn(looked, no)
                 /\ finished' = IF yes \cup no = {} THEN finished \cup {looked} ELSE finished
    /\ UNCHANGED <<graph, groups, phase>>
-----------------------------------------------------------------------------
(***************************************************************************)
(* Names are sequences of codes; the later of two equal groups stays, and  *)
(* a chunk replaces a group that has the chunk's name already.             *)
(***************************************************************************)
Before(m, n) ==
    \E k \in 1..Len(n) : /\ k <= Len(m) + 1 /\ \A j \in 1..(k - 1) : m[j] = n[j]
                         /\ k <= Len(m) => m[k] < n[k]

RemoveMetadata(out, headers) ==
    LET valid(n) == {f \in out[n] : HeaderOf[f] \in headers}
    IN  [n \in {m \in DOMAIN out : valid(m) # {}} |-> valid(n)]

SplitDropsRest(out) ==   \* mutant
    LET rank(f, s) == Cardinality({g \in s : g < f})
        chunk(n) == {f \in out[n] : rank(f, out[n]) < ChunkSize}
    IN  [n \in DOMAIN out |-> chunk(n)]
SplitLarge(out) ==
    LET large == {n \in DOMAIN out : Cardinality(out[n]) > ChunkSize}
        rank(f, s) == Cardinality({g \in s : g < f})
        chunk(n, i) == {f \in out[n] : rank(f, out[n]) \div ChunkSize = i}
        chunks == {Append(n, i) : n \in large, i \in 0..(MaxChunks - 1)}
        additions == {x \in chunks : chunk(Front(x), Last(x)) # {}}
    IN  [x \in additions \cup (DOMAIN out \ large) |->
           IF x \in additions THEN chunk(Front(x), Last(x)) ELSE out[x]]

RemoveVectorDuplicates(out) ==
    [n \in {m \in DOMAIN out : \A k \in DOMAIN out : out[k] = out[m] => ~Before(m, k)} |-> out[n]]

Cleaned(p) ==
    RemoveVectorDuplicates(SplitLarge(RemoveMetadata(p.out, graph.paths[p.parser])))

\* The parser path is part of a group's name if the path has several groups.
ParserCode == 50
ParserName(i) == <<ParserCode>> \o (IF i <= 10 THEN <<i - 1>> ELSE <<(i - 1) \div 10, (i - 1) % 10>>)
Label(p, n) == IF Cardinality(DOMAIN p.clean) > 1 THEN n \o ParserName(p.parser) ELSE n

Collected(paths) ==
    LET named == UNION {{<<Label(p, n), p.clean[n]>> : n \in DOMAIN p.clean} : p \in paths}
    IN  [n \in {x[1] : x \in named} |-> UNION {x[2] : x \in {y \in named : y[1] = n}}]

Clean ==
    /\ phase = "walk" /\ queue = <<>>
    /\ finished' = {[p EXCEPT !.clean = Cleaned(p)] : p \in finished}
    /\ phase' = "clean"
    /\ UNCHANGED <<graph, queue, groups>>

Finish ==
    /\ phase = "clean"
    /\ groups' = RemoveVectorDuplicates(SplitLarge(Collected(finished)))
    /\ phase' = "done"
    /\ UNCHANGED <<graph, queue, finished>>

Next == ExecuteTable \/ EvaluateIf \/ Clean \/ Finish

Spec == Init /\ [][Next]_vars /\ WF_vars(ExecuteTable \/ EvaluateIf)
-----------------------------------------------------------------------------
\* Properties

TypeOK ==
    /\ phase \in {"walk", "clean", "done"}
    /\ \A p \in Range(queue) \cup finished :
         /\ p.parser \in DOMAIN graph.paths
         /\ p.node \in NodesOf(graph)
         /\ (UNION Range(p.out)) \cup (UNION Range(p.dict)) \subseteq Fields
    /\ \A n \in DOMAIN groups : groups[n] \subseteq Fields

(* The reference for the dictionaries: what the keys of step i depend on,  *)
(* going back over the actions before it, whose statements all read the    *)
(* values from before the action.  A field an action writes depends on the *)
(* keys that chose the action, and no longer on itself.                    *)
NeedBefore(p, i) ==
    LET looks(j) == IF IsTable(graph, p.steps[j][1]) THEN graph.tables[p.steps[j][1]].keys
                    ELSE graph.ifs[p.steps[j][1]].fields
        back(j, need) ==
          IF ~IsTable(graph, p.steps[j][1]) THEN need
          ELSE LET a == p.steps[j][2]
                   written == {x[1] : x \in a.pairs} \cup a.sets
               IN  (need \ written) \cup {x[2] : x \in {y \in a.pairs : y[1] \in need}}
                     \cup (IF written \cap need = {} THEN {} ELSE looks(j))
        N[j \in 1..i] == IF j = i THEN looks(i) ELSE back(j, N[j + 1])
    IN  N[1]

\* The walk of a program whose graph has no cycle ends, and then the fields, as the
\* packet arrived with them, that decide what a table or a condition on a path sees
\* are collected for it: through copies, through the keys that chose an action, and
\* through any number of tables (DAG::getFields).
FlowsFound ==
    <>(/\ queue = <<>>
       /\ \A p \in finished : \A i \in DOMAIN p.steps :
            NeedBefore(p, i) \subseteq At(p.out, p.steps[i][1]))

\* The names that come into being collide with none there is: no table is named
\* like another with a digit or holds "_parser_", there are at most ten parser
\* paths, and one-group paths that share a name have the same headers.
Nodes == NodesOf(graph)
NamesDistinct ==
    /\ Len(graph.paths) <= 10
    /\ \A m, n \in Nodes : \A d \in 0..9 : Append(m, d) # n
    /\ \A n \in Nodes : ParserCode \notin Range(n)
    /\ \A p, q \in finished : \A n \in DOMAIN p.clean \cap DOMAIN q.clean :
         (Label(p, n) = n /\ Label(q, n) = n) => graph.paths[p.parser] = graph.paths[q.parser]

\* What a finished path has collected survives the cleaning, merging and
\* splitting, in a group that the seeds of some parser path can mutate: one all
\* of whose headers are on it.  The groups are of the size the generator has
\* registers for, and no two of them are equal: each takes one of the sixteen
\* numbers a seed's packets draw.
NothingLost ==
    /\ TypeOK
    /\ \A m, n \in DOMAIN groups : /\ Cardinality(groups[m]) \in 1..3
                                   /\ groups[m] = groups[n] => m = n
    /\ (phase = "done" /\ NamesDistinct) =>
         \A p \in finished : \A f \in UNION Range(p.out) :
            HeaderOf[f] \in graph.paths[p.parser] =>
                \E n \in DOMAIN groups : \E i \in DOMAIN graph.paths :
                    f \in groups[n] /\ {HeaderOf[g] : g \in groups[n]} \subseteq graph.paths[i]
==============================================================================
