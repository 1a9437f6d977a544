------------------------------ MODULE ParserGraph ------------------------------
(***************************************************************************)
(* The enumeration of the paths through the parser of the program under    *)
(* test (class ParserGraph): a work queue of partial paths is extended     *)
(* state by state until every path has reached control ingress, at most    *)
(* Cap + 1 paths being created; then the elements of a header stack are    *)
(* merged and the paths are handed to the static analysis and to the       *)
(* controller, which builds one seed packet from each.                     *)
(*                                                                         *)
(* A P4 field is the triple <<header, index, field>>, with NoIndex for a   *)
(* header named without an index.                                          *)
(***************************************************************************)
EXTENDS Integers, Sequences, FiniteSets, SequencesExt

CONSTANTS Sources,      \* the parser declarations of the programs considered
          StackSize,    \* function: header stack |-> number of its elements
          FirstField,   \* function: header |-> the first field of its type
          Instances,    \* names of header instances (metadata is not among them)
          Start, Ingress,
          Cap,          \* 100 in the code
          PacketValues  \* values of a header's word, in the packets of a property

NoIndex == -1
NoValue == ""
Stacks == DOMAIN StackSize

VARIABLES prog,         \* nameToState: what the declarations were turned into
          stack,        \* the queue of incomplete paths
          pathList,     \* the paths that have reached ingress
          visited,      \* visitedStates
          phase,        \* "explore", "done", "underrun"
          output        \* what GetExtractSequence leaves for its readers

vars == <<prog, stack, pathList, visited, phase, output>>

(***************************************************************************)
(* The graph.  Of several selected fields the last one stays, and so does  *)
(* the last default; the values of a select keep their order, their masks  *)
(* are dropped.  A select without a default leaves defaultTransition empty *)
(* and the walk a null state: such parsers are left out (GraphAssumption). *)
(***************************************************************************)
StateOf(d) ==
    LET isDefault(c) == c.value = "default"
        defaults == SelectSeq(d.cases, isDefault)
        notDefault(c) == ~isDefault(c)
    IN  [extracts |-> d.extracts,
         sets     |-> d.sets,
         match    |-> IF d.select = <<>> THEN [kind |-> "none"] ELSE Last(d.select),
         trans    |-> SelectSeq(d.cases, notDefault),
         default  |-> IF defaults = <<>> THEN d.ret ELSE Last(defaults).to]

Built(source) == [s \in DOMAIN source |-> StateOf(source[s])]

\* Every transition of a parser names one of its states, and so does a lack of one.
ASSUME GraphAssumption ==
    /\ Cap \in Nat /\ StackSize \in [Stacks -> Nat]
    /\ \A src \in Sources :
         /\ {Start, Ingress} \subseteq DOMAIN Built(src)
         /\ \A s \in DOMAIN Built(src) :
              LET st == Built(src)[s]
              IN  /\ st.extracts \in Seq(Range(st.extracts))
                  /\ st.trans \in Seq(Range(st.trans))
                  /\ st.default \in DOMAIN Built(src)
                  /\ \A i \in DOMAIN st.trans : st.trans[i].to \in DOMAIN Built(src)

(***************************************************************************)
(* One path.  hdrs are the extracted headers, fixed the values its         *)
(* branches demand, future the value demanded of bits no header names yet, *)
(* stacks the elements used of each stack, meta the pairs of a metadata    *)
(* field and a field it was set from.                                      *)
(***************************************************************************)
NoFixed == [x \in {} |-> NoValue]
EmptyPath == [states |-> <<Start>>, hdrs |-> <<>>, fixed |-> NoFixed, future |-> NoValue,
              stacks |-> [h \in Stacks |-> 0], meta |-> {}]

At(path) == Last(path.states)
NamedFirst(header, path) == IF header = "latest" THEN Head(path.hdrs) ELSE header
Named(header, path) == IF header = "latest" THEN Last(path.hdrs) ELSE header
Occurs(h, s) == Cardinality({i \in DOMAIN s : s[i] = h})
Override(f, key, value) == [x \in DOMAIN f \cup {key} |-> IF x = key THEN value ELSE f[x]]

\* The path after its last state has set its metadata and extracted its headers.
Visit(path) ==
    LET st == prog[At(path)]
    IN  [path EXCEPT !.meta = @ \cup {<<x.lhs, <<Named(x.hdr, path), x.field>>>> : x \in st.sets},
                     !.hdrs = @ \o st.extracts,
                     !.stacks = [h \in Stacks |-> @[h] + Occurs(h, st.extracts)]]

OverfullAtSize(path) == \E h \in Stacks : Visit(path).stacks[h] >= StackSize[h]
OverfullLate(path) == \E h \in Stacks : Visit(path).stacks[h] > StackSize[h] + 1
Overfull(path) == \E h \in Stacks : Visit(path).stacks[h] > StackSize[h]

\* The copy a path goes on as: the copy constructor leaves the metadata behind.
Copied(path, next) == [path EXCEPT !.states = Append(@, next), !.meta = {}]

\* The field a select of the path's last state looks at.
Selected(path) ==
    LET m == prog[At(path)].match
        h == Named(m.hdr, path)
    IN  <<h, IF m.hdr = "latest" /\ h \in Stacks THEN path.stacks[h] - 1 ELSE NoIndex, m.field>>

Branch(path, t) ==
    LET copy == Copied(path, t.to)
        matched == IF prog[At(path)].match.kind = "current"
                   THEN [copy EXCEPT !.future = t.value]
                   ELSE [copy EXCEPT !.fixed = Override(@, Selected(path), t.value)]
        ext == prog[t.to].extracts
    IN  IF matched.future # NoValue /\ ext # <<>>
        THEN [matched EXCEPT !.fixed  = Override(@, <<ext[1], NoIndex, FirstField[ext[1]]>>,
                                                 matched.future),
                             !.future = NoValue]
        ELSE matched

DefaultBranch(path) == [Copied(path, prog[At(path)].default) EXCEPT !.future = NoValue]

\* How many of the transitions the limit still lets through, and whether the
\* default comes after them.
Taken(path) ==
    LET room == IF visited > Cap THEN 0 ELSE Cap + 1 - visited
        n == Len(prog[At(path)].trans)
    IN  IF n < room THEN n ELSE room
DefaultTaken(path) == visited + Taken(path) <= Cap

AddPathToStack(path) ==
    [i \in 1..Taken(path) |-> Branch(path, prog[At(path)].trans[i])]
       \o (IF DefaultTaken(path) THEN <<DefaultBranch(path)>> ELSE <<>>)
-----------------------------------------------------------------------------
Init ==
    /\ \E src \in Sources : prog = Built(src)
    /\ stack = <<EmptyPath>> /\ pathList = <<>> /\ visited = 0
    /\ phase = "explore" /\ output = <<>>

Exploring == phase = "explore" /\ stack # <<>>

\* The oldest path has reached ingress.
TakeComplete ==
    /\ Exploring /\ At(Head(stack)) = Ingress
    /\ pathList' = Append(pathList, Head(stack))
    /\ stack' = Tail(stack)
    /\ UNCHANGED <<prog, visited, phase, output>>

\* Its last state extracts more elements than a stack has.
DropInvalid ==
    /\ Exploring /\ At(Head(stack)) # Ingress /\ Overfull(Head(stack))
    /\ stack' = Tail(stack)
    /\ UNCHANGED <<prog, pathList, visited, phase, output>>

Extend ==
    /\ Exploring /\ At(Head(stack)) # Ingress /\ ~Overfull(Head(stack))
    /\ LET path == Visit(Head(stack))
       IN  /\ stack' = Tail(stack) \o AddPathToStack(path)
           /\ visited' = visited + Taken(path) + (IF DefaultTaken(path) THEN 1 ELSE 0)
    /\ UNCHANGED <<prog, pathList, phase, output>>
-----------------------------------------------------------------------------
(***************************************************************************)
(* Merging: a run of elements of one stack becomes <<stack, length>>, any  *)
(* other header <<header, 0>>.  The name of the previous header is carried *)
(* over from path to path, and a path that starts with the stack the path  *)
(* before it ended in writes before its first header.                      *)
(***************************************************************************)
ContinuesAnyHeader(s, i) == i > 1 /\ s[i - 1] = s[i]
Continues(s, i) == s[i] \in Stacks /\ i > 1 /\ s[i - 1] = s[i]
Merged(s) ==
    LET upTo[i \in 0..Len(s)] ==
          IF i = 0 THEN <<>>
          ELSE LET m == upTo[i - 1]
               IN  IF Continues(s, i) THEN [m EXCEPT ![Len(m)] = <<@[1], @[2] + 1>>]
                   ELSE Append(m, <<s[i], IF s[i] \in Stacks THEN 1 ELSE 0>>)
    IN  upTo[Len(s)]

Underruns ==
    \E j \in DOMAIN pathList, k \in DOMAIN pathList :
        LET s == pathList[j].hdrs
            t == pathList[k].hdrs
        IN  /\ k < j /\ s # <<>> /\ t # <<>> /\ s[1] \in Stacks /\ Last(t) = s[1]
            /\ \A l \in (k + 1)..(j - 1) : pathList[l].hdrs = <<>>

(***************************************************************************)
(* sort and unique compare addresses: no path is removed, and the order is *)
(* the allocator's.  It matters only among paths with the same headers,    *)
(* whose demands are written under one name, the last writer winning; the  *)
(* other paths keep their place here.                                      *)
(***************************************************************************)
Alike == {j \in DOMAIN pathList :
            \E k \in DOMAIN pathList \ {j} : pathList[k].hdrs = pathList[j].hdrs}
Fits(path) == \A i \in DOMAIN Merged(path.hdrs) :
                 LET e == Merged(path.hdrs)[i] IN e[1] \in Stacks => e[2] <= StackSize[e[1]]
Fitting(paths) ==
    LET upTo[j \in 0..Len(paths)] ==
          IF j = 0 THEN <<>>
          ELSE IF Fits(paths[j]) THEN Append(upTo[j - 1], paths[j]) ELSE upTo[j - 1]
    IN  upTo[Len(paths)]

SetValues(paths, hdrs) ==
    LET same == {j \in DOMAIN paths : paths[j].hdrs = hdrs}
        latest(key) == CHOOSE j \in same :
                          /\ key \in DOMAIN paths[j].fixed
                          /\ \A k \in same : k > j => key \notin DOMAIN paths[k].fixed
    IN  [key \in UNION {DOMAIN paths[j].fixed : j \in same} |-> paths[latest(key)].fixed[key]]

\* Only keys whose header part is an instance's name are exported.
FixedFields(paths, hdrs) ==
    LET all == SetValues(paths, hdrs)
        exported == {key \in DOMAIN all : key[1] \in Instances /\ key[2] = NoIndex}
    IN  [key \in exported |-> all[key]]

Finish ==
    /\ phase = "explore" /\ stack = <<>> /\ ~Underruns
    /\ \E order \in Bijection(Alike, Alike) :
         LET sorted == [j \in DOMAIN pathList |->
                          IF j \in Alike THEN pathList[order[j]] ELSE pathList[j]]
             paths == Fitting(sorted)
         IN  output' = [j \in DOMAIN paths |->
                          [path       |-> paths[j],
                           extract    |-> Merged(paths[j].hdrs),
                           dependency |-> paths[j].meta,
                           fixed      |-> FixedFields(paths, paths[j].hdrs)]]
    /\ phase' = "done"
    /\ UNCHANGED <<prog, stack, pathList, visited>>

FinishUndefined ==
    /\ phase = "explore" /\ stack = <<>> /\ Underruns
    /\ phase' = "underrun"
    /\ UNCHANGED <<prog, stack, pathList, visited, output>>

Next == TakeComplete \/ DropInvalid \/ Extend \/ Finish \/ FinishUndefined

Spec == Init /\ [][Next]_vars /\ WF_vars(Next)
-----------------------------------------------------------------------------
\* Properties

Paths == Range(stack) \cup Range(pathList)
Edge(s, t) == t = prog[s].default \/ \E i \in DOMAIN prog[s].trans : prog[s].trans[i].to = t

TypeOK ==
    /\ phase \in {"explore", "done", "underrun"}
    /\ visited \in 0..(Cap + 1)
    /\ \A p \in Paths : /\ p.states \in Seq(DOMAIN prog) /\ p.states # <<>>
                        /\ p.stacks \in [Stacks -> Nat]

\* Every path the queue or the list holds is a walk of the parser from start on
\* the transitions of its states, uses no more elements of a stack than there
\* are, and is complete when it is in the list; however many paths a step
\* creates, no more are alive than visitedStates has counted.
PathsAreWalks ==
    /\ \A p \in Paths : /\ p.states[1] = Start
                        /\ \A i \in 1..(Len(p.states) - 1) : Edge(p.states[i], p.states[i + 1])
                        /\ \A h \in Stacks : p.stacks[h] <= StackSize[h]
    /\ \A j \in DOMAIN pathList : At(pathList[j]) = Ingress
    /\ Len(stack) + Len(pathList) <= visited + 1

(* The reference: the walks of the parser as sequences of <<state, branch>>, *)
(* branch 0 being the default, whose extracts respect the stacks.            *)
NextState(s, b) == IF b = 0 THEN prog[s].default ELSE prog[s].trans[b].to
ExtractedBy(w, h) == SumFunction([i \in DOMAIN w |-> Occurs(h, prog[w[i][1]].extracts)])
LongerBy(v, b) == Append(v, <<IF v = <<>> THEN Start ELSE NextState(Last(v)[1], Last(v)[2]), b>>)
IsWalk(w) == /\ Last(w)[1] # Ingress
             /\ Last(w)[2] <= Len(prog[Last(w)[1]].trans)
             /\ \A h \in Stacks : ExtractedBy(w, h) <= StackSize[h]
Walks ==
    LET W[n \in 0..(Cap + 2)] ==
          IF n = 0 THEN {<<>>}
          ELSE LET longer == {LongerBy(v, b) : v \in W[n - 1], b \in 0..2}
               IN  {w \in longer : IsWalk(w)}
        all == UNION {W[n] : n \in 1..(Cap + 2)}
    IN  {w \in all : NextState(Last(w)[1], Last(w)[2]) = Ingress}
StatesOf(w) == Append([i \in DOMAIN w |-> w[i][1]], Ingress)

\* The queue runs empty, loops without a stack being ended by the limit and loops
\* over a stack by its size; and unless the limit was reached, the list then holds
\* each complete walk of the parser exactly once: the static analysis and the
\* seeds miss no combination of headers that a packet can have.
AllWalksFound ==
    <>(\/ phase = "underrun"
       \/ /\ phase = "done"
          /\ visited <= Cap => /\ {p.states : p \in Range(pathList)} = {StatesOf(w) : w \in Walks}
                               /\ Len(pathList) = Cardinality(Walks))

\* Merging loses nothing: written out again, the merged headers are those the
\* path extracted, and every count is within its stack.
MergeKeepsHeaders ==
    phase = "done" => \A j \in DOMAIN output :
        LET e == output[j].extract
            width(i) == IF e[i][2] = 0 THEN 1 ELSE e[i][2]
            end[k \in 0..Len(e)] == IF k = 0 THEN 0 ELSE end[k - 1] + width(k)
            hdrs == output[j].path.hdrs
        IN  /\ Len(hdrs) = end[Len(e)]
            /\ \A k \in DOMAIN e : \A n \in 1..width(k) : hdrs[end[k - 1] + n] = e[k][1]
            /\ \A k \in DOMAIN e : (e[k][2] = 0) = (e[k][1] \notin Stacks) /\ Fits(output[j].path)

(* The reference for the demands: a packet is the sequence of its headers'   *)
(* words (here every header has one field), and the parser decides at the    *)
(* i-th state of a walk from the words extracted so far or the next one.     *)
PlaceAt(p, i) == SumFunction([j \in 1..i |-> Len(prog[p.states[j]].extracts)])
Seen(p, packet, i) ==
    LET m == prog[p.states[i]].match
        n == PlaceAt(p, i)
    IN  CASE m.kind = "current"  -> packet[n + 1]
          [] m.hdr  = "latest"   -> packet[n]
          [] OTHER -> packet[CHOOSE k \in 1..n : p.hdrs[k] = m.hdr /\ \A l \in (k + 1)..n : p.hdrs[l] # m.hdr]
Chosen(p, packet, i) ==
    LET st == prog[p.states[i]]
        hits == {b \in DOMAIN st.trans : st.trans[b].value = Seen(p, packet, i)}
    IN  IF st.match.kind = "none" \/ hits = {} THEN st.default
        ELSE st.trans[CHOOSE b \in hits : \A c \in hits : b <= c].to
Obeys(p, packet, fixed) ==
    \A key \in DOMAIN fixed : \A k \in DOMAIN p.hdrs : p.hdrs[k] = key[1] => packet[k] = fixed[key]

(* What the demands cannot express: a header that is extracted twice or is a *)
(* stack, two walks with the same headers, a field two states look at, a     *)
(* look ahead that the next state's headers do not answer.                   *)
Words(p) == {i \in 1..(Len(p.states) - 1) : prog[p.states[i]].match.kind # "none"}
WordAt(p, i) ==
    LET m == prog[p.states[i]].match
    IN  IF m.kind = "current" THEN PlaceAt(p, i) + 1
        ELSE IF m.hdr = "latest" THEN PlaceAt(p, i)
        ELSE CHOOSE k \in 1..PlaceAt(p, i) : p.hdrs[k] = m.hdr
Expressible(p) ==
    /\ IsInjective(p.hdrs) /\ Range(p.hdrs) \cap Stacks = {}
    /\ \A q \in Range(pathList) : q.hdrs = p.hdrs => q = p
    /\ \A i, j \in Words(p) : WordAt(p, i) = WordAt(p, j) => i = j
    /\ \A i \in Words(p) : prog[p.states[i]].match.kind = "current" =>
                              prog[p.states[i + 1]].extracts # <<>>

\* A seed packet takes the path it was built for: any packet that has the path's
\* fixed fields, and no value of another branch where the path takes a default,
\* is parsed along it, and there is such a packet.
SeedsTakeTheirPath ==
    phase = "done" => \A j \in DOMAIN output :
        LET p == output[j].path
            packets == [1..(Len(p.hdrs) + 1) -> PacketValues]
            follows(packet) == \A i \in 1..(Len(p.states) - 1) :
                                  Chosen(p, packet, i) = p.states[i + 1]
            avoids(packet) == \A i \in Words(p) :
                LET trans == prog[p.states[i]].trans
                IN  (\A b \in DOMAIN trans : trans[b].to # p.states[i + 1]) =>
                        \A b \in DOMAIN trans : trans[b].value # Seen(p, packet, i)
            candidates == {packet \in packets : Obeys(p, packet, output[j].fixed) /\ avoids(packet)}
        IN  Expressible(p) => candidates # {} /\ \A packet \in candidates : follows(packet)
=============================================================================
