--------------------------- MODULE ParserGraphProofs ---------------------------
(***************************************************************************)
(* For every parser, every size of its header stacks and every limit: what *)
(* the queue and the list of ParserGraph hold are walks of the parser, and *)
(* the limit bounds the number of them; and merging the elements of its    *)
(* header stacks loses none of the headers a path extracts.                *)
(***************************************************************************)
EXTENDS ParserGraph, InductionLemmas, FiniteSetTheorems, SequenceTheorems, TLAPS

Headers == UNION {Range(prog[s].extracts) : s \in DOMAIN prog}

IsPath(p) ==
    /\ p = [states |-> p.states, hdrs |-> p.hdrs, fixed |-> p.fixed, future |-> p.future,
            stacks |-> p.stacks, meta |-> p.meta]
    /\ p.states \in Seq(DOMAIN prog) /\ p.states # <<>> /\ p.states[1] = Start
    /\ \A i \in 1..(Len(p.states) - 1) : Edge(p.states[i], p.states[i + 1])
    /\ p.stacks \in [Stacks -> Nat]
    /\ \A h \in Stacks : p.stacks[h] =< StackSize[h]
    /\ p.hdrs \in Seq(Headers)

PathInv ==
    /\ \E src \in Sources : prog = Built(src)
    /\ stack \in Seq(Paths) /\ pathList \in Seq(Paths)
    /\ \A p \in Paths : IsPath(p)
    /\ \A j \in DOMAIN pathList : At(pathList[j]) = Ingress
    /\ phase \in {"explore", "done", "underrun"}
    /\ visited \in 0..(Cap + 1)
    /\ Len(stack) + Len(pathList) =< visited + 1

(* Of a sequence, its values are all that its set needs.                    *)
LEMMA SeqWithin ==
  ASSUME NEW S, NEW s \in Seq(S), NEW T, Range(s) \subseteq T
  PROVE  Range(s) \subseteq S /\ s \in Seq(T)
<1>1. s \in [1..Len(s) -> S] /\ DOMAIN s = 1..Len(s) /\ Len(s) \in Nat
  OBVIOUS
<1>2. Range(s) \subseteq S
  BY <1>1 DEF Range
<1>3. \A i \in 1..Len(s) : s[i] \in T
  BY <1>1 DEF Range
<1>4. s \in [1..Len(s) -> T]
  BY <1>1, <1>3
<1>5. s \in Seq(T)
  BY <1>1, <1>4, SeqDef
<1> QED
  BY <1>2, <1>5

(* The graph is one of those assumed.                                       *)
LEMMA GraphFacts ==
  ASSUME \E src \in Sources : prog = Built(src)
  PROVE  /\ Start \in DOMAIN prog /\ Ingress \in DOMAIN prog
         /\ \A s \in DOMAIN prog :
              /\ prog[s].extracts \in Seq(Range(prog[s].extracts))
              /\ prog[s].trans \in Seq(Range(prog[s].trans))
              /\ prog[s].default \in DOMAIN prog
              /\ \A i \in DOMAIN prog[s].trans : prog[s].trans[i].to \in DOMAIN prog
BY GraphAssumption

(* A header occurs a natural number of times.                               *)
LEMMA OccursNat ==
  ASSUME NEW S, NEW s \in Seq(S), NEW h
  PROVE  Occurs(h, s) \in Nat
<1>1. DOMAIN s = 1..Len(s) /\ Len(s) \in Nat
  OBVIOUS
<1>2. IsFiniteSet(1..Len(s))
  BY <1>1, FS_Interval
<1>3. {i \in DOMAIN s : s[i] = h} \subseteq 1..Len(s)
  BY <1>1
<1> QED
  BY <1>2, <1>3, FS_Subset, FS_CardinalityType DEF Occurs

(* A path that fits its stacks is one after its state has been visited.     *)
LEMMA VisitPath ==
  ASSUME \E src \in Sources : prog = Built(src),
         NEW p, IsPath(p), ~Overfull(p)
  PROVE  IsPath(Visit(p)) /\ At(Visit(p)) = At(p)
<1> DEFINE v == Visit(p)
<1>1. At(p) \in DOMAIN prog
  BY DEF IsPath, At, Last
<1>2. \A h \in Stacks : Occurs(h, prog[At(p)].extracts) \in Nat
  BY <1>1, GraphFacts, OccursNat
<1>3. /\ v = [states |-> v.states, hdrs |-> v.hdrs, fixed |-> v.fixed, future |-> v.future,
              stacks |-> v.stacks, meta |-> v.meta]
      /\ v.states = p.states
      /\ v.stacks = [h \in Stacks |-> p.stacks[h] + Occurs(h, prog[At(p)].extracts)]
      /\ v.hdrs = p.hdrs \o prog[At(p)].extracts
  <2> DEFINE st == prog[At(p)]
             m == p.meta \cup {<<x.lhs, <<Named(x.hdr, p), x.field>>>> : x \in st.sets}
             hs == p.hdrs \o st.extracts
             ss == [h \in Stacks |-> p.stacks[h] + Occurs(h, st.extracts)]
  <2>1. v = [p EXCEPT !.meta = m, !.hdrs = hs, !.stacks = ss]
    BY Zenon DEF Visit
  <2> HIDE DEF v, m, hs, ss
  <2>2. v = [states |-> p.states, hdrs |-> hs, fixed |-> p.fixed, future |-> p.future,
             stacks |-> ss, meta |-> m]
    BY <2>1 DEF IsPath
  <2> QED
    BY <2>2 DEF ss, hs
<1>4. v.stacks \in [Stacks -> Nat]
  BY <1>2, <1>3 DEF IsPath
<1>5. \A h \in Stacks : v.stacks[h] =< StackSize[h]
  <2>1. StackSize \in [Stacks -> Nat]
    BY GraphAssumption
  <2>2. \A h \in Stacks : ~(v.stacks[h] > StackSize[h])
    BY Zenon DEF Overfull
  <2> HIDE DEF v
  <2> QED
    BY <1>4, <2>1, <2>2
<1>6. v.hdrs \in Seq(Headers)
  <2>1. prog[At(p)].extracts \in Seq(Headers)
    <3>1. /\ prog[At(p)].extracts \in Seq(Range(prog[At(p)].extracts))
          /\ Range(prog[At(p)].extracts) \subseteq Headers
      BY <1>1, GraphFacts DEF Headers
    <3> QED
      BY <3>1, SeqWithin
  <2> QED
    BY <1>3, <2>1, ConcatProperties DEF IsPath
<1> QED
  BY <1>3, <1>4, <1>5, <1>6 DEF IsPath, At

(* Going on from a path along an edge gives a path.                         *)
LEMMA LongerPath ==
  ASSUME NEW p, IsPath(p), NEW t \in DOMAIN prog, Edge(At(p), t), NEW q,
         q = [states |-> q.states, hdrs |-> q.hdrs, fixed |-> q.fixed, future |-> q.future,
              stacks |-> q.stacks, meta |-> q.meta],
         q.states = Append(p.states, t), q.stacks = p.stacks, q.hdrs = p.hdrs
  PROVE  IsPath(q)
<1>1. /\ p.states \in Seq(DOMAIN prog) /\ Len(p.states) \in Nat \ {0} /\ p.states[1] = Start
      /\ At(p) = p.states[Len(p.states)]
  BY DEF IsPath, At, Last
<1>2. /\ q.states \in Seq(DOMAIN prog) /\ q.states # <<>> /\ Len(q.states) = Len(p.states) + 1
      /\ \A i \in 1..Len(p.states) : q.states[i] = p.states[i]
      /\ q.states[Len(p.states) + 1] = t
  BY <1>1
<1>3. ASSUME NEW i \in 1..(Len(q.states) - 1) PROVE Edge(q.states[i], q.states[i + 1])
  <2>1. CASE i = Len(p.states)
    BY <1>1, <1>2, <2>1
  <2>2. CASE i # Len(p.states)
    <3>1. i \in 1..(Len(p.states) - 1) /\ i + 1 \in 1..Len(p.states)
      BY <1>1, <1>2, <2>2
    <3> QED
      BY <3>1, <1>2 DEF IsPath
  <2> QED
    BY <2>1, <2>2
<1> QED
  BY <1>1, <1>2, <1>3 DEF IsPath

(* The copy constructor: the states grow, the stacks stay.                  *)
LEMMA CopyPath ==
  ASSUME NEW p, IsPath(p), NEW t
  PROVE  LET c == Copied(p, t)
         IN  /\ c = [states |-> c.states, hdrs |-> c.hdrs, fixed |-> c.fixed,
                     future |-> c.future, stacks |-> c.stacks, meta |-> c.meta]
             /\ c.states = Append(p.states, t) /\ c.stacks = p.stacks /\ c.hdrs = p.hdrs
<1> DEFINE ss == Append(p.states, t)
<1>1. Copied(p, t) = [p EXCEPT !.states = ss, !.meta = {}]
  BY Zenon DEF Copied
<1> HIDE DEF ss
<1>2. Copied(p, t) = [states |-> ss, hdrs |-> p.hdrs, fixed |-> p.fixed, future |-> p.future,
                      stacks |-> p.stacks, meta |-> {}]
  BY <1>1 DEF IsPath
<1> QED
  BY <1>2 DEF ss

(* Every path the transitions create is one.                                *)
LEMMA BranchPath ==
  ASSUME \E src \in Sources : prog = Built(src),
         NEW p, IsPath(p), NEW i \in DOMAIN prog[At(p)].trans
  PROVE  IsPath(Branch(p, prog[At(p)].trans[i]))
<1> DEFINE t == prog[At(p)].trans[i]
           q == Branch(p, t)
<1>1. At(p) \in DOMAIN prog
  BY DEF IsPath, At, Last
<1>2. t.to \in DOMAIN prog /\ Edge(At(p), t.to)
  BY <1>1, GraphFacts DEF Edge
<1>3. /\ q = [states |-> q.states, hdrs |-> q.hdrs, fixed |-> q.fixed, future |-> q.future,
              stacks |-> q.stacks, meta |-> q.meta]
      /\ q.states = Append(p.states, t.to)
      /\ q.stacks = p.stacks /\ q.hdrs = p.hdrs
  <2> DEFINE c == Copied(p, t.to)
             m == IF prog[At(p)].match.kind = "current"
                  THEN [c EXCEPT !.future = t.value]
                  ELSE [c EXCEPT !.fixed = Override(@, Selected(p), t.value)]
  <2>1. /\ c = [states |-> c.states, hdrs |-> c.hdrs, fixed |-> c.fixed, future |-> c.future,
                stacks |-> c.stacks, meta |-> c.meta]
        /\ c.states = Append(p.states, t.to) /\ c.stacks = p.stacks /\ c.hdrs = p.hdrs
    BY CopyPath
  <2>2. /\ m = [states |-> m.states, hdrs |-> m.hdrs, fixed |-> m.fixed, future |-> m.future,
                stacks |-> m.stacks, meta |-> m.meta]
        /\ m.states = c.states /\ m.stacks = c.stacks /\ m.hdrs = c.hdrs
    <3> HIDE DEF c
    <3> QED
      BY <2>1
  <2> HIDE DEF m, c
  <2>3. \/ q = m
        \/ \E f : q = [m EXCEPT !.fixed = f, !.future = NoValue]
    BY DEF Branch, m, c
  <2>4. CASE q = m
    BY <2>1, <2>2, <2>4
  <2>5. ASSUME NEW f, q = [m EXCEPT !.fixed = f, !.future = NoValue]
        PROVE  /\ q = [states |-> q.states, hdrs |-> q.hdrs, fixed |-> q.fixed,
                       future |-> q.future, stacks |-> q.stacks, meta |-> q.meta]
               /\ q.states = m.states /\ q.stacks = m.stacks /\ q.hdrs = m.hdrs
    <3> HIDE DEF q
    <3> QED
      BY <2>2, <2>5
  <2> QED
    BY <2>1, <2>2, <2>3, <2>4, <2>5
<1> HIDE DEF q
<1> QED
  BY <1>2, <1>3, LongerPath DEF q

LEMMA DefaultPath ==
  ASSUME \E src \in Sources : prog = Built(src), NEW p, IsPath(p)
  PROVE  IsPath(DefaultBranch(p))
<1> DEFINE t == prog[At(p)].default
           q == DefaultBranch(p)
<1>1. At(p) \in DOMAIN prog
  BY DEF IsPath, At, Last
<1>2. t \in DOMAIN prog /\ Edge(At(p), t)
  BY <1>1, GraphFacts DEF Edge
<1>3. /\ q = [states |-> q.states, hdrs |-> q.hdrs, fixed |-> q.fixed, future |-> q.future,
              stacks |-> q.stacks, meta |-> q.meta]
      /\ q.states = Append(p.states, t)
      /\ q.stacks = p.stacks /\ q.hdrs = p.hdrs
  <2> DEFINE c == Copied(p, t)
  <2>1. q = [c EXCEPT !.future = NoValue]
    BY Zenon DEF DefaultBranch
  <2>2. /\ c = [states |-> c.states, hdrs |-> c.hdrs, fixed |-> c.fixed, future |-> c.future,
                stacks |-> c.stacks, meta |-> c.meta]
        /\ c.states = Append(p.states, t) /\ c.stacks = p.stacks /\ c.hdrs = p.hdrs
    BY CopyPath
  <2> HIDE DEF c, q
  <2> QED
    BY <2>1, <2>2
<1> HIDE DEF q
<1> QED
  BY <1>2, <1>3, LongerPath DEF q

(* What one step adds to the queue: paths, and no more than it counts.      *)
LEMMA AddedPaths ==
  ASSUME \E src \in Sources : prog = Built(src), visited \in 0..(Cap + 1),
         NEW p, IsPath(p)
  PROVE  \E S : /\ AddPathToStack(p) \in Seq(S)
                /\ \A q \in S : IsPath(q)
                /\ Taken(p) \in Nat
                /\ visited + Taken(p) + (IF DefaultTaken(p) THEN 1 ELSE 0) \in 0..(Cap + 1)
                /\ Len(AddPathToStack(p)) = Taken(p) + (IF DefaultTaken(p) THEN 1 ELSE 0)
<1> DEFINE trans == prog[At(p)].trans
           A == [i \in 1..Taken(p) |-> Branch(p, trans[i])]
           D == IF DefaultTaken(p) THEN <<DefaultBranch(p)>> ELSE <<>>
           S == {Branch(p, trans[i]) : i \in DOMAIN trans} \cup {DefaultBranch(p)}
<1>1. At(p) \in DOMAIN prog
  BY DEF IsPath, At, Last
<1>2. trans \in Seq(Range(trans)) /\ Len(trans) \in Nat /\ DOMAIN trans = 1..Len(trans)
  <2>1. trans \in Seq(Range(trans))
    BY <1>1, GraphFacts, Zenon
  <2> HIDE DEF trans
  <2> QED
    BY <2>1
<1>3. Cap \in Nat
  BY GraphAssumption
<1>4. /\ Taken(p) \in 0..Len(trans) /\ visited + Taken(p) \in 0..(Cap + 1)
  BY <1>2, <1>3 DEF Taken
<1>5. visited + Taken(p) + (IF DefaultTaken(p) THEN 1 ELSE 0) \in 0..(Cap + 1)
  BY <1>3, <1>4 DEF DefaultTaken
<1>6. A \in Seq(S) /\ Len(A) = Taken(p)
  <2>1. A \in [1..Taken(p) -> S]
    BY <1>2, <1>4
  <2> HIDE DEF A, S
  <2> QED
    BY <2>1, <1>4, SeqDef, LenProperties
<1>7. D \in Seq(S) /\ Len(D) = IF DefaultTaken(p) THEN 1 ELSE 0
  <2> DEFINE d == DefaultBranch(p)
  <2>1. d \in S
    OBVIOUS
  <2> HIDE DEF S, d
  <2> QED
    BY <2>1 DEF d
<1>8. \A q \in S : IsPath(q)
  BY BranchPath, DefaultPath
<1>9. AddPathToStack(p) = A \o D
  BY DEF AddPathToStack
<1> HIDE DEF A, D, S
<1>10. A \o D \in Seq(S) /\ Len(A \o D) = Len(A) + Len(D)
  BY <1>6, <1>7, ConcatProperties
<1> QED
  BY <1>4, <1>5, <1>6, <1>7, <1>8, <1>9, <1>10

(* To keep the invariant it is enough that what the queue and the list hold *)
(* are paths, whatever set they are taken from.                             *)
LEMMA PathsFrom ==
  ASSUME NEW S, NEW s \in Seq(S), NEW l \in Seq(S), stack' = s, pathList' = l
  PROVE  Paths' \subseteq S /\ stack' \in Seq(Paths') /\ pathList' \in Seq(Paths')
<1>1. Paths' = Range(s) \cup Range(l)
  BY DEF Paths
<1>2. Range(s) \subseteq S /\ Range(l) \subseteq S
  BY SeqWithin
<1> QED
  BY <1>1, <1>2, SeqWithin

LEMMA PathInvInit ==
  ASSUME Init PROVE PathInv
<1>1. PICK src \in Sources : prog = Built(src)
  BY DEF Init
<1>2. Start \in DOMAIN prog /\ Cap \in Nat /\ StackSize \in [Stacks -> Nat]
  BY <1>1, GraphAssumption
<1>3. IsPath(EmptyPath)
  BY <1>2 DEF IsPath, EmptyPath
<1>4. stack = <<EmptyPath>> /\ pathList = <<>> /\ visited = 0 /\ phase = "explore"
  BY DEF Init
<1> DEFINE e == EmptyPath
<1> HIDE DEF e
<1>5. stack = <<e>> /\ pathList = <<>>
  BY <1>4 DEF e
<1>6. Paths = {e}
  BY <1>5 DEF Paths, Range
<1>7. stack \in Seq({e}) /\ pathList \in Seq({e}) /\ Len(stack) = 1 /\ Len(pathList) = 0
  BY <1>5
<1> QED
  BY <1>1, <1>2, <1>3, <1>4, <1>5, <1>6, <1>7 DEF PathInv, e

LEMMA PathInvStep ==
  ASSUME PathInv, [Next]_vars PROVE PathInv'
<1> USE DEF PathInv
<1>a. Cap \in Nat
  BY GraphAssumption
<1>b. ASSUME UNCHANGED <<prog, stack, pathList, visited>>, phase' \in {"explore", "done", "underrun"}
      PROVE  PathInv'
  <2>1. Paths' = Paths
    BY <1>b DEF Paths
  <2>2. Headers' = Headers
    BY <1>b DEF Headers
  <2>3. \A p \in Paths : IsPath(p)'
    BY <1>b, <2>2 DEF IsPath, Edge
  <2> QED
    BY <1>b, <2>1, <2>3 DEF At
<1>c. ASSUME NEW S, \A p \in S : IsPath(p), prog' = prog, stack' \in Seq(S), pathList' \in Seq(S)
      PROVE  /\ \E src \in Sources : prog' = Built(src)
             /\ stack' \in Seq(Paths') /\ pathList' \in Seq(Paths')
             /\ \A p \in Paths' : IsPath(p)'
  <2>1. Paths' \subseteq S /\ stack' \in Seq(Paths') /\ pathList' \in Seq(Paths')
    BY <1>c, PathsFrom
  <2>2. Headers' = Headers
    BY <1>c DEF Headers
  <2>3. \A p \in S : IsPath(p)'
    BY <1>c, <2>2 DEF IsPath, Edge
  <2> QED
    BY <1>c, <2>1, <2>3
<1>d. ASSUME Exploring
      PROVE  /\ Head(stack) \in Paths /\ Tail(stack) \in Seq(Paths)
             /\ Len(stack) \in Nat \ {0} /\ Len(Tail(stack)) = Len(stack) - 1
             /\ Len(pathList) \in Nat
  BY <1>d, HeadTailProperties DEF Exploring
<1>1. CASE TakeComplete
  <2> DEFINE h == Head(stack)
  <2>1. Exploring /\ At(h) = Ingress /\ pathList' = Append(pathList, h) /\ stack' = Tail(stack)
        /\ UNCHANGED <<prog, visited, phase, output>>
    BY <1>1 DEF TakeComplete
  <2>2. h \in Paths
    BY <1>d, <2>1
  <2> HIDE DEF h
  <2>3. pathList' \in Seq(Paths) /\ Len(pathList') = Len(pathList) + 1
        /\ \A j \in 1..Len(pathList) : pathList'[j] = pathList[j]
        /\ pathList'[Len(pathList) + 1] = h /\ DOMAIN pathList' = 1..(Len(pathList) + 1)
        /\ DOMAIN pathList = 1..Len(pathList)
    BY <2>1, <2>2, <1>d
  <2>4. \A j \in DOMAIN pathList' : (At(pathList[j]))' = Ingress
    BY <2>1, <2>3, <1>d DEF At
  <2> QED
    BY <1>c, <1>d, <2>1, <2>3, <2>4
<1>2. CASE DropInvalid
  BY <1>2, <1>a, <1>c, <1>d DEF DropInvalid, At
<1>3. CASE Extend
  <2> DEFINE h == Head(stack)
             p == Visit(h)
  <2>1. /\ Exploring /\ ~Overfull(h)
        /\ stack' = Tail(stack) \o AddPathToStack(p)
        /\ visited' = visited + Taken(p) + (IF DefaultTaken(p) THEN 1 ELSE 0)
        /\ UNCHANGED <<prog, pathList, phase, output>>
    BY <1>3 DEF Extend
  <2>2. IsPath(h) /\ h \in Paths
    BY <1>d, <2>1
  <2>3. IsPath(p)
    BY <2>1, <2>2, VisitPath
  <2> HIDE DEF p, h
  <2>4. PICK S : /\ AddPathToStack(p) \in Seq(S)
                 /\ \A q \in S : IsPath(q)
                 /\ Taken(p) \in Nat
                 /\ visited' \in 0..(Cap + 1)
                 /\ Len(AddPathToStack(p)) = visited' - visited
    <3>1. \E S : /\ AddPathToStack(p) \in Seq(S)
                 /\ \A q \in S : IsPath(q)
                 /\ Taken(p) \in Nat
                 /\ visited + Taken(p) + (IF DefaultTaken(p) THEN 1 ELSE 0) \in 0..(Cap + 1)
                 /\ Len(AddPathToStack(p)) = Taken(p) + (IF DefaultTaken(p) THEN 1 ELSE 0)
      BY <2>3, AddedPaths
    <3> QED
      BY <2>1, <3>1
  <2> DEFINE a == AddPathToStack(p)
             U == Paths \cup S
  <2> HIDE DEF a
  <2>5. /\ Tail(stack) \in Seq(U) /\ a \in Seq(U) /\ pathList \in Seq(U)
        /\ \A q \in U : IsPath(q)
    BY <1>d, <2>1, <2>4, SeqWithin DEF a
  <2> HIDE DEF U
  <2>6. stack' \in Seq(U) /\ Len(stack') = Len(Tail(stack)) + Len(a)
    BY <2>1, <2>5, ConcatProperties DEF a
  <2>7. Len(stack') + Len(pathList') =< visited' + 1
    BY <1>a, <1>d, <2>1, <2>4, <2>6 DEF a
  <2>8. \A j \in DOMAIN pathList' : (At(pathList[j]))' = Ingress
    BY <2>1 DEF At
  <2> QED
    BY <1>c, <2>1, <2>4, <2>5, <2>6, <2>7, <2>8
<1>4. CASE Finish
  BY <1>4, <1>b DEF Finish
<1>5. CASE FinishUndefined
  BY <1>5, <1>b DEF FinishUndefined
<1>6. CASE UNCHANGED vars
  BY <1>6, <1>b DEF vars
<1> QED
  BY <1>1, <1>2, <1>3, <1>4, <1>5, <1>6 DEF Next

(* What the queue and the list hold are walks of the parser, complete ones  *)
(* in the list, at most visitedStates + 1 of them together.                 *)
THEOREM WalksAlways == Spec => []PathsAreWalks
<1>1. Init => PathInv
  BY PathInvInit
<1>2. PathInv /\ [Next]_vars => PathInv'
  BY PathInvStep
<1>3. PathInv => PathsAreWalks
  BY DEF PathInv, IsPath, PathsAreWalks
<1> QED
  BY <1>1, <1>2, <1>3, PTL DEF Spec

(* The limit holds: visitedStates never exceeds Cap + 1, and every state a  *)
(* path names is one of the parser's.                                       *)
THEOREM TypesAlways == Spec => []TypeOK
<1>1. Init => PathInv
  BY PathInvInit
<1>2. PathInv /\ [Next]_vars => PathInv'
  BY PathInvStep
<1>3. PathInv => TypeOK
  BY DEF PathInv, IsPath, TypeOK
<1> QED
  BY <1>1, <1>2, <1>3, PTL DEF Spec

-----------------------------------------------------------------------------
(* Merging.  What the loop does with the i-th header of s to the merged     *)
(* headers so far, and what these are of the headers before.                *)
MergeHeader(s, i, m) ==
    IF Continues(s, i) THEN [m EXCEPT ![Len(m)] = <<@[1], @[2] + 1>>]
    ELSE Append(m, <<s[i], IF s[i] \in Stacks THEN 1 ELSE 0>>)
Width(x) == IF x[2] = 0 THEN 1 ELSE x[2]

(* b[k] headers are written out by the first k merged ones.                 *)
Spans(m, b, s, i) ==
    /\ b \in [0..Len(m) -> Nat] /\ b[0] = 0 /\ b[Len(m)] = i
    /\ i # 0 => Len(m) # 0 /\ m[Len(m)][1] = s[i]
    /\ \A k \in 1..Len(m) :
         /\ b[k] = b[k - 1] + Width(m[k])
         /\ \A n \in 1..Width(m[k]) : s[b[k - 1] + n] = m[k][1]
         /\ (m[k][2] = 0) <=> (m[k][1] \notin Stacks)

LEMMA MergeOne ==
  ASSUME NEW H, NEW s \in Seq(H), NEW i \in 1..Len(s), NEW m \in Seq(H \X Nat), NEW b,
         Spans(m, b, s, i - 1)
  PROVE  \E c : Spans(MergeHeader(s, i, m), c, s, i)
<1> DEFINE L == Len(m)
<1>0. L \in Nat /\ i \in Nat \ {0}
  OBVIOUS
<1>1. /\ L \in Nat /\ \A k \in 1..L : m[k][1] \in H /\ m[k][2] \in Nat /\ Width(m[k]) \in Nat \ {0}
      /\ DOMAIN m = 1..L
  <2>1. \A k \in 1..L : m[k] \in H \X Nat
    OBVIOUS
  <2> QED
    BY <2>1 DEF Width
<1>2. /\ b \in [0..L -> Nat] /\ b[0] = 0 /\ b[L] = i - 1
      /\ i - 1 # 0 => L # 0 /\ m[L][1] = s[i - 1]
      /\ \A k \in 1..L : /\ b[k] = b[k - 1] + Width(m[k])
                         /\ \A n \in 1..Width(m[k]) : s[b[k - 1] + n] = m[k][1]
                         /\ (m[k][2] = 0) <=> (m[k][1] \notin Stacks)
  BY DEF Spans
<1>3. CASE Continues(s, i)
  <2> DEFINE r == [m EXCEPT ![Len(m)] = <<@[1], @[2] + 1>>]
             c == [b EXCEPT ![L] = i]
  <2>1. s[i] \in Stacks /\ i - 1 # 0 /\ s[i - 1] = s[i]
    BY <1>3 DEF Continues
  <2>2. L \in 1..L /\ m[L][1] = s[i] /\ m[L][2] # 0
    BY <1>1, <1>2, <2>1
  <2>3. /\ Len(r) = L /\ \A k \in 1..L : k # L => r[k] = m[k]
        /\ r[L] = <<s[i], m[L][2] + 1>>
    BY <1>1, <2>2
  <2>4. /\ Width(r[L]) = Width(m[L]) + 1 /\ r[L][1] = s[i] /\ r[L][2] # 0
        /\ Width(m[L]) = m[L][2]
    BY <1>1, <2>2, <2>3 DEF Width
  <2>5. /\ c \in [0..L -> Nat] /\ c[0] = 0 /\ c[L] = i
        /\ \A k \in 0..L : k # L => c[k] = b[k]
    <3>1. L \in 0..L /\ 0 \in 0..L /\ 0 # L /\ i \in Nat
      BY <1>0, <2>2
    <3> HIDE DEF L
    <3> QED
      BY <1>2, <3>1
  <2> HIDE DEF r, c
  <2>6. ASSUME NEW k \in 1..L
        PROVE  /\ c[k] = c[k - 1] + Width(r[k])
               /\ \A n \in 1..Width(r[k]) : s[c[k - 1] + n] = r[k][1]
               /\ (r[k][2] = 0) <=> (r[k][1] \notin Stacks)
    <3>1. k - 1 \in 0..L /\ k - 1 # L /\ c[k - 1] = b[k - 1] /\ b[k - 1] \in Nat
      <4>1. k - 1 \in 0..L /\ k - 1 # L
        BY <1>0
      <4> QED
        BY <1>2, <2>5, <4>1
    <3>2. CASE k # L
      <4>1. c[k] = b[k] /\ r[k] = m[k]
        BY <1>0, <2>3, <2>5, <3>2
      <4>2. /\ b[k] = b[k - 1] + Width(m[k])
            /\ \A n \in 1..Width(m[k]) : s[b[k - 1] + n] = m[k][1]
            /\ (m[k][2] = 0) <=> (m[k][1] \notin Stacks)
        BY <1>2
      <4> QED
        BY <3>1, <4>1, <4>2, Zenon
    <3>3. CASE k = L
      <4>1. b[k - 1] + Width(m[L]) = i - 1
        BY <1>2, <2>2, <3>3
      <4>2. c[k] = c[k - 1] + Width(r[k])
        <5>1. /\ Width(m[L]) \in Nat /\ b[k - 1] \in Nat /\ c[k - 1] = b[k - 1]
              /\ Width(r[k]) = Width(m[L]) + 1 /\ c[k] = i
          BY <1>1, <2>2, <2>4, <2>5, <3>1, <3>3
        <5> QED
          BY <1>0, <4>1, <5>1
      <4>3. ASSUME NEW n \in 1..Width(r[k]) PROVE s[c[k - 1] + n] = r[k][1]
        <5>1. CASE n \in 1..Width(m[L])
          <6>1. s[b[L - 1] + n] = m[L][1]
            BY <1>2, <2>2, <5>1
          <6>2. c[k - 1] = b[L - 1] /\ r[k][1] = m[L][1]
            BY <2>2, <2>4, <3>1, <3>3
          <6> QED
            BY <6>1, <6>2, Zenon
        <5>2. CASE n \notin 1..Width(m[L])
          <6>1. n = Width(m[L]) + 1
            BY <1>1, <2>2, <2>4, <3>3, <5>2
          <6>2. c[k - 1] + n = i
            <7>1. Width(m[L]) \in Nat /\ b[k - 1] \in Nat /\ c[k - 1] = b[k - 1]
              BY <1>1, <2>2, <3>1
            <7> QED
              BY <1>0, <4>1, <6>1, <7>1
          <6> QED
            BY <2>4, <3>3, <6>2
        <5> QED
          BY <5>1, <5>2
      <4> QED
        BY <2>1, <2>4, <3>3, <4>2, <4>3
    <3> QED
      BY <3>2, <3>3
  <2>7. Spans(r, c, s, i)
    BY <2>2, <2>3, <2>4, <2>5, <2>6 DEF Spans
  <2> QED
    BY <1>3, <2>7 DEF MergeHeader, r
<1>4. CASE ~Continues(s, i)
  <2> DEFINE x == <<s[i], IF s[i] \in Stacks THEN 1 ELSE 0>>
             r == Append(m, x)
             c == [k \in 0..(L + 1) |-> IF k = L + 1 THEN i ELSE b[k]]
  <2>1. /\ x[1] = s[i] /\ Width(x) = 1 /\ (x[2] = 0 <=> x[1] \notin Stacks)
    BY DEF Width
  <2> HIDE DEF x
  <2>2. Len(r) = L + 1 /\ r[L + 1] = x /\ \A k \in 1..L : r[k] = m[k]
    BY <1>1, AppendProperties
  <2>3. /\ c \in [0..(L + 1) -> Nat] /\ c[0] = 0 /\ c[L + 1] = i
        /\ \A k \in 0..L : c[k] = b[k]
    BY <1>1, <1>2
  <2> HIDE DEF r, c
  <2>4. ASSUME NEW k \in 1..(L + 1)
        PROVE  /\ c[k] = c[k - 1] + Width(r[k])
               /\ \A n \in 1..Width(r[k]) : s[c[k - 1] + n] = r[k][1]
               /\ (r[k][2] = 0) <=> (r[k][1] \notin Stacks)
    <3>1. CASE k \in 1..L
      <4>1. k - 1 \in 0..L /\ k \in 0..L
        BY <1>1, <3>1
      <4> QED
        BY <1>2, <2>2, <2>3, <3>1, <4>1
    <3>2. CASE k = L + 1
      <4>1. k - 1 = L /\ c[k - 1] = i - 1 /\ c[k] = i
        BY <1>1, <1>2, <2>3, <3>2
      <4>2. \A n \in 1..Width(r[k]) : c[k - 1] + n = i
        <5>1. Width(r[k]) = 1
          BY <2>1, <2>2, <3>2
        <5> QED
          BY <1>0, <4>1, <5>1
      <4>3. c[k] = c[k - 1] + Width(r[k])
        BY <1>0, <2>1, <2>2, <3>2, <4>1
      <4>4. r[k] = x /\ i \in Nat
        BY <1>0, <2>2, <3>2
      <4>5. \A n \in 1..Width(r[k]) : s[c[k - 1] + n] = r[k][1]
        BY <2>1, <4>2, <4>4, Zenon
      <4> QED
        BY <2>1, <4>3, <4>4, <4>5, Zenon
    <3>3. k \in 1..L \/ k = L + 1
      BY <1>0
    <3> QED
      BY <3>1, <3>2, <3>3
  <2>5. Spans(r, c, s, i)
    BY <1>1, <2>1, <2>2, <2>3, <2>4 DEF Spans
  <2> QED
    BY <1>4, <2>5 DEF MergeHeader, r, x
<1> QED
  BY <1>3, <1>4

(* Merged satisfies its equation, so it spans all headers.                  *)
LEMMA MergedSpans ==
  ASSUME NEW H, NEW s \in Seq(H)
  PROVE  Merged(s) \in Seq(H \X Nat) /\ \E b : Spans(Merged(s), b, s, Len(s))
<1> DEFINE N == Len(s)
           V == Seq(H \X Nat)
           Step == [i \in 1..N |-> [m \in V |-> MergeHeader(s, i, m)]]
           Is(u) == u = [i \in 0..N |->
                           IF i = 0 THEN <<>>
                           ELSE LET m == u[i - 1]
                                IN  IF Continues(s, i) THEN [m EXCEPT ![Len(m)] = <<@[1], @[2] + 1>>]
                                    ELSE Append(m, <<s[i], IF s[i] \in Stacks THEN 1 ELSE 0>>)]
           Good(u) == u = [i \in 0..N |-> IF i = 0 THEN <<>> ELSE MergeHeader(s, i, u[i - 1])]
<1>1. N \in Nat /\ \A i \in 1..N : s[i] \in H
  OBVIOUS
<1>2. ASSUME NEW i \in 1..N, NEW m \in V PROVE MergeHeader(s, i, m) \in V
  <2>1. CASE Continues(s, i)
    <3> DEFINE r == [m EXCEPT ![Len(m)] = <<@[1], @[2] + 1>>]
    <3>1. /\ Len(m) \in Nat /\ DOMAIN m = 1..Len(m)
          /\ \A k \in 1..Len(m) : m[k] \in H \X Nat
      OBVIOUS
    <3>2. \A k \in 1..Len(m) : m[k][1] \in H /\ m[k][2] + 1 \in Nat
      BY <3>1
    <3>3. r \in [1..Len(m) -> H \X Nat]
      <4> DEFINE x == <<m[Len(m)][1], m[Len(m)][2] + 1>>
      <4>1. Len(m) # 0 => x \in H \X Nat
        BY <3>1, <3>2
      <4>2. r = [k \in 1..Len(m) |-> IF k = Len(m) THEN x ELSE m[k]]
        BY <3>1
      <4>3. \A k \in 1..Len(m) : Len(m) # 0
        BY <3>1
      <4> HIDE DEF x
      <4>4. \A k \in 1..Len(m) : (IF k = Len(m) THEN x ELSE m[k]) \in H \X Nat
        BY <3>1, <4>1, <4>3
      <4> HIDE DEF r
      <4> DEFINE G(k) == IF k = Len(m) THEN x ELSE m[k]
      <4>5. r = [k \in 1..Len(m) |-> G(k)] /\ \A k \in 1..Len(m) : G(k) \in H \X Nat
        BY <4>2, <4>4
      <4> HIDE DEF G
      <4> QED
        BY <4>5
    <3> HIDE DEF r
    <3>4. r \in Seq(H \X Nat)
      <4> DEFINE P == H \X Nat
                 l == Len(m)
      <4>1. l \in Nat /\ r \in [1..l -> P]
        BY <3>1, <3>3
      <4> HIDE DEF P, l
      <4>2. r \in Seq(P)
        BY <4>1, SeqDef
      <4> QED
        BY <4>2 DEF P
    <3> QED
      BY <2>1, <3>4 DEF MergeHeader, r
  <2>2. CASE ~Continues(s, i)
    <3>1. <<s[i], IF s[i] \in Stacks THEN 1 ELSE 0>> \in H \X Nat
      BY <1>1
    <3> QED
      BY <2>2, <3>1, AppendProperties DEF MergeHeader
  <2> QED
    BY <2>1, <2>2
<1>3. IsStep(Step, N, V) /\ <<>> \in V
  <2>1. <<>> \in V
    OBVIOUS
  <2> HIDE DEF V
  <2> QED
    BY <1>2, <2>1 DEF IsStep
<1>4. \E f : IsRecursive(f, N, V, <<>>, Step)
  <2> HIDE DEF V, Step, N
  <2> QED
    BY <1>1, <1>3, RecursionUpTo
<1>5. PICK f : f \in [0..N -> V] /\ f[0] = <<>> /\ \A i \in 1..N : f[i] = Step[i][f[i - 1]]
  <2> HIDE DEF V, Step, N
  <2> QED
    BY <1>4 DEF IsRecursive
<1> HIDE DEF N, V
<1>6. Good(f)
  <2>1. ASSUME NEW i \in 0..N
        PROVE  f[i] = IF i = 0 THEN <<>> ELSE MergeHeader(s, i, f[i - 1])
    <3>1. CASE i = 0
      BY <1>5, <3>1
    <3>2. CASE i # 0
      <4>1. i \in 1..N /\ f[i - 1] \in V
        BY <1>1, <1>5, <3>2
      <4> QED
        BY <1>5, <3>2, <4>1
    <3> QED
      BY <3>1, <3>2
  <2> HIDE DEF Step
  <2> QED
    BY <1>5, <2>1
<1>7. \A u : Is(u) <=> Good(u)
  BY DEF MergeHeader
<1> DEFINE U == CHOOSE u : Is(u)
<1>8. Merged(s) = U[N]
  BY DEF Merged, N
<1>9. Good(U)
  <2> HIDE DEF Good, Is
  <2> QED
    BY <1>6, <1>7
<1> HIDE DEF U, Is
<1>10. U[0] = <<>> /\ \A i \in 1..N : U[i] = MergeHeader(s, i, U[i - 1])
  BY <1>1, <1>9
<1> HIDE DEF Good
<1> DEFINE T == {i \in 0..N : U[i] \in V /\ \E b : Spans(U[i], b, s, i)}
<1>11. 0 \in T
  <2> DEFINE b == [k \in {0} |-> 0]
  <2>1. Spans(<<>>, b, s, 0)
    BY DEF Spans
  <2> HIDE DEF b
  <2> QED
    BY <1>1, <1>3, <1>10, <2>1
<1>12. ASSUME NEW i \in 1..N, i - 1 \in T PROVE i \in T
  <2>1. U[i - 1] \in V /\ \E b : Spans(U[i - 1], b, s, i - 1)
    BY <1>12
  <2>2. U[i] \in V
    BY <1>2, <1>10, <2>1
  <2>3. \E b : Spans(U[i], b, s, i)
    BY <1>10, <2>1, MergeOne DEF V, N
  <2> QED
    BY <1>1, <2>2, <2>3
<1> HIDE DEF T
<1>13. N \in T
  <2>1. 0..N \subseteq T
    BY <1>1, <1>11, <1>12, InductionUpTo
  <2> QED
    BY <1>1, <2>1
<1> QED
  BY <1>8, <1>13 DEF T, V, N

(* Only paths that fit their stacks are handed on.                          *)
LEMMA FittingPaths ==
  ASSUME NEW P, NEW paths \in Seq(P)
  PROVE  Fitting(paths) \in Seq({p \in P : Fits(p)})
<1> DEFINE N == Len(paths)
           V == Seq({p \in P : Fits(p)})
           Next1(i, l) == IF Fits(paths[i]) THEN Append(l, paths[i]) ELSE l
           Step == [i \in 1..N |-> [l \in V |-> Next1(i, l)]]
           Is(u) == u = [i \in 0..N |->
                           IF i = 0 THEN <<>>
                           ELSE IF Fits(paths[i]) THEN Append(u[i - 1], paths[i]) ELSE u[i - 1]]
<1>1. N \in Nat /\ <<>> \in V /\ \A i \in 1..N : paths[i] \in P
  OBVIOUS
<1>2. ASSUME NEW i \in 1..N, NEW l \in V PROVE Next1(i, l) \in V
  <2>1. CASE Fits(paths[i])
    <3>1. paths[i] \in {p \in P : Fits(p)}
      BY <1>1, <2>1
    <3> QED
      BY <2>1, <3>1, AppendProperties
  <2> QED
    BY <2>1
<1>3. IsStep(Step, N, V)
  <2> HIDE DEF V, Next1
  <2> QED
    BY <1>2 DEF IsStep
<1>4. \E f : IsRecursive(f, N, V, <<>>, Step)
  <2> HIDE DEF V, Step, N
  <2> QED
    BY <1>1, <1>3, RecursionUpTo
<1>5. PICK f : f \in [0..N -> V] /\ f[0] = <<>> /\ \A i \in 1..N : f[i] = Step[i][f[i - 1]]
  <2> HIDE DEF V, Step, N
  <2> QED
    BY <1>4 DEF IsRecursive
<1> HIDE DEF N, V
<1>6. \A u : Is(u) <=> u = [i \in 0..N |-> IF i = 0 THEN <<>> ELSE Next1(i, u[i - 1])]
  OBVIOUS
<1> HIDE DEF Next1
<1>7. Is(f)
  <2>1. ASSUME NEW i \in 0..N
        PROVE  f[i] = IF i = 0 THEN <<>> ELSE Next1(i, f[i - 1])
    <3>1. CASE i = 0
      BY <1>5, <3>1
    <3>2. CASE i # 0
      <4>1. i \in 1..N /\ f[i - 1] \in V
        BY <1>1, <1>5, <3>2
      <4> QED
        BY <1>5, <3>2, <4>1
    <3> QED
      BY <3>1, <3>2
  <2> HIDE DEF Step, Is
  <2>2. f = [i \in 0..N |-> IF i = 0 THEN <<>> ELSE Next1(i, f[i - 1])]
    BY <1>5, <2>1
  <2> QED
    BY <1>6, <2>2
<1> DEFINE U == CHOOSE u : Is(u)
<1>8. Fitting(paths) = U[N]
  BY DEF Fitting, N
<1>9. U = [i \in 0..N |-> IF i = 0 THEN <<>> ELSE Next1(i, U[i - 1])]
  <2>1. Is(U)
    <3> HIDE DEF Is
    <3> QED
      BY <1>7
  <2> HIDE DEF Is, U
  <2> QED
    BY <1>6, <2>1
<1> HIDE DEF U, Is
<1>10. U[0] = <<>> /\ \A i \in 1..N : U[i] = Next1(i, U[i - 1])
  BY <1>1, <1>9
<1> DEFINE T == {i \in 0..N : U[i] \in V}
<1>11. 0 \in T /\ \A i \in 1..N : i - 1 \in T => i \in T
  BY <1>1, <1>2, <1>10
<1> HIDE DEF T
<1>12. N \in T
  <2>1. 0..N \subseteq T
    BY <1>1, <1>11, InductionUpTo
  <2> QED
    BY <1>1, <2>1
<1> QED
  BY <1>8, <1>12 DEF T, V

(* What is handed on: headers, as Merged has merged them, that fit.         *)
OutInv ==
    phase = "done" =>
      \A j \in DOMAIN output : /\ output[j].path.hdrs \in Seq(Headers)
                               /\ output[j].extract = Merged(output[j].path.hdrs)
                               /\ Fits(output[j].path)

LEMMA OutInvStep ==
  ASSUME PathInv, OutInv, [Next]_vars PROVE OutInv'
<1>1. CASE Finish
  <2>1. PICK order \in Bijection(Alike, Alike) :
          LET sorted == [j \in DOMAIN pathList |->
                           IF j \in Alike THEN pathList[order[j]] ELSE pathList[j]]
              paths == Fitting(sorted)
          IN  output' = [j \in DOMAIN paths |->
                           [path       |-> paths[j],
                            extract    |-> Merged(paths[j].hdrs),
                            dependency |-> paths[j].meta,
                            fixed      |-> FixedFields(paths, paths[j].hdrs)]]
    BY <1>1 DEF Finish
  <2> DEFINE sorted == [j \in DOMAIN pathList |->
                          IF j \in Alike THEN pathList[order[j]] ELSE pathList[j]]
             paths == Fitting(sorted)
  <2>2. pathList \in Seq(Paths) /\ \A p \in Paths : p.hdrs \in Seq(Headers)
    BY DEF PathInv, IsPath
  <2>3. sorted \in Seq(Paths)
    <3>1. \A j \in Alike : order[j] \in DOMAIN pathList
      BY DEF Bijection, Injection, Alike
    <3>2. /\ Len(pathList) \in Nat /\ DOMAIN pathList = 1..Len(pathList)
          /\ \A j \in DOMAIN pathList : pathList[j] \in Paths
      BY <2>2
    <3>3. sorted \in [1..Len(pathList) -> Paths]
      BY <3>1, <3>2
    <3> HIDE DEF sorted
    <3> QED
      BY <3>2, <3>3, SeqDef
  <2> HIDE DEF sorted
  <2>4. paths \in Seq({p \in Paths : Fits(p)})
    BY <2>3, FittingPaths
  <2> HIDE DEF paths
  <2>5. \A j \in DOMAIN paths : paths[j] \in Paths /\ Fits(paths[j])
    BY <2>4
  <2>6. output' = [j \in DOMAIN paths |->
                     [path       |-> paths[j],
                      extract    |-> Merged(paths[j].hdrs),
                      dependency |-> paths[j].meta,
                      fixed      |-> FixedFields(paths, paths[j].hdrs)]]
    BY <2>1 DEF sorted, paths
  <2>7. Headers' = Headers
    BY <1>1 DEF Finish, Headers
  <2>8. ASSUME NEW j \in DOMAIN output'
        PROVE  /\ output'[j].path.hdrs \in Seq(Headers)
               /\ output'[j].extract = Merged(output'[j].path.hdrs)
               /\ Fits(output'[j].path)
    <3>1. j \in DOMAIN paths
      BY <2>6
    <3>2. output'[j].path = paths[j] /\ output'[j].extract = Merged(paths[j].hdrs)
      BY <2>6, <3>1
    <3> QED
      BY <2>2, <2>5, <3>1, <3>2
  <2> QED
    BY <2>7, <2>8 DEF OutInv
<1>2. CASE FinishUndefined
  BY <1>2 DEF FinishUndefined, OutInv
<1>3. CASE TakeComplete \/ DropInvalid \/ Extend
  BY <1>3 DEF TakeComplete, DropInvalid, Extend, Exploring, OutInv
<1>4. CASE UNCHANGED vars
  <2>1. Headers' = Headers
    BY <1>4 DEF vars, Headers
  <2> QED
    BY <1>4, <2>1 DEF vars, OutInv
<1> QED
  BY <1>1, <1>2, <1>3, <1>4 DEF Next

(* The ends of the merged headers, as MergeKeepsHeaders counts them, are    *)
(* those of Spans.                                                          *)
IsEnds(u, n, W) == u = [k \in 0..n |-> IF k = 0 THEN 0 ELSE u[k - 1] + W[k]]

Ends(n, W) == CHOOSE u : IsEnds(u, n, W)
Counts(b, n, W) == /\ n \in Nat /\ b \in [0..n -> Nat] /\ b[0] = 0
                   /\ \A k \in 1..n : b[k] = b[k - 1] + W[k]

LEMMA EndsOf ==
  ASSUME NEW n, NEW W, NEW b, Counts(b, n, W)
  PROVE  \A k \in 0..n : Ends(n, W)[k] = b[k]
<1> USE DEF Counts
<1> DEFINE end == Ends(n, W)
<1>1. IsEnds(b, n, W)
  <2>1. \A k \in 0..n : b[k] = IF k = 0 THEN 0 ELSE b[k - 1] + W[k]
    OBVIOUS
  <2> QED
    BY <2>1 DEF IsEnds
<1>2. IsEnds(end, n, W)
  BY <1>1, Zenon DEF Ends
<1> HIDE DEF end
<1>3. end[0] = 0 /\ \A k \in 1..n : end[k] = end[k - 1] + W[k]
  <2> DEFINE G(k) == IF k = 0 THEN 0 ELSE end[k - 1] + W[k]
  <2>1. end = [k \in 0..n |-> G(k)]
    BY <1>2 DEF IsEnds
  <2>2. 0 \in 0..n /\ G(0) = 0 /\ \A k \in 1..n : G(k) = end[k - 1] + W[k] /\ k \in 0..n
    OBVIOUS
  <2> HIDE DEF G
  <2>3. \A k \in 0..n : end[k] = G(k)
    BY <2>1, Zenon
  <2> QED
    BY <2>2, <2>3, Zenon
<1> DEFINE T == {k \in 0..n : end[k] = b[k]}
<1>4. 0 \in T /\ \A k \in 1..n : k - 1 \in T => k \in T
  BY <1>3
<1> HIDE DEF T
<1>5. 0..n \subseteq T
  BY <1>4, InductionUpTo
<1> QED
  BY <1>5 DEF T, end

(* MergeKeepsHeaders, for any parser and stacks: the seeds and the static   *)
(* analysis see every header a path extracts, in its place.                 *)
THEOREM MergeLosesNothing == Spec => []MergeKeepsHeaders
<1>1. Init => PathInv /\ OutInv
  BY PathInvInit DEF Init, OutInv
<1>2. PathInv /\ OutInv /\ [Next]_vars => (PathInv /\ OutInv)'
  BY PathInvStep, OutInvStep
<1>3. OutInv => MergeKeepsHeaders
  <2> SUFFICES ASSUME OutInv, phase = "done", NEW j \in DOMAIN output
               PROVE  LET e == output[j].extract
                          width(i) == IF e[i][2] = 0 THEN 1 ELSE e[i][2]
                          end[k \in 0..Len(e)] == IF k = 0 THEN 0 ELSE end[k - 1] + width(k)
                          hdrs == output[j].path.hdrs
                      IN  /\ Len(hdrs) = end[Len(e)]
                          /\ \A k \in DOMAIN e :
                               \A n \in 1..width(k) : hdrs[end[k - 1] + n] = e[k][1]
                          /\ \A k \in DOMAIN e : (e[k][2] = 0) = (e[k][1] \notin Stacks)
                                                   /\ Fits(output[j].path)
    BY DEF MergeKeepsHeaders
  <2> DEFINE e == output[j].extract
             hdrs == output[j].path.hdrs
             n == Len(e)
             W == [k \in 1..n |-> Width(e[k])]
             end == CHOOSE u : u = [k \in 0..n |->
                      IF k = 0 THEN 0
                      ELSE u[k - 1] + (IF e[k][2] = 0 THEN 1 ELSE e[k][2])]
  <2>1. hdrs \in Seq(Headers) /\ e = Merged(hdrs) /\ Fits(output[j].path)
    BY DEF OutInv
  <2>2. e \in Seq(Headers \X Nat) /\ \E b : Spans(e, b, hdrs, Len(hdrs))
    <3> HIDE DEF e, hdrs
    <3> QED
      BY <2>1, MergedSpans
  <2>3. PICK b : Spans(e, b, hdrs, Len(hdrs))
    BY <2>2
  <2>4. n \in Nat /\ DOMAIN e = 1..n
    BY <2>2
  <2> HIDE DEF e, hdrs
  <2>5. /\ b \in [0..n -> Nat] /\ b[0] = 0 /\ b[n] = Len(hdrs)
        /\ \A k \in 1..n : /\ b[k] = b[k - 1] + Width(e[k])
                           /\ \A i \in 1..Width(e[k]) : hdrs[b[k - 1] + i] = e[k][1]
                           /\ (e[k][2] = 0) <=> (e[k][1] \notin Stacks)
    BY <2>3 DEF Spans
  <2> HIDE DEF n
  <2>6. \A k \in 1..n : W[k] = Width(e[k])
    OBVIOUS
  <2>7. end = Ends(n, W)
    <3>1. \A u : [k \in 0..n |-> IF k = 0 THEN 0
                                 ELSE u[k - 1] + (IF e[k][2] = 0 THEN 1 ELSE e[k][2])]
                   = [k \in 0..n |-> IF k = 0 THEN 0 ELSE u[k - 1] + W[k]]
      BY <2>4, <2>6 DEF Width
    <3> HIDE DEF W
    <3> QED
      BY <3>1 DEF IsEnds, Ends
  <2> HIDE DEF W, end
  <2>8. \A k \in 0..n : end[k] = b[k]
    <3>1. \A k \in 1..n : b[k] = b[k - 1] + W[k]
      BY <2>5, <2>6
    <3>2. n \in Nat /\ b \in [0..n -> Nat] /\ b[0] = 0
      BY <2>4, <2>5
    <3>3. Counts(b, n, W)
      BY <3>1, <3>2 DEF Counts
    <3> QED
      BY <2>7, <3>3, EndsOf, Zenon
  <2>9. Len(hdrs) = end[n]
    BY <2>4, <2>5, <2>8
  <2>10. ASSUME NEW k \in 1..n, NEW i \in 1..Width(e[k]) PROVE hdrs[end[k - 1] + i] = e[k][1]
    <3>1. k - 1 \in 0..n
      BY <2>4
    <3> QED
      BY <2>5, <2>8, <3>1
  <2>11. \A k \in 1..n : (e[k][2] = 0) = (e[k][1] \notin Stacks) /\ Fits(output[j].path)
    BY <2>1, <2>5
  <2> QED
    BY <2>4, <2>9, <2>10, <2>11 DEF Width, n, end, e, hdrs
<1> QED
  BY <1>1, <1>2, <1>3, PTL DEF Spec
=============================================================================
