------------------------------ MODULE MCInstrument -----------------------------
(***************************************************************************)
(* Programs of five tables: two actions that several tables have, one that *)
(* drops, a stateful one, names that begin with others' names and a table  *)
(* in capitals, in every nesting of the control constructs.                *)
(***************************************************************************)
EXTENDS InstrumentProperties

drop == <<60>>
dropAll == <<60, 61>>
forward == <<62>>
count == <<63>>
nop == <<64>>
set == <<65>>
unused == <<66>>
t == <<70>>
s == <<71>>
sDrop == <<71, 60>>
Cap == <<25, 70>>
u == <<72>>

Table(actions, name, args) ==
    [actions |-> actions, default |-> IF name = None THEN None ELSE [name |-> name, args |-> args]]
Bodies ==
    (drop :> <<"drop", "forward">>) @@ (dropAll :> <<"forward", "drop">>) @@ (forward :> <<"forward">>)
      @@ (count :> <<"exec">>) @@ (nop :> <<>>) @@ (set :> <<"exec", "other">>)

TableSets ==
    {(t :> Table(<<drop, forward, nop>>, n, a)) @@ (s :> Table(<<set, drop>>, drop, b)) @@ (sDrop :> Table(<<dropAll>>, dropAll, a))
       @@ (Cap :> Table(<<nop>>, nop, "digits")) @@ (u :> Table(IF b = "digits" THEN <<count, forward>> ELSE <<count>>, None, "bare")) :
       n \in {None, drop, nop, forward}, a \in {"bare", "digits"}, b \in {"bare", "digits", "other"}}

Case(a, n) == [on |-> a, block |-> n]
Select(x, cs) == [kind |-> "apply", table |-> x, cases |-> cs]
If(yes, no) == [kind |-> "if", then |-> yes, else |-> no, elseif |-> FALSE]
ElseIf(yes, second) == [kind |-> "if", then |-> yes, else |-> <<second>>, elseif |-> TRUE]
Call(n) == [kind |-> "call", block |-> n]
Check(n) == [kind |-> "assert", num |-> n]

\* Blocks 1 and 2 are those of a control some of the ingresses call, the last is ingress.
Ingresses ==
    {<<<<Apply(Cap)>>, <<Apply(u), Check(0), If(1, <<>>)>>>> \o b : b \in
       {<<<<Apply(t), Apply(s), Call(2), Apply(sDrop), Check(1)>>>>,
        <<<<Call(2)>>, <<Call(2)>>, <<Apply(t), If(3, <<4>>), Apply(s), Check(1)>>>>,
        <<<<Apply(u), Check(1)>>, <<Apply(s)>>, <<Select(t, <<Case(drop, 3), Case(forward, 4)>>), Apply(Cap)>>>>,
        <<<<Apply(s)>>, <<Call(2)>>, <<Select(t, <<Case(forward, 3), Case(drop, 4)>>), Apply(sDrop)>>>>,
        <<<<Apply(s), Apply(u)>>, <<Select(Cap, <<Case(nop, 3)>>), Apply(t), Check(0)>>>>,
        <<<<Apply(s)>>, <<Apply(u), Check(0)>>, <<Apply(t), Check(1)>>, <<If(4, <<5>>)>>, <<ElseIf(3, 6), Apply(Cap)>>>>,
        <<<<Apply(t)>>, <<>>, <<>>, <<Apply(u), Check(1)>>, <<If(4, <<6>>)>>, <<ElseIf(5, 7), Apply(s)>>,
          <<If(3, <<8>>), Check(0)>>>>}}
Egress(n) == <<<<Apply(Cap)>>, <<Apply(t)>>, <<Apply(s), If(n + 1, <<n + 2>>)>>>>
Controls ==
    {[blocks |-> b, roots |-> <<Len(b)>>] : b \in Ingresses}
      \cup {[blocks |-> b \o Egress(Len(b)), roots |-> <<Len(b), Len(b) + 3>>] : b \in Ingresses}

Rule(x, cmd, a, args) == [table |-> x, cmd |-> cmd, action |-> a, args |-> args]
k == <<1>>
AllRules == <<Rule(t, "entry", drop, <<k>>), Rule(t, "default", nop, <<>>), Rule(s, "entry", drop, <<>>),
              Rule(Cap, "entry", nop, <<k>>), Rule(s, "entry", set, <<k, k>>),
              Rule(sDrop, "entry", dropAll, <<k>>), Rule(sDrop, "default", dropAll, <<>>),
              Rule(t, "default", drop, <<k>>), Rule(s, "default", drop, <<>>), Rule(t, "entry", forward, <<k>>)>>
Asserts == {<<[op |-> "<=", value |-> 3], [op |-> ">=", value |-> 1]>>, <<[op |-> "==", value |-> 0], [op |-> "<=", value |-> 65535]>>}

MCPrograms ==
    {[order |-> <<t, s, sDrop, Cap, u>>, tables |-> ts, blocks |-> c.blocks, roots |-> c.roots, asserts |-> q,
      rules |-> AllRules, actions |-> Bodies @@ x[2], target |-> x[1]] :
       ts \in TableSets, c \in Controls, q \in Asserts,
       x \in {<<"hw", <<>>>>, <<"sim", unused :> <<"drop">>>>}}
=============================================================================
