---------------------------- MODULE MCStaticAnalysis ---------------------------
(***************************************************************************)
(* Programs of three to five tables in every nesting of the control        *)
(* constructs below, with and without actions that add and remove headers, *)
(* over two sets of parser paths.  Fields 1 to 8 are spread over four      *)
(* headers and metadata.                                                   *)
(***************************************************************************)
EXTENDS StaticAnalysis

MCHeaderOf == <<"eth", "ip", "ip", "ip", "tcp", "udp", "meta", "meta">>

\* The tables: letters.
t == <<60>>
s == <<61>>
u == <<62>>
v == <<63>>
z == <<64>>
Copy(f, g) == [cmd |-> "assign", left |-> f, fields |-> {g}, other |-> FALSE]
SetTo(f) == [cmd |-> "assign", left |-> f, fields |-> {}, other |-> TRUE]
Drop == <<[cmd |-> "drop"]>>
Execute(ins, outs) == <<[cmd |-> "execute", inputs |-> ins, outputs |-> outs]>>
Header(h, valid) == <<[cmd |-> "header", hdr |-> h, valid |-> valid]>>
Nop == <<>>
Decl(keys, actions) == [keys |-> keys, actions |-> actions]

Tables(at, as, ku) ==
    (t :> Decl({2}, at)) @@ (s :> Decl({7}, as)) @@ (u :> Decl(ku, {<<SetTo(8)>>, Drop}))
      @@ (z :> Decl({4, 7}, {<<SetTo(4)>>})) @@ (v :> Decl({5, 6, 8}, {<<SetTo(7)>>, Nop}))
Decls ==
    {Tables(at, as, ku) :
       at \in {{<<Copy(7, 3), Copy(8, 7)>>, Nop}, {<<Copy(3, 4), SetTo(7)>>, Drop}, {Nop}},
       as \in {{Execute({6, 7}, {8})},
               {Execute({}, {8}) \o Header("udp", {TRUE}), <<Copy(2, 5)>>, Nop}},
       ku \in {{8}, {1, 2, 3, 4, 8}}}
      \cup {Tables(at, {Execute({6, 7}, {8})}, {1, 3}) :
              at \in {{Header("tcp", {FALSE})}, {Header("tcp", BOOLEAN) \o Header("udp", {TRUE}), Nop}}}

Valid(h) == [op |-> "valid", hdr |-> h]
Is(f, w) == [op |-> "==", left |-> [op |-> "field", field |-> f], right |-> [op |-> "word", value |-> w]]
Op(o, l, r) == [op |-> o, left |-> l, right |-> r]
Conds == {Valid("tcp"), Is(3, "w0"), Op("&&", Valid("tcp"), Op("||", Is(7, "w1"), Is(3, "w2"))),
          Op("==", Valid("tcp"), Valid("udp"))}

Apply(x) == [kind |-> "apply", table |-> x, cases |-> <<>>]
Select(x, cs) == [kind |-> "apply", table |-> x, cases |-> cs]
If(c, yes, no) == [kind |-> "if", cond |-> c, then |-> yes, else |-> no]
Call(b) == [kind |-> "call", block |-> b]

Blocks ==
    UNION {{<<Apply(t), If(c, <<Apply(s)>>, <<<<Apply(u)>>>>), Apply(v)>>,
            <<Apply(t), If(c, <<Apply(s)>>, <<>>), Apply(u), Apply(v)>>,
            <<If(c, <<Apply(t), Apply(s)>>, <<<<If(Is(3, "w3"), <<Apply(u)>>, <<<<Apply(s)>>>>)>>>>), Apply(v)>>,
            <<If(c, <<Apply(t)>>, <<<<>>>>), Call(<<Apply(s), If(Valid("udp"), <<Apply(u)>>, <<>>)>>)>>,
            <<Select(t, <<<<Apply(s)>>, <<If(c, <<Apply(u)>>, <<<<Apply(s)>>>>)>>>>), Apply(v)>>} : c \in Conds}
      \cup {<<Select(t, <<<<If(Valid("tcp"), <<Apply(s)>>, <<>>)>>>>), Apply(u)>>}

MCPaths == {<<{"eth", "ip", "tcp"}, {"eth", "ip", "udp"}, {"eth"}>>, <<{"eth", "ip", "tcp", "udp"}>>}

MCPrograms ==
    {[decls |-> d, ingress |-> b, egress |-> e, paths |-> p] :
       d \in Decls, b \in Blocks, p \in MCPaths,
       e \in {<<>>, <<If(Is(3, "w4"), <<Apply(z)>>, <<<<Apply(z)>>>>)>>}}
MCGraphs == {Analysed(q) : q \in MCPrograms}

ASSUME FixedValuesComplete == \A q \in MCPrograms : FixedValuesOf(q)
=============================================================================
