----------------------------- MODULE MCParserGraph -----------------------------
(***************************************************************************)
(* Every parser of three states below: start extracts eth; a may extract   *)
(* nothing, ip or an element of the stack vl, may loop, and may look at    *)
(* eth, at its own header or ahead; b ends the walk.                       *)
(***************************************************************************)
EXTENDS ParserGraph

MCStackSize == [h \in {"vl"} |-> 2]
MCFirstField == [h \in {"eth", "ip", "vl", "tcp"} |-> "f"]
MCInstances == {"eth", "ip", "vl", "tcp"}

Field(h) == [kind |-> "field", hdr |-> h, field |-> "f"]
Ahead == [kind |-> "current", hdr |-> "latest", field |-> "f"]
Decl(ext, sel, cases, ret) ==
    [extracts |-> ext, sets |-> {}, select |-> sel, cases |-> cases, ret |-> ret]
To(v, s) == [value |-> v, to |-> s]
Otherwise(s) == To("default", s)

StartDecls ==
    {Decl(<<"eth">>, <<m>>, c \o <<Otherwise(d)>>, Ingress) :
       m \in {Field("latest"), Ahead}, d \in {Ingress, "b"},
       c \in {<<To("v1", "a")>>, <<To("v1", "a"), To("v2", "b")>>}}
ADecls ==
    {Decl(e, <<m>>, c \o <<Otherwise(d)>>, Ingress) :
       e \in {<<>>, <<"ip">>, <<"vl">>}, m \in {Field("latest"), Field("eth"), Ahead},
       c \in {<<>>, <<To("v1", "a")>>, <<To("v2", "b")>>, <<To("v1", Ingress)>>},
       d \in {Ingress, "b"}}
BDecls == {Decl(e, <<>>, <<>>, Ingress) : e \in {<<>>, <<"tcp">>, <<"ip">>}}
None == Decl(<<>>, <<>>, <<>>, Ingress)

Exhaustive ==
    {("start" :> s) @@ ("a" :> a) @@ ("b" :> b) @@ (Ingress :> None) :
       s \in StartDecls, a \in ADecls, b \in BDecls}

\* A parser that starts with a stack.
Leading ==
    {("start" :> Decl(<<"vl">>, <<Field("latest")>>, <<To("v1", "start"), Otherwise(Ingress)>>, Ingress))
        @@ ("a" :> None) @@ ("b" :> None) @@ (Ingress :> None)}
\* a sets a metadata field before it branches.
WithMetadata ==
    {("start" :> Decl(<<"eth">>, <<Field("latest")>>, <<To("v1", "a"), Otherwise(Ingress)>>, Ingress))
        @@ ("a" :> [Decl(<<"ip">>, <<Field("latest")>>, c \o <<Otherwise("b")>>, Ingress)
                      EXCEPT !.sets = {[lhs |-> "meta.ttl", hdr |-> "eth", field |-> "f"]}])
        @@ ("b" :> Decl(e, <<>>, <<>>, Ingress)) @@ (Ingress :> None) :
       e \in {<<>>, <<"tcp">>},
       c \in {<<>>, <<To("v2", "b")>>, <<To("v1", Ingress)>>, <<To("v1", Ingress), To("v2", "b")>>}}

MCSources == Exhaustive \cup Leading \cup WithMetadata
=============================================================================
