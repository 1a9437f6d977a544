----------------------------- MODULE MCReportParser ----------------------------
(***************************************************************************)
(* Parsers over ethernet, ipv4, tcp and udp as in the test programs: plain *)
(* returns, selects of the header just extracted, of an earlier one, of    *)
(* the next word and of the ingress port, decimal and masked literals, a   *)
(* stack, a loop and two instances of a type.  The word of ethernet and of *)
(* ipv4 is what they are selected by; reports are up to six words.         *)
(***************************************************************************)
EXTENDS ReportParser

MCPreamble == 1
MCIdentifiers == {"", "start", "ingress", "fp4_visited", "parse_ethernet", "parse_ipv4", "parse_tcp",
                  "parse_udp", "ethernet", "ipv4", "tcp", "udp"}
Plainly(b) == <<b, 0>>
State(n, hs, s, cs) == [name |-> n, extracts |-> hs, select |-> s, cases |-> cs]
Header(b) == <<[header |-> Plainly(b), next |-> 0]>>
Element(b) == <<[header |-> Plainly(b), next |-> 1]>>
NoSelect == [kind |-> "none", header |-> Nothing]
On(kind) == [kind |-> kind, header |-> Nothing]
Field(b) == [kind |-> "field", header |-> Plainly(b)]
To(n) == <<[value |-> Default, to |-> n]>>
Case(lit, n) == <<[value |-> lit, to |-> n]>>
Hex(d) == [base |-> 16, digits |-> <<0, d>>, mask |-> <<>>]
Dec(d) == [base |-> 10, digits |-> d, mask |-> <<>>]
Masked(d, m) == [base |-> 16, digits |-> <<d>>, mask |-> <<m>>]

eth == Plainly("parse_ethernet")
ip == Plainly("parse_ipv4")
tcp == Plainly("parse_tcp")
udp == Plainly("parse_udp")

Starts == {<<State(Start, <<>>, NoSelect, To(eth))>>,
           <<State(Start, <<>>, On("port"), Case(Hex(3), udp) \o To(eth))>>,
           <<State(Start, Header("tcp"), NoSelect, To(eth))>>}
Middles ==
    {<<State(eth, Header("ethernet"), s, Case(Hex(8), ip) \o Case(v, udp) \o To(Ingress))>> :
       s \in {On("latest"), Field("ethernet")}, v \in {Hex(6), Masked(14, 12)}}
      \cup {<<State(eth, Header("ethernet"), On("current"), Case(Hex(6), ip) \o To(Ingress))>>,
            <<State(eth, Element("ethernet"), On("latest"), Case(Hex(8), ip) \o To(Ingress))>>,
            <<State(eth, Header("ethernet"), On("latest"), Case(Hex(8), eth) \o Case(Hex(6), ip) \o To(Ingress))>>,
            <<State(eth, Header("ethernet"), On("latest"), Case(Hex(8), ip) \o To(eth))>>}
Tails ==
    {<<State(ip, Header("ipv4"), On("latest"), Case(Dec(<<6>>), tcp) \o Case(v, udp) \o d)>> :
       v \in {Hex(8), Dec(<<1, 4>>)}, d \in {To(Ingress), <<>>}}
      \cup {<<State(ip, Header("ipv4"), Field("ethernet"), Case(Hex(6), tcp) \o To(udp))>>}
Ends == <<State(tcp, Header("tcp"), NoSelect, To(Ingress)), State(udp, Header("udp"), NoSelect, To(Ingress))>>

Instance(b, type) == [header |-> Plainly(b), type |-> type]
MCPrograms ==
    {[parsers |-> s \o m \o t \o Ends,
      instances |-> <<Instance("ethernet", "e"), Instance("ipv4", "i"), Instance("tcp", "t"),
                      Instance("udp", IF s[1].extracts # <<>> THEN "t" ELSE "u")>>] :
       s \in Starts, m \in Middles, t \in Tails}
\* Nothing, short of what the longest path takes, up to it, and past it.
MCReports ==
    {<<>>} \cup {<<MCPreamble>> \o w : w \in UNION {[1..n -> {6, 8, 14}] : n \in 0..3}
                                  \cup [1..4 -> {6, 8}] \cup [1..6 -> {6, 8}]
                                  \cup {<<14, i, 14, j>> : i, j \in {6, 8, 14}}
                                  \cup {<<6, 8, 14, 8, i>> : i \in {6, 8, 14}}
                                  \cup {<<6, 8, 14, 6, 8, i>> : i \in {6, 14}}}
      \cup {<<2>> \o w : w \in UNION {[1..n -> {6, 8}] : n \in 0..2}}
=============================================================================
