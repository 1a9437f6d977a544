------------------------------ MODULE ReportParser -----------------------------
(***************************************************************************)
(* How the controller reads a report.  The tester's parser is the          *)
(* program's with a second copy of itself behind it, for the headers as    *)
(* they were before mutation (CloneParser, UpdateParserDAG); it is written *)
(* out as JSON (GenerateParserJson), and the controller walks through that *)
(* JSON over the bytes it received (StateMachine, Packet).  From a report  *)
(* of a new path it makes a seed of the copied headers.                    *)
(*                                                                         *)
(* A header is one word on the wire, its value the field that is selected; *)
(* a name is <<base, 1>> with the suffix _clone, <<base, 0>> without.      *)
(* A parser is                                                             *)
(*   [name, extracts: <<[header, next], ...>>, select, cases]              *)
(* with select [kind |-> "none" | "port" | "field" | "latest" | "current", *)
(* header]; cases <<[value, to], ...>>, value a literal or Default, one    *)
(* case of Default for a plain return.  A literal is                       *)
(*   [base |-> 10 | 16, digits, mask].                                     *)
(*                                                                         *)
(* A report is what a Packet keeps of the bytes received: the first        *)
(* Header.maxLength of them (packet.py:12), and recvfrom gives 512.  A     *)
(* program whose loops read past that is not covered.                      *)
(***************************************************************************)
EXTENDS Integers, Sequences, FiniteSets, FiniteSetsExt

CONSTANTS Identifiers,
          Programs,    \* [parsers, instances: <<[header, type], ...>>]
          Reports,     \* what may arrive, sequences of words
          Preamble     \* 14593470

VARIABLES prog, report,
          parsers,      \* the tester's, as printed
          known,        \* Header.fields: the headers header.py has the layout of
          machine,      \* StateMachine: [extract, transitions, defaults]
          phase,        \* "clone", "update", "json", "packet", "parse", "seed", "done"
          current,      \* currentState
          read,         \* words consumed: currentByteIndex, currentBitIndex
          latest,       \* packet.headers["latest"]
          headers,      \* packet.headers in order of insertion: [key: <<name, next>>, word]
          outcome       \* "none", "incomplete", "unknown", "exception", "seed"

vars == <<prog, report, parsers, known, machine, phase, current, read, latest, headers, outcome>>

Default == [base |-> 0, digits |-> <<>>, mask |-> <<>>]
Nothing == <<"", 0>>
Start == <<"start", 0>>
StartClone == <<"start", 1>>
Ingress == <<"ingress", 0>>
Visited == <<"fp4_visited", 0>>
Clone(name) == <<name[1], 1>>
Named(ps, s) == ps[CHOOSE i \in DOMAIN ps : ps[i].name = s]
NamesOf(ps) == {ps[i].name : i \in DOMAIN ps}

Plain == Identifiers \X {0}
Name == Identifiers \X {0, 1}
Extract == [header : Name, next : {0, 1}]
Literal == [base : {0, 10, 16}, digits : Seq(Nat), mask : Seq(Nat)]
Branch == [value : Literal, to : Name]
Select == [kind : {"none", "port", "field", "latest", "current"}, header : Name]
Parser == [name : Name, extracts : Seq(Extract),
           select : Select, cases : Seq(Branch)]
IsProgram(p) ==
    LET ps == p.parsers
    IN  /\ ps \in Seq(Parser) /\ Start \in NamesOf(ps) /\ Ingress \notin NamesOf(ps)
        /\ \A i, j \in DOMAIN ps : ps[i].name = ps[j].name => i = j
        /\ \A i \in DOMAIN ps :
             /\ ps[i].name \in Plain /\ ps[i].cases # <<>> /\ ps[i].select.header \in Plain
             /\ \A e \in Range(ps[i].extracts) : e.header \in Plain \ {Visited}
             /\ \A c \in Range(ps[i].cases) :
                  /\ c.to \in NamesOf(ps) \cup {Ingress}
                  /\ ps[i].select.kind = "none" => c.value = Default

ASSUME ReportAssumption ==
    /\ {"start", "ingress", "fp4_visited"} \subseteq Identifiers
    /\ \A p \in Programs : IsProgram(p)
    /\ \A w \in Reports : w \in Seq(Nat)
-----------------------------------------------------------------------------
\* The tester's parser.

\* Mutant: the copy of ingress is a state of its own.
CloneOfAll(name) == Clone(name)
CloneOf(name) == IF name = Ingress THEN name ELSE Clone(name)
\* Mutant: a field keeps its header in the copy.
SelectKept(s) == s
\* latest and ig_intr_md keep their names.
SelectCopy(s) == IF s.kind = "field" THEN [s EXCEPT !.header = Clone(@)] ELSE s
MakeCopy(p) ==
    [name |-> Clone(p.name),
     extracts |-> [i \in DOMAIN p.extracts |-> [p.extracts[i] EXCEPT !.header = Clone(@)]],
     select |-> SelectCopy(p.select),
     cases |-> [i \in DOMAIN p.cases |-> [p.cases[i] EXCEPT !.to = CloneOf(@)]]]
\* The second parser starts where the first one returns to ingress.
Redirected(p) ==
    [p EXCEPT !.cases = [i \in DOMAIN @ |-> IF @[i].to = Ingress THEN [@[i] EXCEPT !.to = StartClone] ELSE @[i]]]

\* type_to_instance holds one instance of each header type, the last declared.
Instances(p) ==
    {p.instances[i].header : i \in {j \in DOMAIN p.instances :
        \A l \in DOMAIN p.instances : l > j => p.instances[l].type # p.instances[j].type}}

(* GenerateParserJson: the transitions of a state by the positions of      *)
(* their cases, the value Default without a condition.  A select of the    *)
(* ingress port becomes its default.                                       *)
Transitions(p) ==
    [i \in {j \in DOMAIN p.cases : p.select.kind = "port" => p.cases[j].value = Default} |->
       [to |-> p.cases[i].to, select |-> p.select, value |-> p.cases[i].value]]
Extracts(p) ==
    p.extracts \o IF p.name = Start THEN <<[header |-> Visited, next |-> 0]>> ELSE <<>>

\* StateMachine: int(value, 16), whatever the literal's base; a masked value is
\* put together from the decimal texts of its digits.
Number(digits, base) ==
    LET n[i \in 0..Len(digits)] == IF i = 0 THEN 0 ELSE n[i - 1] * base + digits[i]
    IN  n[Len(digits)]
And(a, b) ==
    LET n[i \in 0..16] ==
          IF i = 0 THEN 0 ELSE n[i - 1] + 2^(i - 1) * (((a \div 2^(i - 1)) % 2) * ((b \div 2^(i - 1)) % 2))
    IN  n[16]
Value(lit) ==
    LET masked[i \in 0..Len(lit.digits)] ==
          IF i = 0 THEN 0
          ELSE LET d == And(lit.digits[i], lit.mask[i])
               IN  IF d < 10 THEN masked[i - 1] * 16 + d
                   ELSE (masked[i - 1] * 16 + (d \div 10)) * 16 + (d % 10)
    IN  IF lit.mask = <<>> THEN Number(lit.digits, 16) ELSE masked[Len(lit.digits)]

DefaultsOf(ts) == {i \in DOMAIN ts : ts[i].value = Default}
Machine(ps) ==
    LET of(s) == Transitions(Named(ps, s))
        froms == {s \in NamesOf(ps) : DOMAIN of(s) # {}}
    IN  [extract |-> [s \in NamesOf(ps) |-> Extracts(Named(ps, s))],
         transitions |-> [s \in froms |-> of(s)],
         defaults |-> [s \in froms |-> IF DefaultsOf(of(s)) = {} THEN Nothing
                                        ELSE of(s)[Max(DefaultsOf(of(s)))].to]]
-----------------------------------------------------------------------------
\* The controller's packet: a dictionary keeps the place of the first insertion.
\* (The names of Header.fields are in it from the start, empty; of the order of
\* the headers only that of the copies is used.)

Key(e) == <<e.header, e.next>>
Insert(hs, key, word) ==
    IF \E i \in DOMAIN hs : hs[i].key = key
    THEN [i \in DOMAIN hs |-> IF hs[i].key = key THEN [hs[i] EXCEPT !.word = word] ELSE hs[i]]
    ELSE Append(hs, [key |-> key, word |-> word])

\* addHeader: the layout is looked up before anything is read.
AddHeader(st, e) ==
    IF st.fault # "none" THEN st
    ELSE IF <<e.header[1], 0>> \notin known \cup {Visited} THEN [st EXCEPT !.fault = "exception"]
    ELSE IF st.read >= Len(report) THEN [st EXCEPT !.fault = "incomplete"]
    ELSE [st EXCEPT !.read = @ + 1, !.latest = report[st.read + 1],
                    !.headers = Insert(@, Key(e), report[st.read + 1])]
AddHeaders(es) ==
    LET upTo[i \in 0..Len(es)] ==
          IF i = 0 THEN [fault |-> "none", read |-> read, headers |-> headers, latest |-> latest]
          ELSE AddHeader(upTo[i - 1], es[i])
    IN  upTo[Len(es)]

\* Mutant: every field is looked up in the header just extracted.
SeenLatest(select, st) ==
    IF select.kind = "current" THEN (IF st.read < Len(report) THEN report[st.read + 1] ELSE -1) ELSE st.latest
\* The word a transition looks at; -1 for a KeyError or an IndexError.
Seen(select, st) ==
    CASE select.kind = "latest" -> st.latest
      [] select.kind = "current" -> IF st.read < Len(report) THEN report[st.read + 1] ELSE -1
      [] select.kind = "field" ->
           LET is == {i \in DOMAIN st.headers : st.headers[i].key = <<select.header, 0>>}
           IN  IF is = {} THEN -1 ELSE st.headers[CHOOSE i \in is : TRUE].word
-----------------------------------------------------------------------------
Init ==
    /\ prog \in Programs /\ report \in Reports /\ phase = "clone" /\ outcome = "none"
    /\ parsers = prog.parsers /\ known = {} /\ machine = <<>>
    /\ current = Start /\ read = 0 /\ latest = 0 /\ headers = <<>>

CloneParser ==
    /\ phase = "clone" /\ phase' = "update"
    /\ parsers' = [i \in 1..(2 * Len(parsers)) |->
                     IF i % 2 = 1 THEN parsers[(i + 1) \div 2] ELSE MakeCopy(parsers[i \div 2])]
    /\ UNCHANGED <<prog, report, known, machine, current, read, latest, headers, outcome>>

UpdateParserDAG ==
    /\ phase = "update" /\ phase' = "json"
    /\ parsers' = [i \in DOMAIN parsers |-> IF parsers[i].name[2] = 1 THEN parsers[i] ELSE Redirected(parsers[i])]
    /\ UNCHANGED <<prog, report, known, machine, current, read, latest, headers, outcome>>

\* The files written and read: the controller comes up.
GenerateParserJson ==
    /\ phase = "json" /\ phase' = "packet"
    /\ machine' = Machine(parsers)
    /\ known' = Instances(prog)
    /\ UNCHANGED <<prog, report, parsers, current, read, latest, headers, outcome>>

(* Packet.__init__ unpacks the bytes received.  Of no byte at all there is *)
(* nothing to unpack, and it raises; a report without a whole word has     *)
(* none or a few.                                                          *)
NewPacket ==
    /\ phase = "packet"
    /\ \/ phase' = "parse" /\ UNCHANGED outcome
       \/ report = <<>> /\ phase' = "done" /\ outcome' = "exception"
    /\ UNCHANGED <<prog, report, parsers, known, machine, current, read, latest, headers>>

Fail(how) == phase' = "done" /\ outcome' = how /\ UNCHANGED current

Conditional(ts) == DOMAIN ts \ DefaultsOf(ts)
Matching(ts, st) == {i \in Conditional(ts) : Seen(ts[i].select, st) = Value(ts[i].value)}

(* One round of parsePacket's loop.  A transition that is taken to the     *)
(* state it leaves counts as none taken.                                   *)
ParseState ==
    LET st == AddHeaders(IF current \in DOMAIN machine.extract THEN machine.extract[current] ELSE <<>>)
        ts == machine.transitions[current]
        taken == Matching(ts, st)
        blind == \E i \in Conditional(ts) : Seen(ts[i].select, st) = -1
    IN  /\ phase = "parse" /\ current # Ingress
        /\ read' = st.read /\ headers' = st.headers /\ latest' = st.latest
        /\ CASE st.fault # "none" -> Fail(st.fault)
             [] st.fault = "none" /\ (current \notin DOMAIN machine.transitions \/ blind) -> Fail("exception")
             [] OTHER ->
                  /\ current' = IF taken # {} /\ ts[Min(taken)].to # current THEN ts[Min(taken)].to
                                ELSE machine.defaults[current]
                  /\ UNCHANGED <<phase, outcome>>
        /\ UNCHANGED <<prog, report, parsers, known, machine>>

CheckPreamble ==
    /\ phase = "parse" /\ current = Ingress
    /\ LET preamble == headers[CHOOSE i \in DOMAIN headers : headers[i].key = <<Visited, 0>>].word
       IN  IF preamble = Preamble THEN phase' = "seed" /\ UNCHANGED outcome
           ELSE phase' = "done" /\ outcome' = "unknown"
    /\ UNCHANGED <<prog, report, parsers, known, machine, current, read, latest, headers>>

(* The seed of a new path: every header whose name has "clone" in it; the  *)
(* last six letters, "_clone" or "[next]", are cut off and "_clone" is put *)
(* behind, which is no header when they were "[next]".                     *)
Cloned ==
    LET upTo[i \in 0..Len(headers)] ==
          IF i = 0 THEN <<>>
          ELSE IF headers[i].key[1][2] = 1 THEN Append(upTo[i - 1], headers[i]) ELSE upTo[i - 1]
    IN  upTo[Len(headers)]
AddSeed ==
    /\ phase = "seed" /\ phase' = "done"
    /\ outcome' = IF \E i \in DOMAIN Cloned : Cloned[i].key[2] = 1 THEN "exception" ELSE "seed"
    /\ UNCHANGED <<prog, report, parsers, known, machine, current, read, latest, headers>>

Next == CloneParser \/ UpdateParserDAG \/ GenerateParserJson \/ NewPacket \/ ParseState \/ CheckPreamble \/ AddSeed

Spec == Init /\ [][Next]_vars
FairSpec == Spec /\ WF_vars(Next)
-----------------------------------------------------------------------------
(* The reference: what the tester's switch extracts from a packet, state   *)
(* by state, with the visited header first.  A packet that ends early is   *)
(* dropped.  A switch that is in the same state twice without reading on   *)
(* stays in that loop, so as many rounds are enough as there are states    *)
(* and words.                                                              *)
P4Value(lit) == Number(lit.digits, lit.base)
P4Takes(lit, word) ==
    IF lit.mask = <<>> THEN word = P4Value(lit)
    ELSE And(word, Number(lit.mask, 16)) = And(P4Value(lit), Number(lit.mask, 16))
P4Looked(select, words, all) ==
    CASE select.kind = "latest" -> all[Len(all)].word
      [] select.kind = "current" -> words[Len(all) + 1]
      [] select.kind = "field" -> all[Max({i \in DOMAIN all : all[i].key[1] = select.header})].word
P4Cases(p, words, all) ==
    {i \in DOMAIN p.cases :
        p.cases[i].value # Default =>
            p.select.kind # "port" /\ P4Takes(p.cases[i].value, P4Looked(p.select, words, all))}
P4Extracts(p) ==
    (IF p.name = Start THEN <<[header |-> Visited, next |-> 0]>> ELSE <<>>) \o p.extracts
P4LooksAhead(p) == p.select.kind = "current" /\ \E c \in Range(p.cases) : c.value # Default
P4Extracted(es, words, hs) ==
    hs \o [i \in DOMAIN es |-> [key |-> Key(es[i]), word |-> words[Len(hs) + i]]]

Dropped == <<>>
P4Step(ps, words, at) ==
    LET p == Named(ps, at.state)
        n == Len(at.headers) + Len(P4Extracts(p)) + (IF P4LooksAhead(p) THEN 1 ELSE 0)
        all == P4Extracted(P4Extracts(p), words, at.headers)
        cases == P4Cases(p, words, all)
    IN  IF at.state \in {Ingress, Dropped} THEN at
        ELSE IF n > Len(words) THEN [at EXCEPT !.state = Dropped]
        ELSE IF cases = {} THEN [at EXCEPT !.state = Dropped]
        ELSE [state |-> p.cases[Min(cases)].to, headers |-> all]
P4Parse(ps, words) ==
    LET rounds == Len(ps) * (Len(words) + 1)
        at[k \in 0..rounds] == IF k = 0 THEN [state |-> Start, headers |-> <<>>]
                               ELSE P4Step(ps, words, at[k - 1])
    IN  at[rounds]
OnWire == P4Parse(parsers, report)
P4Accepts == OnWire.state = Ingress
-----------------------------------------------------------------------------
\* Programs the JSON and its reader can express: the default is the last case, a
\* state may return to itself by its default only, start is the first state and
\* extracts nothing, no stacks, one instance of each extracted header's type; and
\* what a state selects on is extracted there, or on every way to it.
Targets(p) == {c.to : c \in Range(p.cases)}
Headers(p) == {e.header : e \in Range(p.extracts)}
Without(ps, h) ==   \* the sets of states that hold all that are reached without h
    {ns \in SUBSET NamesOf(ps) :
        /\ Start \in ns
        /\ \A p \in Range(ps) : p.name \in ns /\ h \notin Headers(p) => Targets(p) \subseteq ns \cup {Ingress}}
Selects(ps, p) ==
    CASE p.select.kind = "latest" -> p.extracts # <<>>
      [] p.select.kind = "field" -> \/ p.select.header \in Headers(p)
                                    \/ \E ns \in Without(ps, p.select.header) : p.name \notin ns
      [] OTHER -> TRUE
Supported ==
    \A p \in Range(prog.parsers) :
        /\ p.name = Start => p.extracts = <<>>
        /\ \A i \in DOMAIN p.cases :
             /\ p.cases[i].value = Default <=> i = Len(p.cases)
             /\ p.cases[i].to = p.name => i = Len(p.cases)
             /\ p.cases[i].to # Start
        /\ \A e \in Range(p.extracts) : e.next = 0 /\ e.header \in Instances(prog)
        /\ Selects(prog.parsers, p)
Literals == {c.value : c \in UNION {Range(p.cases) : p \in Range(prog.parsers)}} \ {Default}
ReadAlike ==
    \A lit \in Literals : lit.mask = <<>> /\ (lit.base = 16 \/ Len(lit.digits) = 1)
LookAhead == \E p \in Range(prog.parsers) : p.select.kind = "current"
Done == phase = "done"

\* The controller reads within the report, and a name is in its dictionary once.
TypeOK ==
    /\ prog \in Programs /\ report \in Reports
    /\ phase \in {"clone", "update", "json", "packet", "parse", "seed", "done"}
    /\ outcome \in {"none", "incomplete", "unknown", "exception", "seed"}
    /\ read \in 0..Len(report)
    /\ current \in {Ingress, Nothing} \cup {p.name : p \in Range(parsers)}
    /\ \A i, j \in DOMAIN headers : headers[i].key = headers[j].key => i = j

\* What a dictionary holds of the headers extracted: each once, as it was last, in
\* the order of their first extraction.
HeldOf(hs, all) ==
    /\ {hs[i].key : i \in DOMAIN hs} = {all[j].key : j \in DOMAIN all}
    /\ \A i \in DOMAIN hs : \E j \in DOMAIN all :
         /\ all[j] = hs[i]
         /\ \A l \in DOMAIN all : all[l].key = hs[i].key => l =< j
    /\ \A i, j \in DOMAIN hs : i < j =>
         \E l \in DOMAIN all : all[l].key = hs[i].key /\ \A m \in 1..l : all[m].key # hs[j].key
Understood ==
    Done /\ P4Accepts =>
        IF report[1] = Preamble THEN outcome = "seed" /\ HeldOf(headers, OnWire.headers)
        ELSE outcome = "unknown"
(* Every report is done with, headers in a loop included, and what the     *)
(* tester's switch lets through and sends up, the controller reads as the  *)
(* switch does, header by header; anything else is discarded               *)
(* (GenerateParserJson and parsePacket against the printed parser).        *)
ReportsUnderstood == <>(Done /\ (Supported /\ ReadAlike => Understood))

(* A seed is a packet of the program: its parser, given the seed's words,  *)
(* extracts the seed's headers and no other (MakeCopy, UpdateParserDAG).   *)
SeedsAreParsed ==
    Done /\ outcome = "seed" /\ Supported /\ ReadAlike =>
        LET own == P4Parse(prog.parsers, <<Preamble>> \o [i \in DOMAIN Cloned |-> Cloned[i].word])
            once == \A i, j \in DOMAIN OnWire.headers : OnWire.headers[i].key = OnWire.headers[j].key => i = j
        IN  P4Accepts /\ once /\ ~LookAhead =>
              /\ own.state = Ingress
              /\ Len(own.headers) = Len(Cloned) + 1
              /\ \A i \in DOMAIN Cloned : /\ Cloned[i].key[1] = Clone(own.headers[i + 1].key[1])
                                           /\ Cloned[i].word = own.headers[i + 1].word

\* It has read all there is, in a state that selects on what comes next.
AtItsEnd ==
    /\ read = Len(report)
    /\ \E p \in Range(parsers) : p.name = current /\ p.select.kind = "current"
(* A report cut short never becomes a seed, and what main_loop does not    *)
(* catch is raised for two kinds of reports only: one of no byte           *)
(* (packet.py:18), and one that ends where the parser looks ahead, which   *)
(* readFutureBits reads outside the try of parsePacket (packet.py:76,      *)
(* stateMachine.py:78).  Neither addHeader, the transitions, a missing     *)
(* state nor the making of the seed raises anything.                       *)
NothingStopsReading ==
    /\ TypeOK
    /\ Done /\ Supported /\ ReadAlike /\ ~P4Accepts => outcome \in {"incomplete", "exception"}
    /\ Done /\ Supported /\ outcome = "exception" => report = <<>> \/ AtItsEnd

(* "17: parse_udp" (netchain/includes/parser.p4:17), a program the tool is *)
(* run on: a report of a UDP packet is understood.                         *)
DecimalsUnderstood ==
    Supported /\ (\A lit \in Literals : lit.mask = <<>>) => Understood
=============================================================================
