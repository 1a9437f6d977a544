--------------------------- MODULE ReportParserProofs -------------------------
(***************************************************************************)
(* The controller reads a report as the tester's switch does, and makes a  *)
(* seed of it that the program's own parser takes: proved for every parser *)
(* that the JSON and its reader can express and every report.  First the   *)
(* doubled parser as a set of states, then the runs of a switch, then one  *)
(* round of parsePacket against one step of such a run.                    *)
(***************************************************************************)
EXTENDS ReportParser, InductionLemmas, FiniteSetTheorems, SequenceTheorems, TLAPS

-----------------------------------------------------------------------------
(* Parsers as sets of states.                                              *)

Shaped(qs) ==
  /\ qs \in Seq(Parser) /\ Len(qs) \in Nat /\ DOMAIN qs = 1..Len(qs)
  /\ NamesOf(qs) \subseteq Name /\ Start \in NamesOf(qs) /\ Ingress \notin NamesOf(qs)
  /\ \A s \in NamesOf(qs) :
       /\ \E i \in 1..Len(qs) : qs[i].name = s
       /\ Named(qs, s) \in Parser /\ Named(qs, s).name = s /\ Named(qs, s).cases # <<>>
       /\ \A i \in DOMAIN Named(qs, s).cases :
            /\ Named(qs, s).cases[i].to \in NamesOf(qs) \cup {Ingress}
            /\ Named(qs, s).select.kind = "none" => Named(qs, s).cases[i].value = Default

LEMMA NamedIs ==
  ASSUME NEW qs, NEW i \in DOMAIN qs, \A j \in DOMAIN qs : qs[j].name = qs[i].name => j = i
  PROVE  Named(qs, qs[i].name) = qs[i]
BY DEF Named

LEMMA ShapedFrom ==
  ASSUME NEW qs \in Seq(Parser), Start \in NamesOf(qs), Ingress \notin NamesOf(qs),
         \A i, j \in DOMAIN qs : qs[i].name = qs[j].name => i = j,
         \A i \in DOMAIN qs :
           /\ qs[i].cases # <<>>
           /\ \A c \in DOMAIN qs[i].cases :
                /\ qs[i].cases[c].to \in NamesOf(qs) \cup {Ingress}
                /\ qs[i].select.kind = "none" => qs[i].cases[c].value = Default
  PROVE  Shaped(qs)
<1>1. Len(qs) \in Nat /\ DOMAIN qs = 1..Len(qs) /\ \A i \in DOMAIN qs : qs[i] \in Parser
  OBVIOUS
<1>2. \A i \in DOMAIN qs : Named(qs, qs[i].name) = qs[i]
  BY NamedIs
<1>3. NamesOf(qs) \subseteq Name
  BY <1>1 DEF NamesOf, Name, Parser
<1>4. ASSUME NEW s \in NamesOf(qs) PROVE \E i \in DOMAIN qs : qs[i].name = s /\ Named(qs, s) = qs[i]
  BY <1>2 DEF NamesOf
<1> QED
  BY <1>1, <1>3, <1>4 DEF Shaped

LEMMA ProgramShaped ==
  ASSUME NEW p, IsProgram(p)
  PROVE  /\ Shaped(p.parsers) /\ NamesOf(p.parsers) \subseteq Plain
         /\ \A s \in NamesOf(p.parsers) :
              /\ Named(p.parsers, s) \in Range(p.parsers)
              /\ Named(p.parsers, s).select.header \in Plain
              /\ \A i \in DOMAIN Named(p.parsers, s).extracts :
                   Named(p.parsers, s).extracts[i].header \in Plain \ {Visited}
<1> DEFINE ps == p.parsers
<1>1. /\ ps \in Seq(Parser) /\ Start \in NamesOf(ps) /\ Ingress \notin NamesOf(ps)
      /\ \A i, j \in DOMAIN ps : ps[i].name = ps[j].name => i = j
      /\ \A i \in DOMAIN ps :
           /\ ps[i].name \in Plain /\ ps[i].cases # <<>> /\ ps[i].select.header \in Plain
           /\ \A e \in Range(ps[i].extracts) : e.header \in Plain \ {Visited}
           /\ \A c \in Range(ps[i].cases) :
                /\ c.to \in NamesOf(ps) \cup {Ingress}
                /\ ps[i].select.kind = "none" => c.value = Default
  BY DEF IsProgram
<1> HIDE DEF ps
<1>2. Shaped(ps)
  BY <1>1, ShapedFrom DEF Range
<1>3. NamesOf(ps) \subseteq Plain
  BY <1>1 DEF NamesOf
<1>4. ASSUME NEW s \in NamesOf(ps)
      PROVE  /\ Named(ps, s) \in Range(ps) /\ Named(ps, s).select.header \in Plain
             /\ \A i \in DOMAIN Named(ps, s).extracts : Named(ps, s).extracts[i].header \in Plain \ {Visited}
  <2>1. PICK i \in DOMAIN ps : ps[i].name = s
    BY DEF NamesOf
  <2>2. Named(ps, s) = ps[i]
    BY <1>1, <2>1, NamedIs
  <2> QED
    BY <1>1, <2>2 DEF Range
<1> QED
  BY <1>2, <1>3, <1>4 DEF ps

(* What CloneParser and UpdateParserDAG make of a list of parsers.         *)
Copied(ps) ==
  [i \in 1..(2 * Len(ps)) |-> IF i % 2 = 1 THEN ps[(i + 1) \div 2] ELSE MakeCopy(ps[i \div 2])]
Doubled(ps) ==
  [i \in 1..(2 * Len(ps)) |-> IF Copied(ps)[i].name[2] = 1 THEN Copied(ps)[i] ELSE Redirected(Copied(ps)[i])]

LEMMA CloneFacts ==
  /\ \A s \in Plain : Clone(s) \in Name /\ Clone(s) \notin Plain /\ Clone(s)[2] = 1
                      /\ s \in Name /\ s[2] = 0 /\ s = <<s[1], 0>>
  /\ \A s, t \in Plain : Clone(s) = Clone(t) => s = t
  /\ Start \in Plain /\ Ingress \in Plain /\ Visited \in Plain /\ StartClone = Clone(Start)
  /\ Start # Ingress
<1>1. \A s \in Plain : \E b \in Identifiers : s = <<b, 0>>
  BY DEF Plain
<1>2. \A s \in Plain : Clone(s) \in Name /\ Clone(s) \notin Plain /\ Clone(s)[2] = 1
                       /\ s \in Name /\ s[2] = 0 /\ s = <<s[1], 0>>
  BY <1>1 DEF Clone, Name, Plain
<1>3. \A s, t \in Plain : Clone(s) = Clone(t) => s = t
  <2> TAKE s, t \in Plain
  <2>1. Clone(s) = Clone(t) => s[1] = t[1]
    BY DEF Clone
  <2> QED
    BY <1>2, <2>1
<1>4. /\ Start \in Plain /\ Ingress \in Plain /\ Visited \in Plain /\ StartClone = Clone(Start)
      /\ Start # Ingress
  BY ReportAssumption DEF Start, Ingress, Visited, StartClone, Clone, Plain
<1> QED
  BY <1>2, <1>3, <1>4

LEMMA CopyFacts ==
  ASSUME NEW p \in Parser
  PROVE  /\ MakeCopy(p) \in Parser /\ MakeCopy(p).name = Clone(p.name)
         /\ MakeCopy(p).select = SelectCopy(p.select)
         /\ Len(MakeCopy(p).extracts) = Len(p.extracts)
         /\ \A i \in 1..Len(p.extracts) :
              MakeCopy(p).extracts[i] = [header |-> Clone(p.extracts[i].header), next |-> p.extracts[i].next]
         /\ Len(MakeCopy(p).cases) = Len(p.cases)
         /\ \A i \in 1..Len(p.cases) :
              MakeCopy(p).cases[i] = [value |-> p.cases[i].value, to |-> CloneOf(p.cases[i].to)]
         /\ Redirected(p) \in Parser /\ Redirected(p).name = p.name
         /\ Redirected(p).extracts = p.extracts /\ Redirected(p).select = p.select
         /\ Len(Redirected(p).cases) = Len(p.cases)
         /\ \A i \in 1..Len(p.cases) :
              Redirected(p).cases[i] = [value |-> p.cases[i].value,
                                        to |-> IF p.cases[i].to = Ingress THEN StartClone ELSE p.cases[i].to]
<1>1. /\ p.name \in Name /\ p.select \in Select
      /\ p.extracts \in Seq(Extract) /\ p.cases \in Seq(Branch)
      /\ p = [name |-> p.name, extracts |-> p.extracts, select |-> p.select, cases |-> p.cases]
  BY DEF Parser, Name
<1>2. \A s \in Name : Clone(s) \in Name /\ CloneOf(s) \in Name
  BY CloneFacts DEF Clone, CloneOf, Name
<1>3. StartClone \in Name
  BY CloneFacts
<1>4. SelectCopy(p.select) \in Select
  <2>1. p.select.header \in Name /\ [p.select EXCEPT !.header = Clone(@)] \in Select
    BY <1>1, <1>2 DEF Select, Name
  <2> QED
    BY <1>1, <2>1 DEF SelectCopy
<1> DEFINE es == [i \in DOMAIN p.extracts |-> [p.extracts[i] EXCEPT !.header = Clone(@)]]
           cs == [i \in DOMAIN p.cases |-> [p.cases[i] EXCEPT !.to = CloneOf(@)]]
           rs == [i \in DOMAIN p.cases |-> IF p.cases[i].to = Ingress THEN [p.cases[i] EXCEPT !.to = StartClone]
                                           ELSE p.cases[i]]
<1>5. /\ Len(p.extracts) \in Nat /\ DOMAIN p.extracts = 1..Len(p.extracts)
      /\ Len(p.cases) \in Nat /\ DOMAIN p.cases = 1..Len(p.cases)
  BY <1>1
<1>6. \A i \in 1..Len(p.extracts) :
        /\ [p.extracts[i] EXCEPT !.header = Clone(@)] \in Extract
        /\ [p.extracts[i] EXCEPT !.header = Clone(@)]
             = [header |-> Clone(p.extracts[i].header), next |-> p.extracts[i].next]
  <2> TAKE i \in 1..Len(p.extracts)
  <2>1. p.extracts[i] \in Extract
    BY <1>1, <1>5
  <2> QED
    BY <1>2, <2>1 DEF Extract
<1>7. \A i \in 1..Len(p.cases) :
        LET c == p.cases[i]
        IN  /\ c \in Branch /\ c.to \in Name
            /\ [c EXCEPT !.to = CloneOf(@)] \in Branch
            /\ [c EXCEPT !.to = StartClone] \in Branch
            /\ [c EXCEPT !.to = CloneOf(@)] = [value |-> c.value, to |-> CloneOf(c.to)]
            /\ [c EXCEPT !.to = StartClone] = [value |-> c.value, to |-> StartClone]
            /\ c = [value |-> c.value, to |-> c.to]
  <2> TAKE i \in 1..Len(p.cases)
  <2> DEFINE c == p.cases[i]
  <2>1. c \in Branch
    BY <1>1, <1>5
  <2> HIDE DEF c
  <2>2. /\ c \in Branch /\ c.to \in Name
        /\ [c EXCEPT !.to = CloneOf(@)] \in Branch
        /\ [c EXCEPT !.to = StartClone] \in Branch
        /\ [c EXCEPT !.to = CloneOf(@)] = [value |-> c.value, to |-> CloneOf(c.to)]
        /\ [c EXCEPT !.to = StartClone] = [value |-> c.value, to |-> StartClone]
        /\ c = [value |-> c.value, to |-> c.to]
    BY <1>2, <1>3, <2>1 DEF Branch, Name
  <2> QED
    BY <2>2 DEF c
<1>8. es \in Seq(Extract) /\ Len(es) = Len(p.extracts)
      /\ \A i \in 1..Len(p.extracts) : es[i] = [header |-> Clone(p.extracts[i].header), next |-> p.extracts[i].next]
  <2>1. es \in [1..Len(p.extracts) -> Extract]
    BY <1>5, <1>6
  <2>2. \A i \in 1..Len(p.extracts) : es[i] = [header |-> Clone(p.extracts[i].header), next |-> p.extracts[i].next]
    BY <1>5, <1>6
  <2> HIDE DEF es
  <2> QED
    BY <1>5, <2>1, <2>2, SeqDef
<1>9. cs \in Seq(Branch) /\ Len(cs) = Len(p.cases)
      /\ \A i \in 1..Len(p.cases) : cs[i] = [value |-> p.cases[i].value, to |-> CloneOf(p.cases[i].to)]
  <2>1. cs \in [1..Len(p.cases) -> Branch]
    BY <1>5, <1>7
  <2>2. \A i \in 1..Len(p.cases) : cs[i] = [value |-> p.cases[i].value, to |-> CloneOf(p.cases[i].to)]
    BY <1>5, <1>7
  <2> HIDE DEF cs
  <2> QED
    BY <1>5, <2>1, <2>2, SeqDef
<1>10. rs \in Seq(Branch) /\ Len(rs) = Len(p.cases)
      /\ \A i \in 1..Len(p.cases) :
           rs[i] = [value |-> p.cases[i].value, to |-> IF p.cases[i].to = Ingress THEN StartClone ELSE p.cases[i].to]
  <2>1. rs \in [1..Len(p.cases) -> Branch]
    BY <1>5, <1>7
  <2>2. \A i \in 1..Len(p.cases) :
           rs[i] = [value |-> p.cases[i].value, to |-> IF p.cases[i].to = Ingress THEN StartClone ELSE p.cases[i].to]
    BY <1>5, <1>7
  <2> HIDE DEF rs
  <2> QED
    BY <1>5, <2>1, <2>2, SeqDef
<1>11. MakeCopy(p) = [name |-> Clone(p.name), extracts |-> es, select |-> SelectCopy(p.select), cases |-> cs]
  BY DEF MakeCopy
<1>12. Redirected(p) = [name |-> p.name, extracts |-> p.extracts, select |-> p.select, cases |-> rs]
  <2>1. \A x : [p EXCEPT !.cases = x] = [name |-> p.name, extracts |-> p.extracts, select |-> p.select, cases |-> x]
    BY DEF Parser
  <2>2. Redirected(p) = [p EXCEPT !.cases = rs]
    BY DEF Redirected
  <2> HIDE DEF rs
  <2> QED
    BY <2>1, <2>2
<1> HIDE DEF es, cs, rs
<1>13. MakeCopy(p) \in Parser /\ Redirected(p) \in Parser
  BY <1>1, <1>2, <1>4, <1>8, <1>9, <1>10, <1>11, <1>12 DEF Parser, Name
<1> QED
  BY <1>8, <1>9, <1>10, <1>11, <1>12, <1>13

LEMMA CopyCases ==
  ASSUME NEW p \in Parser, NEW i \in 1..Len(p.cases)
  PROVE  /\ MakeCopy(p).cases[i].value = p.cases[i].value
         /\ MakeCopy(p).cases[i].to = CloneOf(p.cases[i].to)
         /\ Redirected(p).cases[i].value = p.cases[i].value
         /\ Redirected(p).cases[i].to = IF p.cases[i].to = Ingress THEN StartClone ELSE p.cases[i].to
<1> DEFINE v == p.cases[i].value
           t == CloneOf(p.cases[i].to)
           r == IF p.cases[i].to = Ingress THEN StartClone ELSE p.cases[i].to
<1>1. MakeCopy(p).cases[i] = [value |-> v, to |-> t] /\ Redirected(p).cases[i] = [value |-> v, to |-> r]
  BY CopyFacts
<1> HIDE DEF v, t, r
<1>2. /\ MakeCopy(p).cases[i].value = v /\ MakeCopy(p).cases[i].to = t
      /\ Redirected(p).cases[i].value = v /\ Redirected(p).cases[i].to = r
  BY <1>1
<1> QED
  BY <1>2 DEF v, t, r

LEMMA SelectCopyKind == ASSUME NEW s \in Select PROVE SelectCopy(s).kind = s.kind
BY DEF SelectCopy, Select

LEMMA DoubledShaped ==
  ASSUME NEW p, IsProgram(p)
  PROVE  /\ Shaped(Doubled(p.parsers)) /\ Len(Doubled(p.parsers)) = 2 * Len(p.parsers)
         /\ NamesOf(Doubled(p.parsers)) = NamesOf(p.parsers) \cup {Clone(s) : s \in NamesOf(p.parsers)}
         /\ \A s \in NamesOf(p.parsers) :
              /\ Named(Doubled(p.parsers), s) = Redirected(Named(p.parsers, s))
              /\ Named(Doubled(p.parsers), Clone(s)) = MakeCopy(Named(p.parsers, s))
<1> DEFINE ps == p.parsers
           D == Doubled(ps)
           C == Copied(ps)
           L == Len(ps)
<1>1. /\ Shaped(ps) /\ NamesOf(ps) \subseteq Plain
      /\ \A i, j \in DOMAIN ps : ps[i].name = ps[j].name => i = j
  BY ProgramShaped DEF IsProgram
<1> HIDE DEF ps
<1>2. /\ L \in Nat /\ DOMAIN ps = 1..L /\ \A i \in 1..L : ps[i] \in Parser /\ ps[i].name \in NamesOf(ps)
  BY <1>1 DEF Shaped, NamesOf
<1>3. ASSUME NEW i \in 1..L
      PROVE  C[2 * i - 1] = ps[i] /\ C[2 * i] = MakeCopy(ps[i])
  <2>1. /\ 2 * i - 1 \in 1..(2 * L) /\ (2 * i - 1) % 2 = 1 /\ ((2 * i - 1) + 1) \div 2 = i
        /\ 2 * i \in 1..(2 * L) /\ (2 * i) % 2 # 1 /\ (2 * i) \div 2 = i
    BY <1>2
  <2> HIDE DEF L
  <2>2. \A j \in 1..(2 * L) : C[j] = IF j % 2 = 1 THEN ps[(j + 1) \div 2] ELSE MakeCopy(ps[j \div 2])
    BY DEF Copied, L
  <2> HIDE DEF C
  <2> QED
    BY <2>1, <2>2
<1>4. DOMAIN D = 1..(2 * L)
  BY DEF Doubled
<1>5. ASSUME NEW i \in 1..L
      PROVE  /\ 2 * i - 1 \in 1..(2 * L) /\ 2 * i \in 1..(2 * L)
             /\ D[2 * i - 1] = Redirected(ps[i]) /\ D[2 * i] = MakeCopy(ps[i])
             /\ D[2 * i - 1].name = ps[i].name /\ D[2 * i].name = Clone(ps[i].name)
             /\ D[2 * i - 1] \in Parser /\ D[2 * i] \in Parser
  <2>1. 2 * i - 1 \in 1..(2 * L) /\ 2 * i \in 1..(2 * L)
    BY <1>2
  <2>2. ps[i] \in Parser /\ ps[i].name \in Plain
    BY <1>1, <1>2
  <2>3. ps[i].name[2] # 1 /\ MakeCopy(ps[i]).name[2] = 1
    BY <2>2, CloneFacts, CopyFacts
  <2>4. \A j \in 1..(2 * L) : D[j] = IF C[j].name[2] = 1 THEN C[j] ELSE Redirected(C[j])
    BY DEF Doubled
  <2> HIDE DEF C, D
  <2>5. D[2 * i - 1] = Redirected(ps[i]) /\ D[2 * i] = MakeCopy(ps[i])
    BY <1>3, <2>1, <2>3, <2>4
  <2> QED
    BY <2>1, <2>2, <2>5, CopyFacts
<1> HIDE DEF C, D
<1>6. \A j \in 1..(2 * L) : \E i \in 1..L : j = 2 * i - 1 \/ j = 2 * i
  <2> TAKE j \in 1..(2 * L)
  <2>1. CASE j % 2 = 1
    <3>1. (j + 1) \div 2 \in 1..L /\ j = 2 * ((j + 1) \div 2) - 1
      BY <1>2, <2>1
    <3> QED
      BY <3>1
  <2>2. CASE j % 2 # 1
    <3>1. j \div 2 \in 1..L /\ j = 2 * (j \div 2)
      BY <1>2, <2>2
    <3> QED
      BY <3>1
  <2> QED
    BY <2>1, <2>2
<1> HIDE DEF L
<1>7. D \in Seq(Parser) /\ Len(D) = 2 * L
  <2>1. \A j \in 1..(2 * L) : D[j] \in Parser
    BY <1>5, <1>6
  <2>2. D \in [1..(2 * L) -> Parser] /\ 2 * L \in Nat
    <3>1. D = [j \in 1..(2 * L) |-> D[j]]
      BY DEF D, Doubled, L
    <3> QED
      BY <1>2, <2>1, <3>1
  <2> QED
    BY <2>2, SeqDef
<1>8. NamesOf(D) = NamesOf(ps) \cup {Clone(s) : s \in NamesOf(ps)}
  <2>1. ASSUME NEW s \in NamesOf(D) PROVE s \in NamesOf(ps) \cup {Clone(t) : t \in NamesOf(ps)}
    <3>1. PICK j \in 1..(2 * L) : s = D[j].name
      BY <1>4 DEF NamesOf
    <3> QED
      BY <1>2, <1>5, <1>6, <3>1
  <2>2. ASSUME NEW s \in NamesOf(ps) PROVE s \in NamesOf(D) /\ Clone(s) \in NamesOf(D)
    <3>1. PICK i \in 1..L : s = ps[i].name
      BY <1>2 DEF NamesOf
    <3> QED
      BY <1>4, <1>5, <3>1 DEF NamesOf
  <2> QED
    BY <2>1, <2>2
<1>9. \A i, j \in DOMAIN D : D[i].name = D[j].name => i = j
  <2> SUFFICES ASSUME NEW i \in 1..(2 * L), NEW j \in 1..(2 * L), D[i].name = D[j].name PROVE i = j
    BY <1>4
  <2>1. PICK k \in 1..L : i = 2 * k - 1 \/ i = 2 * k
    BY <1>6
  <2>2. PICK l \in 1..L : j = 2 * l - 1 \/ j = 2 * l
    BY <1>6
  <2>3. ps[k].name \in Plain /\ ps[l].name \in Plain
    BY <1>1, <1>2
  <2>4. /\ Clone(ps[k].name) # ps[l].name /\ Clone(ps[l].name) # ps[k].name
        /\ Clone(ps[k].name) = Clone(ps[l].name) => ps[k].name = ps[l].name
        /\ ps[k].name = ps[l].name => k = l
    BY <1>1, <1>2, <2>3, CloneFacts
  <2>5. k = l /\ (i = 2 * k - 1 <=> j = 2 * l - 1)
    <3>1. CASE i = 2 * k - 1 /\ j = 2 * l - 1
      BY <1>5, <2>4, <3>1
    <3>2. CASE i = 2 * k /\ j = 2 * l
      BY <1>5, <2>4, <3>2
    <3>3. CASE i = 2 * k - 1 /\ j = 2 * l
      BY <1>5, <2>4, <3>3
    <3>4. CASE i = 2 * k /\ j = 2 * l - 1
      BY <1>5, <2>4, <3>4
    <3> QED
      BY <2>1, <2>2, <3>1, <3>2, <3>3, <3>4
  <2> QED
    BY <2>1, <2>2, <2>5
<1>10. \A s \in NamesOf(ps) : Named(D, s) = Redirected(Named(ps, s)) /\ Named(D, Clone(s)) = MakeCopy(Named(ps, s))
  <2> TAKE s \in NamesOf(ps)
  <2>1. PICK i \in 1..L : s = ps[i].name
    BY <1>2 DEF NamesOf
  <2>2. Named(ps, s) = ps[i]
    BY <1>1, <1>2, <2>1, NamedIs
  <2>3. \A j \in DOMAIN D : Named(D, D[j].name) = D[j]
    BY <1>9, NamedIs
  <2> QED
    BY <1>4, <1>5, <2>1, <2>2, <2>3
<1>11. Start \in NamesOf(D) /\ Ingress \notin NamesOf(D)
  BY <1>1, <1>8, CloneFacts DEF Shaped
<1>12. ASSUME NEW j \in DOMAIN D
       PROVE  /\ D[j].cases # <<>>
              /\ \A c \in DOMAIN D[j].cases :
                   /\ D[j].cases[c].to \in NamesOf(D) \cup {Ingress}
                   /\ D[j].select.kind = "none" => D[j].cases[c].value = Default
  <2>1. PICK i \in 1..L : j = 2 * i - 1 \/ j = 2 * i
    BY <1>4, <1>6
  <2> DEFINE q == ps[i]
  <2>2. /\ q \in Parser /\ q.cases # <<>> /\ q.select \in Select /\ q.cases \in Seq(Branch)
        /\ \A c \in DOMAIN q.cases : /\ q.cases[c].to \in NamesOf(ps) \cup {Ingress}
                                     /\ q.select.kind = "none" => q.cases[c].value = Default
    <3>1. q.name \in NamesOf(ps) /\ Named(ps, q.name) = q /\ q \in Parser
      BY <1>1, <1>2, NamedIs
    <3> HIDE DEF q
    <3>2. q.select \in Select /\ q.cases \in Seq(Branch)
      BY <3>1 DEF Parser
    <3>3. \A s \in NamesOf(ps) : /\ Named(ps, s).cases # <<>>
                                  /\ \A c \in DOMAIN Named(ps, s).cases :
                                       /\ Named(ps, s).cases[c].to \in NamesOf(ps) \cup {Ingress}
                                       /\ Named(ps, s).select.kind = "none" => Named(ps, s).cases[c].value = Default
      BY <1>1 DEF Shaped
    <3> QED
      BY <3>1, <3>2, <3>3
  <2> HIDE DEF q
  <2>3. Len(q.cases) \in Nat /\ Len(q.cases) # 0 /\ DOMAIN q.cases = 1..Len(q.cases)
    BY <2>2, EmptySeq
  <2>4. Clone(Start) \in NamesOf(D) /\ \A s \in NamesOf(ps) : s \in NamesOf(D) /\ Clone(s) \in NamesOf(D)
    BY <1>1, <1>8 DEF Shaped
  <2>5. CASE D[j] = Redirected(q)
    <3>1. /\ Redirected(q).cases \in Seq(Branch) /\ Len(Redirected(q).cases) = Len(q.cases)
          /\ Redirected(q).select = q.select
          /\ \A c \in 1..Len(q.cases) :
               Redirected(q).cases[c] = [value |-> q.cases[c].value,
                                         to |-> IF q.cases[c].to = Ingress THEN StartClone ELSE q.cases[c].to]
      BY <2>2, CopyFacts DEF Parser
    <3>2. DOMAIN Redirected(q).cases = 1..Len(q.cases) /\ Redirected(q).cases # <<>>
      BY <2>3, <3>1, EmptySeq
    <3>3. ASSUME NEW c \in 1..Len(q.cases)
          PROVE  /\ Redirected(q).cases[c].to \in NamesOf(D) \cup {Ingress}
                 /\ q.select.kind = "none" => Redirected(q).cases[c].value = Default
      <4>1. /\ Redirected(q).cases[c].value = q.cases[c].value
            /\ Redirected(q).cases[c].to = IF q.cases[c].to = Ingress THEN StartClone ELSE q.cases[c].to
        BY <2>2, CopyCases
      <4>2. /\ q.cases[c].to \in NamesOf(ps) \cup {Ingress}
            /\ q.select.kind = "none" => q.cases[c].value = Default
        BY <2>2, <2>3
      <4> QED
        BY <2>4, <4>1, <4>2, CloneFacts
    <3> QED
      BY <2>3, <2>5, <3>1, <3>2, <3>3
  <2>6. CASE D[j] = MakeCopy(q)
    <3>1. /\ MakeCopy(q).cases \in Seq(Branch) /\ Len(MakeCopy(q).cases) = Len(q.cases)
          /\ MakeCopy(q).select.kind = q.select.kind
          /\ \A c \in 1..Len(q.cases) :
               MakeCopy(q).cases[c] = [value |-> q.cases[c].value, to |-> CloneOf(q.cases[c].to)]
      BY <2>2, CopyFacts, SelectCopyKind DEF Parser
    <3>2. DOMAIN MakeCopy(q).cases = 1..Len(q.cases) /\ MakeCopy(q).cases # <<>>
      BY <2>3, <3>1, EmptySeq
    <3>3. ASSUME NEW c \in 1..Len(q.cases)
          PROVE  /\ MakeCopy(q).cases[c].to \in NamesOf(D) \cup {Ingress}
                 /\ q.select.kind = "none" => MakeCopy(q).cases[c].value = Default
      <4>1. /\ MakeCopy(q).cases[c].value = q.cases[c].value
            /\ MakeCopy(q).cases[c].to = CloneOf(q.cases[c].to)
        BY <2>2, CopyCases
      <4>2. /\ q.cases[c].to \in NamesOf(ps) \cup {Ingress}
            /\ q.select.kind = "none" => q.cases[c].value = Default
        BY <2>2, <2>3
      <4> QED
        BY <2>4, <4>1, <4>2 DEF CloneOf
    <3> QED
      BY <2>3, <2>6, <3>1, <3>2, <3>3
  <2> QED
    BY <1>5, <2>1, <2>5, <2>6 DEF q
<1>13. Shaped(D)
  BY <1>7, <1>9, <1>11, <1>12, ShapedFrom
<1> QED
  BY <1>7, <1>8, <1>10, <1>13 DEF D, L, ps

-----------------------------------------------------------------------------
(* Programs that the JSON and its reader can express, state by state.      *)

TidyParser(insts, q) ==
  /\ q \in Parser /\ q.cases # <<>>
  /\ q.name = Start => q.extracts = <<>>
  /\ \A i \in 1..Len(q.cases) :
       /\ q.cases[i].value = Default <=> i = Len(q.cases)
       /\ q.cases[i].to = q.name => i = Len(q.cases)
       /\ q.cases[i].to # Start
  /\ \A i \in 1..Len(q.extracts) :
       /\ q.extracts[i].next = 0 /\ q.extracts[i].header # Visited
       /\ <<q.extracts[i].header[1], 0>> \in insts
  /\ q.select.kind = "latest" => q.extracts # <<>>
Tidy(p) ==
  \A s \in NamesOf(p.parsers) :
    /\ TidyParser(Instances(p), Named(p.parsers, s))
    /\ Selects(p.parsers, Named(p.parsers, s))

LEMMA SupportedIsTidy ==
  ASSUME prog \in Programs, Supported
  PROVE  Tidy(prog)
<1> DEFINE ps == prog.parsers
<1>1. IsProgram(prog)
  BY ReportAssumption
<1>2. /\ Shaped(ps) /\ NamesOf(ps) \subseteq Plain
      /\ \A s \in NamesOf(ps) :
           /\ Named(ps, s) \in Range(ps)
           /\ \A i \in DOMAIN Named(ps, s).extracts : Named(ps, s).extracts[i].header \in Plain \ {Visited}
  BY <1>1, ProgramShaped
<1>3. \A q \in Range(ps) :
        /\ q.name = Start => q.extracts = <<>>
        /\ \A i \in DOMAIN q.cases :
             /\ q.cases[i].value = Default <=> i = Len(q.cases)
             /\ q.cases[i].to = q.name => i = Len(q.cases)
             /\ q.cases[i].to # Start
        /\ \A e \in Range(q.extracts) : e.next = 0 /\ e.header \in Instances(prog)
        /\ Selects(ps, q)
  BY DEF Supported
<1> HIDE DEF ps
<1> SUFFICES ASSUME NEW s \in NamesOf(ps)
             PROVE  TidyParser(Instances(prog), Named(ps, s)) /\ Selects(ps, Named(ps, s))
  BY DEF Tidy, ps
<1> DEFINE q == Named(ps, s)
<1>4. q \in Range(ps) /\ q \in Parser /\ q.cases # <<>>
      /\ \A i \in DOMAIN q.extracts : q.extracts[i].header \in Plain \ {Visited}
  BY <1>2 DEF Shaped
<1> HIDE DEF q
<1>5. /\ q.extracts \in Seq(Extract) /\ q.cases \in Seq(Branch)
      /\ DOMAIN q.extracts = 1..Len(q.extracts) /\ DOMAIN q.cases = 1..Len(q.cases)
  BY <1>4 DEF Parser
<1>6. \A i \in 1..Len(q.extracts) :
        /\ q.extracts[i].next = 0 /\ q.extracts[i].header # Visited
        /\ <<q.extracts[i].header[1], 0>> \in Instances(prog)
  <2> TAKE i \in 1..Len(q.extracts)
  <2>1. q.extracts[i] \in Range(q.extracts)
    BY <1>5 DEF Range
  <2>2. q.extracts[i].next = 0 /\ q.extracts[i].header \in Instances(prog)
    BY <1>3, <1>4, <2>1
  <2>3. q.extracts[i].header \in Plain \ {Visited}
    BY <1>4, <1>5
  <2>4. <<q.extracts[i].header[1], 0>> = q.extracts[i].header
    BY <2>3, CloneFacts
  <2> QED
    BY <2>2, <2>3, <2>4
<1>7. Selects(ps, q) /\ (q.select.kind = "latest" => q.extracts # <<>>)
  BY <1>3, <1>4 DEF Selects
<1> QED
  BY <1>3, <1>4, <1>5, <1>6, <1>7 DEF TidyParser, q

LEMMA TidyCopies ==
  ASSUME NEW insts, NEW q, TidyParser(insts, q), q.name \in Plain, q.name # Ingress,
         \A i \in 1..Len(q.cases) : q.cases[i].to \in Plain,
         \A i \in 1..Len(q.extracts) : q.extracts[i].header \in Plain
  PROVE  TidyParser(insts, Redirected(q)) /\ TidyParser(insts, MakeCopy(q))
<1>1. /\ q \in Parser /\ q.cases # <<>> /\ q.extracts \in Seq(Extract) /\ q.cases \in Seq(Branch)
      /\ q.select \in Select
  BY DEF TidyParser, Parser
<1>2. Len(q.cases) # 0 /\ (Len(q.extracts) = 0 <=> q.extracts = <<>>)
  BY <1>1, EmptySeq
<1>3. Start \in Plain /\ StartClone = Clone(Start) /\ Clone(q.name) \notin Plain
      /\ StartClone \notin Plain /\ Ingress # Start /\ Ingress \in Plain /\ Visited \in Plain
  BY CloneFacts
<1>4. /\ Redirected(q) \in Parser /\ Redirected(q).name = q.name /\ Redirected(q).extracts = q.extracts
      /\ Redirected(q).select = q.select /\ Len(Redirected(q).cases) = Len(q.cases)
      /\ Redirected(q).cases # <<>>
  <2>1. Redirected(q).cases \in Seq(Branch) /\ Len(Redirected(q).cases) = Len(q.cases)
    BY <1>1, CopyFacts DEF Parser
  <2> QED
    BY <1>1, <1>2, <2>1, CopyFacts, EmptySeq
<1>5. \A i \in 1..Len(q.cases) :
        /\ Redirected(q).cases[i].value = Default <=> i = Len(q.cases)
        /\ Redirected(q).cases[i].to = q.name => i = Len(q.cases)
        /\ Redirected(q).cases[i].to # Start
  <2> TAKE i \in 1..Len(q.cases)
  <2>1. /\ Redirected(q).cases[i].value = q.cases[i].value
        /\ Redirected(q).cases[i].to = IF q.cases[i].to = Ingress THEN StartClone ELSE q.cases[i].to
    BY <1>1, CopyCases
  <2>2. /\ q.cases[i].value = Default <=> i = Len(q.cases)
        /\ q.cases[i].to = q.name => i = Len(q.cases)
        /\ q.cases[i].to # Start
    BY DEF TidyParser
  <2> QED
    BY <1>3, <2>1, <2>2
<1>6. TidyParser(insts, Redirected(q))
  BY <1>4, <1>5 DEF TidyParser
<1>7. /\ MakeCopy(q) \in Parser /\ MakeCopy(q).name = Clone(q.name)
      /\ MakeCopy(q).select.kind = q.select.kind
      /\ Len(MakeCopy(q).cases) = Len(q.cases) /\ MakeCopy(q).cases # <<>>
      /\ Len(MakeCopy(q).extracts) = Len(q.extracts)
      /\ MakeCopy(q).extracts = <<>> <=> q.extracts = <<>>
  <2>1. /\ MakeCopy(q).cases \in Seq(Branch) /\ Len(MakeCopy(q).cases) = Len(q.cases)
        /\ MakeCopy(q).extracts \in Seq(Extract) /\ Len(MakeCopy(q).extracts) = Len(q.extracts)
    BY <1>1, CopyFacts DEF Parser
  <2> QED
    BY <1>1, <1>2, <2>1, CopyFacts, SelectCopyKind, EmptySeq
<1>8. \A i \in 1..Len(q.cases) :
        /\ MakeCopy(q).cases[i].value = Default <=> i = Len(q.cases)
        /\ MakeCopy(q).cases[i].to = Clone(q.name) => i = Len(q.cases)
        /\ MakeCopy(q).cases[i].to # Start
  <2> TAKE i \in 1..Len(q.cases)
  <2>1. MakeCopy(q).cases[i].value = q.cases[i].value /\ MakeCopy(q).cases[i].to = CloneOf(q.cases[i].to)
    BY <1>1, CopyCases
  <2>2. /\ q.cases[i].value = Default <=> i = Len(q.cases)
        /\ q.cases[i].to = q.name => i = Len(q.cases)
        /\ q.cases[i].to \in Plain
    BY DEF TidyParser
  <2>3. Clone(q.cases[i].to) = Clone(q.name) => q.cases[i].to = q.name
    BY <2>2, CloneFacts
  <2>4. Clone(q.cases[i].to) # Start
    BY <1>3, <2>2, CloneFacts
  <2> QED
    BY <1>3, <2>1, <2>2, <2>3, <2>4 DEF CloneOf
<1>9. \A i \in 1..Len(q.extracts) :
        /\ MakeCopy(q).extracts[i].next = 0 /\ MakeCopy(q).extracts[i].header # Visited
        /\ <<MakeCopy(q).extracts[i].header[1], 0>> \in insts
  <2> TAKE i \in 1..Len(q.extracts)
  <2> DEFINE e == MakeCopy(q).extracts[i]
             h == q.extracts[i].header
  <2>1. e = [header |-> Clone(h), next |-> q.extracts[i].next]
    BY <1>1, CopyFacts
  <2>2. q.extracts[i].next = 0 /\ <<h[1], 0>> \in insts /\ h \in Plain
    BY DEF TidyParser
  <2> HIDE DEF e, h
  <2>3. e.next = 0 /\ e.header = Clone(h)
    BY <2>1, <2>2
  <2>4. Clone(h) # Visited /\ Clone(h)[1] = h[1]
    BY <1>3, <2>2, CloneFacts DEF Clone
  <2> QED
    BY <2>2, <2>3, <2>4 DEF e
<1>10. TidyParser(insts, MakeCopy(q))
  <2>1. Clone(q.name) # Start
    BY <1>3
  <2>2. q.select.kind = "latest" => q.extracts # <<>>
    BY DEF TidyParser
  <2> QED
    BY <1>7, <1>8, <1>9, <2>1, <2>2 DEF TidyParser
<1> QED
  BY <1>6, <1>10

LEMMA DoubledTidy ==
  ASSUME NEW p, IsProgram(p), Tidy(p), NEW t \in NamesOf(Doubled(p.parsers))
  PROVE  TidyParser(Instances(p), Named(Doubled(p.parsers), t)) /\ Named(Doubled(p.parsers), t).name = t
<1> DEFINE ps == p.parsers
           D == Doubled(ps)
<1>1. ASSUME NEW s \in NamesOf(ps)
      PROVE  /\ TidyParser(Instances(p), Named(D, s)) /\ TidyParser(Instances(p), Named(D, Clone(s)))
  <2> DEFINE q == Named(ps, s)
  <2>1. Named(D, s) = Redirected(q) /\ Named(D, Clone(s)) = MakeCopy(q)
    BY DoubledShaped
  <2>2. /\ Shaped(ps) /\ NamesOf(ps) \subseteq Plain
        /\ \A i \in DOMAIN q.extracts : q.extracts[i].header \in Plain
    BY ProgramShaped
  <2>3. TidyParser(Instances(p), q)
    BY DEF Tidy
  <2> HIDE DEF D, ps
  <2>4. /\ q \in Parser /\ q.name = s /\ s # Ingress /\ s \in Plain
        /\ \A i \in DOMAIN q.cases : q.cases[i].to \in NamesOf(ps) \cup {Ingress}
    BY <2>2 DEF Shaped
  <2> HIDE DEF q
  <2>5. DOMAIN q.cases = 1..Len(q.cases) /\ DOMAIN q.extracts = 1..Len(q.extracts)
    <3>1. q.cases \in Seq(Branch) /\ q.extracts \in Seq(Extract)
      BY <2>4 DEF Parser
    <3> QED
      BY <3>1
  <2>6. \A i \in 1..Len(q.cases) : q.cases[i].to \in Plain
    BY <2>2, <2>4, <2>5, CloneFacts
  <2> QED
    BY <2>1, <2>2, <2>3, <2>4, <2>5, <2>6, TidyCopies
<1>2. NamesOf(D) = NamesOf(ps) \cup {Clone(s) : s \in NamesOf(ps)} /\ Shaped(D)
  BY DoubledShaped
<1> HIDE DEF D
<1>3. Named(D, t).name = t
  BY <1>2 DEF Shaped, D
<1> QED
  BY <1>1, <1>2, <1>3 DEF D

-----------------------------------------------------------------------------
(* The runs of a switch.                                                   *)

LEMMA MinIs ==
  ASSUME NEW S \in SUBSET Nat, S # {}
  PROVE  Min(S) \in S /\ \A y \in S : Min(S) =< y
BY LeastNatural DEF Min

LEMMA MaxIs ==
  ASSUME NEW n \in Nat, NEW S \in SUBSET (0..n), S # {}
  PROVE  Max(S) \in S /\ \A y \in S : y =< Max(S)
<1>1. \E x \in S : \A y \in S : y =< x
  BY GreatestNatural
<1>2. \A x, y \in S : x >= y <=> y =< x
  OBVIOUS
<1> QED
  BY <1>1, <1>2 DEF Max

Extraction == [key : Name \X {0, 1}, word : Nat]
IsAt(ps, words, a) ==
  /\ a = [state |-> a.state, headers |-> a.headers]
  /\ a.state \in NamesOf(ps) \cup {Ingress, Dropped}
  /\ a.headers \in Seq(Extraction) /\ Len(a.headers) =< Len(words)
  /\ \A i \in 1..Len(a.headers) : a.headers[i].word = words[i]

LEMMA ExtractedFacts ==
  ASSUME NEW es \in Seq(Extract), NEW words \in Seq(Nat), NEW hs \in Seq(Extraction),
         Len(hs) + Len(es) =< Len(words)
  PROVE  LET all == P4Extracted(es, words, hs)
         IN  /\ all \in Seq(Extraction) /\ Len(all) = Len(hs) + Len(es)
             /\ \A i \in 1..Len(hs) : all[i] = hs[i]
             /\ \A i \in 1..Len(es) : all[Len(hs) + i] = [key |-> Key(es[i]), word |-> words[Len(hs) + i]]
<1> DEFINE l == Len(es)
           m == Len(hs)
           gs == [i \in 1..l |-> [key |-> Key(es[i]), word |-> words[m + i]]]
<1>1. l \in Nat /\ m \in Nat /\ DOMAIN es = 1..l
  OBVIOUS
<1>2. \A i \in 1..l : [key |-> Key(es[i]), word |-> words[m + i]] \in Extraction
  <2> TAKE i \in 1..l
  <2>1. es[i] \in Extract
    BY <1>1
  <2>2. es[i].header \in Name /\ es[i].next \in {0, 1}
    BY <2>1 DEF Extract
  <2>3. Key(es[i]) \in Name \X {0, 1}
    BY <2>2 DEF Key
  <2>4. words[m + i] \in Nat
    BY <1>1
  <2> QED
    BY <2>3, <2>4 DEF Extraction
<1>3. gs \in [1..l -> Extraction] /\ \A i \in 1..l : gs[i] = [key |-> Key(es[i]), word |-> words[m + i]]
  BY <1>2
<1>4. P4Extracted(es, words, hs) = hs \o gs
  BY <1>1 DEF P4Extracted
<1> HIDE DEF l, gs
<1>5. gs \in Seq(Extraction) /\ Len(gs) = l
  BY <1>1, <1>3, SeqDef
<1> DEFINE all == hs \o gs
<1>6. all \in Seq(Extraction) /\ Len(all) = m + l
  BY <1>5, ConcatProperties
<1>7. \A i \in 1..m : all[i] = hs[i]
  BY <1>1, <1>5, ConcatProperties
<1>8. \A i \in 1..l : all[m + i] = gs[i]
  BY <1>1, <1>5, ConcatProperties
<1> HIDE DEF all, m
<1> QED
  BY <1>3, <1>4, <1>6, <1>7, <1>8 DEF all, m, l

LEMMA ExtractsTyped ==
  ASSUME NEW p \in Parser
  PROVE  P4Extracts(p) \in Seq(Extract) /\ Extracts(p) \in Seq(Extract)
<1>1. p.extracts \in Seq(Extract)
  BY DEF Parser
<1>2. [header |-> Visited, next |-> 0] \in Extract
  BY CloneFacts DEF Extract
<1> DEFINE v == [header |-> Visited, next |-> 0]
<1> HIDE DEF v
<1>3. <<v>> \in Seq(Extract) /\ <<>> \in Seq(Extract)
  BY <1>2 DEF v
<1>4. <<v>> \o p.extracts \in Seq(Extract) /\ <<>> \o p.extracts \in Seq(Extract)
      /\ p.extracts \o <<v>> \in Seq(Extract) /\ p.extracts \o <<>> \in Seq(Extract)
  BY <1>1, <1>3
<1> QED
  BY <1>4 DEF P4Extracts, Extracts, v

LEMMA StepFacts ==
  ASSUME NEW ps, Shaped(ps), NEW words \in Seq(Nat), NEW a, IsAt(ps, words, a)
  PROVE  LET b == P4Step(ps, words, a)
         IN  /\ IsAt(ps, words, b)
             /\ a.state \in {Ingress, Dropped} => b = a
             /\ Len(a.headers) =< Len(b.headers)
             /\ \A i \in 1..Len(a.headers) : b.headers[i] = a.headers[i]
<1> DEFINE b == P4Step(ps, words, a)
           p == Named(ps, a.state)
           es == P4Extracts(p)
           all == P4Extracted(es, words, a.headers)
           cases == P4Cases(p, words, all)
           n == Len(a.headers) + Len(es) + (IF P4LooksAhead(p) THEN 1 ELSE 0)
<1>1. b = IF a.state \in {Ingress, Dropped} THEN a
          ELSE IF n > Len(words) THEN [a EXCEPT !.state = Dropped]
          ELSE IF cases = {} THEN [a EXCEPT !.state = Dropped]
          ELSE [state |-> p.cases[Min(cases)].to, headers |-> all]
  BY DEF P4Step
<1>2. /\ a = [state |-> a.state, headers |-> a.headers]
      /\ a.headers \in Seq(Extraction) /\ Len(a.headers) \in Nat /\ Len(a.headers) =< Len(words)
      /\ \A i \in 1..Len(a.headers) : a.headers[i].word = words[i]
  BY DEF IsAt
<1>3. [a EXCEPT !.state = Dropped] = [state |-> Dropped, headers |-> a.headers]
  BY <1>2
<1>4. CASE a.state \in {Ingress, Dropped}
  BY <1>1, <1>2, <1>4
<1>5. CASE b = [state |-> Dropped, headers |-> a.headers] /\ a.state \notin {Ingress, Dropped}
  BY <1>2, <1>5 DEF IsAt
<1>6. CASE /\ a.state \notin {Ingress, Dropped} /\ ~(n > Len(words)) /\ cases # {}
           /\ b = [state |-> p.cases[Min(cases)].to, headers |-> all]
  <2>1. a.state \in NamesOf(ps)
    BY <1>6 DEF IsAt
  <2>2. /\ p \in Parser /\ \A i \in DOMAIN p.cases : p.cases[i].to \in NamesOf(ps) \cup {Ingress}
    BY <2>1 DEF Shaped
  <2> HIDE DEF p
  <2>3. p.cases \in Seq(Branch) /\ DOMAIN p.cases = 1..Len(p.cases) /\ Len(p.cases) \in Nat
    BY <2>2 DEF Parser
  <2>4. cases \in SUBSET (1..Len(p.cases))
    BY <2>3 DEF P4Cases
  <2>5. es \in Seq(Extract) /\ Len(es) \in Nat
    BY <2>2, ExtractsTyped
  <2> HIDE DEF cases, es
  <2>6. Min(cases) \in 1..Len(p.cases)
    <3>1. cases \in SUBSET Nat /\ cases # {}
      BY <1>6, <2>3, <2>4
    <3>2. Min(cases) \in cases
      BY <3>1, MinIs
    <3> QED
      BY <2>4, <3>2
  <2>7. Len(a.headers) + Len(es) =< Len(words)
    <3>1. (IF P4LooksAhead(p) THEN 1 ELSE 0) \in {0, 1}
      OBVIOUS
    <3> DEFINE x == IF P4LooksAhead(p) THEN 1 ELSE 0
    <3> HIDE DEF x
    <3> QED
      BY <1>2, <1>6, <2>5, <3>1 DEF x
  <2>8. /\ all \in Seq(Extraction) /\ Len(all) = Len(a.headers) + Len(es)
        /\ \A i \in 1..Len(a.headers) : all[i] = a.headers[i]
        /\ \A i \in 1..Len(es) : all[Len(a.headers) + i]
                                   = [key |-> Key(es[i]), word |-> words[Len(a.headers) + i]]
    BY <1>2, <2>5, <2>7, ExtractedFacts
  <2> HIDE DEF all
  <2>9. \A i \in 1..Len(all) : all[i].word = words[i]
    <3> TAKE i \in 1..Len(all)
    <3>1. CASE i \in 1..Len(a.headers)
      BY <1>2, <2>8, <3>1
    <3>2. CASE i \notin 1..Len(a.headers)
      <4>1. i - Len(a.headers) \in 1..Len(es) /\ i = Len(a.headers) + (i - Len(a.headers))
        BY <1>2, <2>5, <2>8, <3>2
      <4> DEFINE j == i - Len(a.headers)
      <4> HIDE DEF j
      <4>2. all[i] = [key |-> Key(es[j]), word |-> words[i]]
        BY <2>8, <4>1 DEF j
      <4> QED
        BY <4>2
    <3> QED
      BY <3>1, <3>2
  <2>10. b.state \in NamesOf(ps) \cup {Ingress} /\ b.headers = all
    BY <1>6, <2>2, <2>3, <2>6
  <2>11. b = [state |-> b.state, headers |-> b.headers]
    BY <1>6
  <2> HIDE DEF b
  <2>12. IsAt(ps, words, b)
    BY <1>2, <2>5, <2>7, <2>8, <2>9, <2>10, <2>11 DEF IsAt
  <2> QED
    BY <1>2, <1>6, <2>5, <2>8, <2>10, <2>12 DEF b
<1> HIDE DEF b, n, cases, all, p
<1> QED
  BY <1>1, <1>3, <1>4, <1>5, <1>6 DEF b

First == [state |-> Start, headers |-> <<>>]
IsRun(ps, words, c, k) ==
  c = [i \in 0..k |-> IF i = 0 THEN [state |-> Start, headers |-> <<>>] ELSE P4Step(ps, words, c[i - 1])]
Final(a) == a.state \in {Ingress, Dropped}

LEMMA RunIs ==
  ASSUME NEW ps, NEW words, NEW c, NEW k \in Nat, IsRun(ps, words, c, k)
  PROVE  /\ DOMAIN c = 0..k /\ c[0] = First
         /\ \A i \in 1..k : c[i] = P4Step(ps, words, c[i - 1])
<1>1. /\ DOMAIN c = 0..k
      /\ \A i \in 0..k : c[i] = IF i = 0 THEN First ELSE P4Step(ps, words, c[i - 1])
  BY DEF IsRun, First
<1> QED
  BY <1>1

LEMMA RunFrom ==
  ASSUME NEW ps, NEW words, NEW c, NEW k \in Nat, c = [i \in 0..k |-> c[i]], c[0] = First,
         \A i \in 1..k : c[i] = P4Step(ps, words, c[i - 1])
  PROVE  IsRun(ps, words, c, k)
<1>1. \A i \in 0..k : c[i] = IF i = 0 THEN First ELSE P4Step(ps, words, c[i - 1])
  BY \A i \in 0..k : i = 0 \/ i \in 1..k
<1>2. c = [i \in 0..k |-> IF i = 0 THEN First ELSE P4Step(ps, words, c[i - 1])]
  BY <1>1
<1> QED
  BY <1>2 DEF IsRun, First

(* One more step of a run.                                                 *)
Longer(ps, words, c, k) ==
  [i \in 0..(k + 1) |-> IF i = k + 1 THEN P4Step(ps, words, c[k]) ELSE c[i]]

LEMMA RunLonger ==
  ASSUME NEW ps, NEW words, NEW c, NEW k \in Nat, IsRun(ps, words, c, k)
  PROVE  /\ IsRun(ps, words, Longer(ps, words, c, k), k + 1)
         /\ Longer(ps, words, c, k)[k + 1] = P4Step(ps, words, c[k])
<1> DEFINE d == Longer(ps, words, c, k)
<1>1. /\ d = [i \in 0..(k + 1) |-> d[i]] /\ d[k + 1] = P4Step(ps, words, c[k])
      /\ \A i \in 0..k : d[i] = c[i]
  BY DEF Longer
<1> HIDE DEF d
<1>0. c[0] = First /\ \A i \in 1..k : c[i] = P4Step(ps, words, c[i - 1])
  BY RunIs
<1>2. d[0] = First /\ k + 1 \in Nat /\ 0 \in 0..k
  BY <1>0, <1>1
<1>3. \A i \in 1..(k + 1) : d[i] = P4Step(ps, words, d[i - 1])
  <2> TAKE i \in 1..(k + 1)
  <2>1. CASE i = k + 1
    <3>1. i - 1 = k /\ k \in 0..k
      BY <2>1
    <3>2. d[i - 1] = c[k]
      BY <1>1, <3>1
    <3> QED
      BY <1>1, <2>1, <3>2
  <2>2. CASE i # k + 1
    <3>1. i \in 1..k /\ i \in 0..k /\ i - 1 \in 0..k
      BY <2>2
    <3>2. d[i] = c[i] /\ d[i - 1] = c[i - 1]
      BY <1>1, <3>1
    <3> QED
      BY <1>0, <3>1, <3>2
  <2> QED
    BY <2>1, <2>2
<1> QED
  BY <1>1, <1>2, <1>3, RunFrom DEF d

LEMMA RunStarts ==
  ASSUME NEW ps, NEW words
  PROVE  \E c : IsRun(ps, words, c, 0) /\ c[0] = First
<1> DEFINE c == [i \in 0..0 |-> First]
<1>1. c = [i \in 0..0 |-> c[i]] /\ c[0] = First /\ \A i \in 1..0 : c[i] = P4Step(ps, words, c[i - 1])
  OBVIOUS
<1> HIDE DEF c
<1>2. IsRun(ps, words, c, 0)
  BY <1>1, RunFrom
<1> QED
  BY <1>1, <1>2

LEMMA RunExists ==
  ASSUME NEW ps, NEW words, NEW k \in Nat
  PROVE  \E c : IsRun(ps, words, c, k)
<1> DEFINE S == {n \in 0..k : \E c : IsRun(ps, words, c, n)}
<1>1. 0 \in S
  BY RunStarts
<1>2. ASSUME NEW n \in 1..k, n - 1 \in S PROVE n \in S
  <2>1. PICK c : IsRun(ps, words, c, n - 1)
    BY <1>2
  <2>2. n - 1 \in Nat /\ (n - 1) + 1 = n
    OBVIOUS
  <2>3. IsRun(ps, words, Longer(ps, words, c, n - 1), (n - 1) + 1)
    BY <2>1, <2>2, RunLonger
  <2> QED
    BY <2>2, <2>3
<1> HIDE DEF S
<1>3. 0..k \subseteq S
  BY <1>1, <1>2, InductionUpTo
<1> QED
  BY <1>3, k \in 0..k DEF S

LEMMA RunUnique ==
  ASSUME NEW ps, NEW words, NEW c, NEW d, NEW k \in Nat, NEW l \in Nat,
         IsRun(ps, words, c, k), IsRun(ps, words, d, l), k =< l
  PROVE  \A i \in 0..k : c[i] = d[i]
<1> DEFINE S == {i \in 0..k : c[i] = d[i]}
<1>1. 0 \in S
  BY RunIs
<1>2. ASSUME NEW i \in 1..k, i - 1 \in S PROVE i \in S
  <2>1. i \in 1..l /\ i \in 0..k /\ c[i - 1] = d[i - 1]
    BY <1>2
  <2>2. c[i] = P4Step(ps, words, c[i - 1]) /\ d[i] = P4Step(ps, words, d[i - 1])
    BY <2>1, RunIs
  <2> QED
    BY <2>1, <2>2
<1> HIDE DEF S
<1>3. 0..k \subseteq S
  BY <1>1, <1>2, InductionUpTo
<1> QED
  BY <1>3 DEF S

LEMMA RunTyped ==
  ASSUME NEW ps, Shaped(ps), NEW words \in Seq(Nat), NEW c, NEW k \in Nat, IsRun(ps, words, c, k)
  PROVE  \A i \in 0..k : IsAt(ps, words, c[i])
<1> DEFINE S == {i \in 0..k : IsAt(ps, words, c[i])}
<1>1. IsAt(ps, words, First)
  BY DEF IsAt, First, Shaped
<1>2. 0 \in S
  BY <1>1, RunIs
<1>3. ASSUME NEW i \in 1..k, i - 1 \in S PROVE i \in S
  <2>1. IsAt(ps, words, c[i - 1]) /\ c[i] = P4Step(ps, words, c[i - 1])
    BY <1>3, RunIs
  <2> QED
    BY <2>1, StepFacts
<1> HIDE DEF S
<1>4. 0..k \subseteq S
  BY <1>2, <1>3, InductionUpTo
<1> QED
  BY <1>4 DEF S

(* What a run has read stays read, and a switch that is done stays done.   *)
LEMMA RunGrows ==
  ASSUME NEW ps, Shaped(ps), NEW words \in Seq(Nat), NEW c, NEW k \in Nat, IsRun(ps, words, c, k),
         NEW i \in 0..k, NEW j \in i..k
  PROVE  /\ Len(c[i].headers) =< Len(c[j].headers)
         /\ \A n \in 1..Len(c[i].headers) : c[j].headers[n] = c[i].headers[n]
         /\ Final(c[i]) => c[j] = c[i]
<1> DEFINE Grown(m) == /\ Len(c[i].headers) =< Len(c[i + m].headers)
                       /\ \A n \in 1..Len(c[i].headers) : c[i + m].headers[n] = c[i].headers[n]
                       /\ Final(c[i]) => c[i + m] = c[i]
           S == {m \in 0..(k - i) : Grown(m)}
<1>0. \A m \in 0..k : IsAt(ps, words, c[m])
  BY RunTyped
<1>1. \A m \in 0..k : c[m].headers \in Seq(Extraction) /\ Len(c[m].headers) \in Nat
  <2> TAKE m \in 0..k
  <2>1. c[m].headers \in Seq(Extraction)
    BY <1>0 DEF IsAt
  <2> QED
    BY <2>1
<1>2. 0 \in S
  <2>1. i + 0 = i
    OBVIOUS
  <2>2. Grown(0)
    BY <1>1, <2>1
  <2> QED
    BY <2>2
<1>3. ASSUME NEW m \in 1..(k - i), m - 1 \in S PROVE m \in S
  <2>1. i + m \in 1..k /\ i + m \in 0..k /\ (i + m) - 1 = i + (m - 1) /\ i + (m - 1) \in 0..k
    OBVIOUS
  <2> DEFINE a == c[i + (m - 1)]
             b == c[i + m]
  <2>2. b = P4Step(ps, words, a) /\ IsAt(ps, words, a)
    BY <2>1, RunIs, RunTyped
  <2>3. /\ Final(a) => b = a
        /\ Len(a.headers) =< Len(b.headers)
        /\ \A n \in 1..Len(a.headers) : b.headers[n] = a.headers[n]
    BY <2>2, StepFacts DEF Final
  <2>4. Grown(m - 1)
    BY <1>3
  <2>5. /\ Len(c[i].headers) =< Len(a.headers)
        /\ \A n \in 1..Len(c[i].headers) : a.headers[n] = c[i].headers[n]
        /\ Final(c[i]) => a = c[i]
    BY <2>4
  <2>6. Len(c[i].headers) \in Nat /\ Len(a.headers) \in Nat /\ Len(b.headers) \in Nat
    BY <1>1, <2>1
  <2> HIDE DEF a, b
  <2>7. /\ Len(c[i].headers) =< Len(b.headers)
        /\ \A n \in 1..Len(c[i].headers) : b.headers[n] = c[i].headers[n]
        /\ Final(c[i]) => b = c[i]
    BY <2>3, <2>5, <2>6
  <2> QED
    BY <2>7 DEF b
<1> HIDE DEF S
<1>4. k - i \in Nat
  OBVIOUS
<1>5. 0..(k - i) \subseteq S
  BY <1>2, <1>3, <1>4, InductionUpTo
<1>6. j - i \in 0..(k - i) /\ i + (j - i) = j
  OBVIOUS
<1>7. Grown(j - i)
  BY <1>5, <1>6 DEF S
<1> QED
  BY <1>6, <1>7

(* A switch in the same place twice goes round in circles: a run that ends *)
(* does so within as many rounds as there are states and words to be at.   *)
LEMMA RunRepeats ==
  ASSUME NEW ps, NEW words, NEW c, NEW k \in Nat, IsRun(ps, words, c, k),
         NEW i \in 0..k, NEW j \in i..k, c[i] = c[j]
  PROVE  \A m \in 0..(k - j) : c[i + m] = c[j + m]
<1> DEFINE S == {m \in 0..(k - j) : c[i + m] = c[j + m]}
<1>0. k - j \in Nat /\ i + 0 = i /\ j + 0 = j
  OBVIOUS
<1>1. 0 \in S
  BY <1>0
<1>2. ASSUME NEW m \in 1..(k - j), m - 1 \in S PROVE m \in S
  <2>1. /\ i + m \in 1..k /\ j + m \in 1..k
        /\ (i + m) - 1 = i + (m - 1) /\ (j + m) - 1 = j + (m - 1)
    OBVIOUS
  <2>2. \A n \in 1..k : c[n] = P4Step(ps, words, c[n - 1])
    BY RunIs
  <2>3. c[i + m] = P4Step(ps, words, c[i + (m - 1)]) /\ c[j + m] = P4Step(ps, words, c[j + (m - 1)])
    BY <2>1, <2>2
  <2> QED
    BY <1>2, <2>3
<1> HIDE DEF S
<1>3. 0..(k - j) \subseteq S
  BY <1>0, <1>1, <1>2, InductionUpTo
<1> QED
  BY <1>3 DEF S

LEMMA SameWords ==
  ASSUME NEW hs \in Seq(Extraction), NEW gs \in Seq(Extraction), Len(hs) = Len(gs),
         \A n \in 1..Len(hs) : hs[n] = gs[n]
  PROVE  hs = gs
BY SeqDef

LEMMA NamesFinite ==
  ASSUME NEW ps, Shaped(ps)
  PROVE  IsFiniteSet(NamesOf(ps)) /\ Cardinality(NamesOf(ps)) =< Len(ps) /\ Cardinality(NamesOf(ps)) \in Nat
<1> DEFINE f == [i \in 1..Len(ps) |-> ps[i].name]
<1>1. Len(ps) \in Nat /\ DOMAIN ps = 1..Len(ps)
  BY DEF Shaped
<1>2. f \in Surjection(1..Len(ps), NamesOf(ps))
  BY <1>1 DEF Surjection, NamesOf
<1>3. IsFiniteSet(1..Len(ps)) /\ Cardinality(1..Len(ps)) = Len(ps)
  <2>1. 1 \in Int /\ Len(ps) \in Int
    BY <1>1
  <2>2. IsFiniteSet(1..Len(ps)) /\ Cardinality(1..Len(ps)) = IF 1 > Len(ps) THEN 0 ELSE Len(ps) - 1 + 1
    BY <2>1, FS_Interval
  <2> QED
    BY <1>1, <2>2
<1> HIDE DEF f
<1>4. IsFiniteSet(NamesOf(ps)) /\ Cardinality(NamesOf(ps)) =< Len(ps)
  BY <1>2, <1>3, FS_Surjection
<1> QED
  BY <1>4, FS_CardinalityType

LEMMA RunsShort ==
  ASSUME NEW ps, Shaped(ps), NEW words \in Seq(Nat), NEW c, NEW k \in Nat, IsRun(ps, words, c, k),
         NEW n \in 0..k, Final(c[n]), \A i \in 0..(n - 1) : ~Final(c[i])
  PROVE  n =< Len(ps) * (Len(words) + 1)
<1> DEFINE W == Len(words)
           L == Len(ps)
           Places == NamesOf(ps) \X (0..W)
           f == [i \in 0..(n - 1) |-> <<c[i].state, Len(c[i].headers)>>]
<1>1. W \in Nat /\ L \in Nat
  BY DEF Shaped
<1>2. \A i \in 0..k : IsAt(ps, words, c[i])
  BY RunTyped
<1>3. \A i \in 0..(n - 1) :
        /\ c[i].state \in NamesOf(ps) /\ Len(c[i].headers) \in 0..W
        /\ c[i] = [state |-> c[i].state, headers |-> c[i].headers]
        /\ c[i].headers \in Seq(Extraction)
  <2> TAKE i \in 0..(n - 1)
  <2>1. i \in 0..k
    OBVIOUS
  <2> DEFINE a == c[i]
  <2>2. IsAt(ps, words, a) /\ ~Final(a)
    BY <1>2, <2>1
  <2> HIDE DEF a
  <2>3. /\ a.state \in NamesOf(ps) /\ a = [state |-> a.state, headers |-> a.headers]
        /\ a.headers \in Seq(Extraction) /\ Len(a.headers) =< Len(words)
    BY <2>2 DEF IsAt, Final
  <2>4. Len(a.headers) \in 0..W
    BY <1>1, <2>3
  <2> QED
    BY <2>3, <2>4 DEF a
<1>4. \A i \in 0..(n - 1) : \A j \in 0..(n - 1) : i < j => f[i] # f[j]
  <2> SUFFICES ASSUME NEW i \in 0..(n - 1), NEW j \in 0..(n - 1), i < j, f[i] = f[j] PROVE FALSE
    OBVIOUS
  <2>1. i \in 0..k /\ j \in i..k
    OBVIOUS
  <2>2. c[i].state = c[j].state /\ Len(c[i].headers) = Len(c[j].headers)
    OBVIOUS
  <2> HIDE DEF f
  <2>3. \A m \in 1..Len(c[i].headers) : c[j].headers[m] = c[i].headers[m]
    BY <2>1, RunGrows
  <2>4. c[i].headers = c[j].headers
    <3> DEFINE hs == c[i].headers
               gs == c[j].headers
    <3>1. hs \in Seq(Extraction) /\ gs \in Seq(Extraction) /\ Len(hs) = Len(gs)
          /\ \A m \in 1..Len(hs) : hs[m] = gs[m]
      BY <1>3, <2>2, <2>3
    <3> HIDE DEF hs, gs
    <3>2. hs = gs
      BY <3>1, SameWords
    <3> QED
      BY <3>2 DEF hs, gs
  <2>5. c[i] = c[j]
    BY <1>3, <2>2, <2>4
  <2>6. n - j \in 0..(k - j) /\ j + (n - j) = n /\ i + (n - j) \in 0..(n - 1)
    OBVIOUS
  <2>7. \A m \in 0..(k - j) : c[i + m] = c[j + m]
    BY <2>1, <2>5, RunRepeats
  <2>8. c[i + (n - j)] = c[n]
    BY <2>6, <2>7
  <2> QED
    BY <2>6, <2>8
<1>5. f \in Injection(0..(n - 1), Places)
  <2>1. f \in [0..(n - 1) -> Places]
    BY <1>3
  <2> HIDE DEF f, Places
  <2>2. \A i, j \in 0..(n - 1) : f[i] = f[j] => i = j
    <3> TAKE i, j \in 0..(n - 1)
    <3>1. i < j \/ j < i \/ i = j
      OBVIOUS
    <3> QED
      BY <1>4, <3>1
  <2> QED
    BY <2>1, <2>2 DEF Injection, IsInjective
<1> HIDE DEF f
<1>6. IsFiniteSet(0..W) /\ Cardinality(0..W) = W + 1
  <2>1. 0 \in Int /\ W \in Int
    BY <1>1
  <2> HIDE DEF W
  <2>2. IsFiniteSet(0..W) /\ Cardinality(0..W) = IF 0 > W THEN 0 ELSE W - 0 + 1
    BY <2>1, FS_Interval
  <2> QED
    BY <1>1, <2>2
<1>7. IsFiniteSet(Places) /\ Cardinality(Places) = Cardinality(NamesOf(ps)) * (W + 1)
  <2>1. IsFiniteSet(NamesOf(ps))
    BY NamesFinite
  <2> HIDE DEF W
  <2> QED
    BY <1>6, <2>1, FS_Product
<1> HIDE DEF Places
<1>8. Cardinality(0..(n - 1)) = n
  <2>1. 0 \in Int /\ n - 1 \in Int
    OBVIOUS
  <2>2. Cardinality(0..(n - 1)) = IF 0 > n - 1 THEN 0 ELSE (n - 1) - 0 + 1
    BY <2>1, FS_Interval
  <2> QED
    BY <2>2
<1>9. Cardinality(0..(n - 1)) =< Cardinality(Places)
  BY <1>5, <1>7, FS_Injection
<1>10. Cardinality(NamesOf(ps)) * (W + 1) =< L * (W + 1)
  <2> DEFINE N == Cardinality(NamesOf(ps))
  <2>1. N \in Nat /\ N =< L
    BY NamesFinite
  <2> HIDE DEF N, W, L
  <2>2. \A x, y, z \in Nat : x =< y => x * z =< y * z
    OBVIOUS
  <2>3. W + 1 \in Nat
    BY <1>1
  <2> QED
    BY <1>1, <2>1, <2>2, <2>3 DEF N
<1> DEFINE N == Cardinality(NamesOf(ps)) * (W + 1)
           M == L * (W + 1)
<1>11. n =< N /\ N =< M
  BY <1>7, <1>8, <1>9, <1>10
<1>12. N \in Nat /\ M \in Nat
  <2>1. Cardinality(NamesOf(ps)) \in Nat
    BY NamesFinite
  <2> HIDE DEF W, L
  <2> QED
    BY <1>1, <2>1
<1> HIDE DEF N, M
<1>13. n =< M
  BY <1>11, <1>12
<1> QED
  BY <1>13 DEF M, L, W

LEMMA ParseIsRun ==
  ASSUME NEW ps, Shaped(ps), NEW words \in Seq(Nat)
  PROVE  \E n \in Nat : \E c : /\ n = Len(ps) * (Len(words) + 1)
                               /\ IsRun(ps, words, c, n) /\ P4Parse(ps, words) = c[n]
<1> DEFINE n == Len(ps) * (Len(words) + 1)
           c == CHOOSE u : IsRun(ps, words, u, n)
<1>1. n \in Nat
  <2>1. Len(ps) \in Nat /\ Len(words) \in Nat
    BY DEF Shaped
  <2> QED
    BY <2>1
<1>2. P4Parse(ps, words) = c[n]
  BY DEF P4Parse, IsRun
<1>3. IsRun(ps, words, c, n)
  <2> HIDE DEF n
  <2>1. \E u : IsRun(ps, words, u, n)
    BY <1>1, RunExists
  <2> QED
    BY <2>1
<1> HIDE DEF c
<1> QED
  BY <1>1, <1>2, <1>3

(* Where a run ends is what the switch makes of the packet.                *)
LEMMA RunsEnd ==
  ASSUME NEW ps, Shaped(ps), NEW words \in Seq(Nat), NEW c, NEW k \in Nat, IsRun(ps, words, c, k),
         Final(c[k])
  PROVE  P4Parse(ps, words) = c[k]
<1>0. PICK r \in Nat : \E d : /\ r = Len(ps) * (Len(words) + 1)
                              /\ IsRun(ps, words, d, r) /\ P4Parse(ps, words) = d[r]
  BY ParseIsRun
<1>1. PICK d : /\ r = Len(ps) * (Len(words) + 1)
               /\ IsRun(ps, words, d, r) /\ P4Parse(ps, words) = d[r]
  BY <1>0
<1> DEFINE ends == {i \in 0..k : Final(c[i])}
<1>2. ends \in SUBSET Nat /\ ends # {}
  <2>1. k \in ends
    OBVIOUS
  <2> QED
    BY <2>1
<1>3. PICK n \in ends : \A m \in ends : n =< m
  BY <1>2, LeastNatural
<1>4. n \in 0..k /\ Final(c[n]) /\ \A i \in 0..(n - 1) : ~Final(c[i])
  <2>1. n \in 0..k /\ Final(c[n])
    OBVIOUS
  <2>2. ASSUME NEW i \in 0..(n - 1), Final(c[i]) PROVE FALSE
    <3>1. i \in ends /\ ~(n =< i)
      BY <2>1, <2>2
    <3> QED
      BY <1>3, <3>1
  <2> QED
    BY <2>1, <2>2
<1>5. n =< r
  BY <1>1, <1>4, RunsShort
<1>6. c[k] = c[n]
  <2>1. k \in n..k
    BY <1>4
  <2> QED
    BY <1>4, <2>1, RunGrows
<1>7. c[n] = d[n]
  <2>1. CASE k =< r
    BY <1>1, <1>4, <2>1, RunUnique
  <2>2. CASE r =< k
    <3>1. n \in 0..r
      BY <1>4, <1>5
    <3> QED
      BY <1>1, <2>2, <3>1, RunUnique
  <2> QED
    BY <1>1, <2>1, <2>2
<1>8. d[r] = d[n]
  <2>1. n \in 0..r /\ r \in n..r /\ Final(d[n])
    BY <1>1, <1>4, <1>5, <1>7
  <2> QED
    BY <1>1, <2>1, RunGrows
<1> QED
  BY <1>1, <1>6, <1>7, <1>8

-----------------------------------------------------------------------------
(* The controller's dictionary.                                            *)

Once(hs) == \A i, j \in DOMAIN hs : hs[i].key = hs[j].key => i = j
Keys(hs) == {hs[i].key : i \in DOMAIN hs}

(* Insert replaces the word of a key, or puts a new key behind the others. *)
LEMMA InsertFacts ==
  ASSUME NEW hs \in Seq(Extraction), Once(hs), NEW key \in Name \X {0, 1}, NEW word \in Nat
  PROVE  /\ Insert(hs, key, word) \in Seq(Extraction) /\ Once(Insert(hs, key, word))
         /\ Keys(Insert(hs, key, word)) = Keys(hs) \cup {key}
         /\ \/ /\ key \in Keys(hs) /\ Len(Insert(hs, key, word)) = Len(hs)
               /\ \A i \in 1..Len(hs) :
                    /\ Insert(hs, key, word)[i].key = hs[i].key
                    /\ Insert(hs, key, word)[i] = IF hs[i].key = key THEN [key |-> key, word |-> word] ELSE hs[i]
            \/ /\ key \notin Keys(hs) /\ Len(Insert(hs, key, word)) = Len(hs) + 1
               /\ \A i \in 1..Len(hs) : Insert(hs, key, word)[i] = hs[i]
               /\ Insert(hs, key, word)[Len(hs) + 1] = [key |-> key, word |-> word]
<1> DEFINE e == [key |-> key, word |-> word]
           gs == [i \in DOMAIN hs |-> IF hs[i].key = key THEN [hs[i] EXCEPT !.word = word] ELSE hs[i]]
           r == Insert(hs, key, word)
<1>0. e \in Extraction /\ e.key = key /\ e.word = word
  BY DEF Extraction
<1>1. /\ Len(hs) \in Nat /\ DOMAIN hs = 1..Len(hs) /\ e \in Extraction /\ e.key = key /\ e.word = word
      /\ \A i \in 1..Len(hs) : hs[i] \in Extraction
  BY <1>0
<1>2. CASE key \in Keys(hs)
  <2>1. r = gs
    BY <1>2 DEF Insert, Keys
  <2>2. ASSUME NEW i \in 1..Len(hs)
        PROVE  /\ gs[i] = IF hs[i].key = key THEN e ELSE hs[i]
               /\ gs[i].key = hs[i].key /\ gs[i] \in Extraction
    <3> DEFINE x == hs[i]
    <3>1. x \in Extraction /\ gs[i] = IF x.key = key THEN [x EXCEPT !.word = word] ELSE x
      BY <1>1
    <3> HIDE DEF x, gs
    <3>2. x.key = key => [x EXCEPT !.word = word] = e
      BY <3>1 DEF Extraction
    <3> HIDE DEF e
    <3>3. gs[i] = IF x.key = key THEN e ELSE x
      BY <3>1, <3>2
    <3> QED
      BY <1>1, <3>1, <3>3 DEF x
  <2>3. gs \in [1..Len(hs) -> Extraction]
    <3>1. DOMAIN gs = 1..Len(hs) /\ gs = [i \in DOMAIN gs |-> gs[i]]
      BY <1>1
    <3> HIDE DEF gs
    <3> QED
      BY <2>2, <3>1
  <2> HIDE DEF gs, e
  <2>4. gs \in Seq(Extraction) /\ Len(gs) = Len(hs) /\ DOMAIN gs = 1..Len(hs)
    BY <1>1, <2>3, SeqDef
  <2>5. Once(gs)
    BY <1>1, <2>2, <2>4 DEF Once
  <2>6. Keys(gs) = Keys(hs) \cup {key}
    BY <1>1, <1>2, <2>2, <2>4 DEF Keys
  <2> QED
    BY <1>2, <2>1, <2>2, <2>4, <2>5, <2>6 DEF r, e
<1>3. CASE key \notin Keys(hs)
  <2>1. r = Append(hs, e)
    BY <1>3 DEF Insert, Keys
  <2> HIDE DEF e
  <2> DEFINE as == Append(hs, e)
  <2>2. /\ as \in Seq(Extraction) /\ Len(as) = Len(hs) + 1 /\ as[Len(hs) + 1] = e
        /\ \A i \in 1..Len(hs) : as[i] = hs[i]
    BY <1>1, AppendProperties
  <2> HIDE DEF as
  <2>3. DOMAIN as = 1..(Len(hs) + 1)
    BY <2>2
  <2>4. \A i \in 1..(Len(hs) + 1) : i = Len(hs) + 1 \/ i \in 1..Len(hs)
    BY <1>1
  <2>5. \A i \in 1..Len(hs) : as[i].key # key
    BY <1>1, <1>3, <2>2 DEF Keys
  <2>6. Once(as)
    BY <1>1, <2>2, <2>3, <2>4, <2>5 DEF Once
  <2>7. Keys(as) = Keys(hs) \cup {key}
    <3>1. Len(hs) + 1 \in 1..(Len(hs) + 1) /\ \A i \in 1..Len(hs) : i \in 1..(Len(hs) + 1)
      BY <1>1
    <3>2. ASSUME NEW x \in Keys(as) PROVE x \in Keys(hs) \cup {key}
      <4>1. PICK i \in 1..(Len(hs) + 1) : x = as[i].key
        BY <2>3 DEF Keys
      <4> QED
        BY <1>1, <2>2, <2>4, <4>1 DEF Keys
    <3>3. ASSUME NEW x \in Keys(hs) PROVE x \in Keys(as)
      <4>1. PICK i \in 1..Len(hs) : x = hs[i].key
        BY <1>1 DEF Keys
      <4> QED
        BY <2>2, <2>3, <3>1, <4>1 DEF Keys
    <3>4. key \in Keys(as)
      BY <1>1, <2>2, <2>3, <3>1 DEF Keys
    <3> QED
      BY <3>2, <3>3, <3>4
  <2> QED
    BY <1>3, <2>1, <2>2, <2>6, <2>7 DEF as, r, e
<1> QED
  BY <1>2, <1>3

(* What a dictionary holds of the first n headers extracted.               *)
Holds(hs, all, n) ==
  /\ \A i \in 1..Len(hs) : \E j \in 1..n : all[j] = hs[i] /\ \A l \in 1..n : all[l].key = hs[i].key => l =< j
  /\ \A j \in 1..n : all[j].key \in Keys(hs)
  /\ \A i, j \in 1..Len(hs) : i < j =>
       \E l \in 1..n : all[l].key = hs[i].key /\ \A m \in 1..l : all[m].key # hs[j].key
  /\ (\A i, j \in 1..n : all[i].key = all[j].key => i = j) =>
       Len(hs) = n /\ \A i \in 1..n : hs[i] = all[i]

LEMMA HoldsAll ==
  ASSUME NEW hs \in Seq(Extraction), NEW all \in Seq(Extraction), Holds(hs, all, Len(all))
  PROVE  HeldOf(hs, all) /\ (Once(all) => hs = all)
<1>1. DOMAIN hs = 1..Len(hs) /\ DOMAIN all = 1..Len(all) /\ Len(all) \in Nat /\ Len(hs) \in Nat
  OBVIOUS
<1>2. \A i \in DOMAIN hs : \E j \in DOMAIN all :
        all[j] = hs[i] /\ \A l \in DOMAIN all : all[l].key = hs[i].key => l =< j
  BY <1>1, Zenon DEF Holds
<1>3. \A i, j \in DOMAIN hs : i < j =>
        \E l \in DOMAIN all : all[l].key = hs[i].key /\ \A m \in 1..l : all[m].key # hs[j].key
  <2>1. \A i, j \in 1..Len(hs) : i < j =>
          \E l \in 1..Len(all) : all[l].key = hs[i].key /\ \A m \in 1..l : all[m].key # hs[j].key
    BY Zenon DEF Holds
  <2>2. DOMAIN hs = 1..Len(hs) /\ DOMAIN all = 1..Len(all)
    OBVIOUS
  <2> DEFINE H == DOMAIN hs
             A == DOMAIN all
  <2>3. H = 1..Len(hs) /\ A = 1..Len(all)
    BY <2>2
  <2> HIDE DEF H, A
  <2>4. \A i, j \in H : i < j => \E l \in A : all[l].key = hs[i].key /\ \A m \in 1..l : all[m].key # hs[j].key
    <3> TAKE i \in H, j \in H
    <3> HAVE i < j
    <3>1. i \in 1..Len(hs) /\ j \in 1..Len(hs)
      BY <2>3
    <3>2. PICK l \in 1..Len(all) : all[l].key = hs[i].key /\ \A m \in 1..l : all[m].key # hs[j].key
      BY <2>1, <3>1, Zenon
    <3>3. l \in A
      BY <2>3
    <3> QED
      BY <3>2, <3>3, Zenon
  <2> QED
    BY <2>4 DEF H, A
<1>4. {hs[i].key : i \in DOMAIN hs} = {all[j].key : j \in DOMAIN all}
  <2>1. \A j \in DOMAIN all : all[j].key \in {hs[i].key : i \in DOMAIN hs}
    BY <1>1, Zenon DEF Holds, Keys
  <2>2. \A i \in DOMAIN hs : hs[i].key \in {all[j].key : j \in DOMAIN all}
    <3> TAKE i \in DOMAIN hs
    <3>1. PICK j \in DOMAIN all : all[j] = hs[i]
      BY <1>2
    <3> QED
      BY <3>1
  <2> QED
    BY <2>1, <2>2
<1>5. HeldOf(hs, all)
  BY <1>2, <1>3, <1>4, Zenon DEF HeldOf
<1>6. ASSUME Once(all) PROVE hs = all
  <2>1. Len(hs) = Len(all) /\ \A i \in 1..Len(all) : hs[i] = all[i]
    BY <1>1, <1>6 DEF Holds, Once
  <2> QED
    BY <2>1, SameWords
<1> QED
  BY <1>5, <1>6

LEMMA HoldsMore ==
  ASSUME NEW hs \in Seq(Extraction), Once(hs), NEW all \in Seq(Extraction), NEW n \in Nat, n + 1 =< Len(all),
         Holds(hs, all, n)
  PROVE  Holds(Insert(hs, all[n + 1].key, all[n + 1].word), all, n + 1)
<1> DEFINE e == all[n + 1]
           key == e.key
           word == e.word
           gs == Insert(hs, key, word)
<1>1. e \in Extraction /\ Len(hs) \in Nat /\ DOMAIN hs = 1..Len(hs) /\ n + 1 \in 1..(n + 1)
  OBVIOUS
<1>2. key \in Name \X {0, 1} /\ word \in Nat /\ e = [key |-> key, word |-> word]
  BY <1>1 DEF Extraction
<1>3. \A j \in 1..(n + 1) : j = n + 1 \/ j \in 1..n
  OBVIOUS
<1>4. /\ gs \in Seq(Extraction) /\ Keys(gs) = Keys(hs) \cup {key}
      /\ \/ /\ key \in Keys(hs) /\ Len(gs) = Len(hs)
            /\ \A i \in 1..Len(hs) : gs[i].key = hs[i].key /\ gs[i] = IF hs[i].key = key THEN e ELSE hs[i]
         \/ /\ key \notin Keys(hs) /\ Len(gs) = Len(hs) + 1
            /\ \A i \in 1..Len(hs) : gs[i] = hs[i]
            /\ gs[Len(hs) + 1] = e
  <2> HIDE DEF key, word, e
  <2> QED
    BY <1>2, InsertFacts
<1> HIDE DEF gs
<1>5. /\ \A i \in 1..Len(hs) : \E j \in 1..n : all[j] = hs[i] /\ \A l \in 1..n : all[l].key = hs[i].key => l =< j
      /\ \A j \in 1..n : all[j].key \in Keys(hs)
      /\ \A i, j \in 1..Len(hs) : i < j =>
           \E l \in 1..n : all[l].key = hs[i].key /\ \A m \in 1..l : all[m].key # hs[j].key
      /\ (\A i, j \in 1..n : all[i].key = all[j].key => i = j) =>
           Len(hs) = n /\ \A i \in 1..n : hs[i] = all[i]
  BY DEF Holds
<1>6. \A j \in 1..(n + 1) : all[j].key \in Keys(gs)
  BY <1>3, <1>4, <1>5
<1>7. ASSUME NEW i \in 1..Len(gs)
      PROVE  \E j \in 1..(n + 1) : all[j] = gs[i] /\ \A l \in 1..(n + 1) : all[l].key = gs[i].key => l =< j
  <2>1. CASE gs[i] = e
    <3> WITNESS n + 1 \in 1..(n + 1)
    <3> QED
      BY <2>1
  <2>2. CASE i \in 1..Len(hs) /\ gs[i] = hs[i] /\ hs[i].key # key
    <3>1. PICK j \in 1..n : all[j] = hs[i] /\ \A l \in 1..n : all[l].key = hs[i].key => l =< j
      BY <1>5, <2>2
    <3>2. j \in 1..(n + 1)
      OBVIOUS
    <3>3. \A l \in 1..(n + 1) : all[l].key = gs[i].key => l =< j
      BY <1>3, <2>2, <3>1
    <3> QED
      BY <2>2, <3>1, <3>2, <3>3
  <2>3. i \in 1..Len(hs) \/ i = Len(hs) + 1
    BY <1>1, <1>4
  <2>4. key \notin Keys(hs) /\ i \in 1..Len(hs) => hs[i].key # key
    BY <1>1 DEF Keys
  <2> QED
    BY <1>1, <1>4, <2>1, <2>2, <2>3, <2>4
<1>8. ASSUME NEW i \in 1..Len(gs), NEW j \in 1..Len(gs), i < j
      PROVE  \E l \in 1..(n + 1) : all[l].key = gs[i].key /\ \A m \in 1..l : all[m].key # gs[j].key
  <2>1. CASE i \in 1..Len(hs) /\ j \in 1..Len(hs)
    <3>1. gs[i].key = hs[i].key /\ gs[j].key = hs[j].key
      BY <1>4, <2>1
    <3>2. PICK l \in 1..n : all[l].key = hs[i].key /\ \A m \in 1..l : all[m].key # hs[j].key
      <4>1. \A x, y \in 1..Len(hs) : x < y =>
              \E l \in 1..n : all[l].key = hs[x].key /\ \A m \in 1..l : all[m].key # hs[y].key
        BY <1>5
      <4> QED
        BY <1>8, <2>1, <4>1, Zenon
    <3>3. l \in 1..(n + 1)
      OBVIOUS
    <3> QED
      BY <3>1, <3>2, <3>3
  <2>2. CASE ~(i \in 1..Len(hs) /\ j \in 1..Len(hs))
    <3>1. /\ key \notin Keys(hs) /\ Len(gs) = Len(hs) + 1 /\ j = Len(hs) + 1 /\ i \in 1..Len(hs)
          /\ gs[i] = hs[i] /\ gs[j] = e
      BY <1>1, <1>4, <1>8, <2>2
    <3>2. PICK l \in 1..n : all[l] = hs[i]
      BY <1>5, <3>1
    <3>3. \A m \in 1..l : m \in 1..n /\ all[m].key # key
      BY <1>5, <3>1
    <3>4. l \in 1..(n + 1) /\ all[l].key = gs[i].key
      BY <3>1, <3>2
    <3> QED
      BY <3>1, <3>3, <3>4
  <2> QED
    BY <2>1, <2>2
<1>9. ASSUME \A i, j \in 1..(n + 1) : all[i].key = all[j].key => i = j
      PROVE  Len(gs) = n + 1 /\ \A i \in 1..(n + 1) : gs[i] = all[i]
  <2>1. \A i \in 1..n : i \in 1..(n + 1) /\ i # n + 1
    OBVIOUS
  <2>2. \A i, j \in 1..n : all[i].key = all[j].key => i = j
    BY <1>9, <2>1
  <2>3. Len(hs) = n /\ \A i \in 1..n : hs[i] = all[i]
    BY <1>5, <2>2
  <2>4. \A i \in 1..n : hs[i].key # key
    BY <1>1, <1>9, <2>1, <2>3
  <2>5. key \notin Keys(hs)
    BY <1>1, <2>3, <2>4 DEF Keys
  <2> QED
    BY <1>3, <1>4, <2>3, <2>5
<1> QED
  BY <1>6, <1>7, <1>8, <1>9 DEF Holds, gs

-----------------------------------------------------------------------------
(* The headers of a state, one after the other.                            *)

Begun == [fault |-> "none", read |-> read, headers |-> headers, latest |-> latest]
IsReading(st) ==
  /\ st = [fault |-> st.fault, read |-> st.read, headers |-> st.headers, latest |-> st.latest]
  /\ st.fault \in {"none", "exception", "incomplete"}
  /\ st.read \in 0..Len(report) /\ st.latest \in Nat
  /\ st.headers \in Seq(Extraction) /\ Once(st.headers)
Laid(e) == <<e.header[1], 0>> \in known \cup {Visited}

LEMMA AddHeaderFacts ==
  ASSUME report \in Seq(Nat), NEW st, IsReading(st), NEW e \in Extract
  PROVE  /\ IsReading(AddHeader(st, e))
         /\ Keys(st.headers) \subseteq Keys(AddHeader(st, e).headers)
         /\ Keys(AddHeader(st, e).headers) \subseteq Keys(st.headers) \cup {Key(e)}
         /\ AddHeader(st, e).fault = "none" =>
              /\ st.fault = "none" /\ st.read + 1 =< Len(report)
              /\ AddHeader(st, e).read = st.read + 1
              /\ AddHeader(st, e).latest = report[st.read + 1]
              /\ AddHeader(st, e).headers = Insert(st.headers, Key(e), report[st.read + 1])
              /\ Key(e) \in Keys(AddHeader(st, e).headers)
         /\ st.fault # "none" => AddHeader(st, e) = st
         /\ st.fault = "none" /\ Laid(e) =>
              AddHeader(st, e).fault = IF st.read >= Len(report) THEN "incomplete" ELSE "none"
<1> DEFINE r == AddHeader(st, e)
           w == report[st.read + 1]
           hs == Insert(st.headers, Key(e), w)
<1>1. /\ st = [fault |-> st.fault, read |-> st.read, headers |-> st.headers, latest |-> st.latest]
      /\ st.fault \in {"none", "exception", "incomplete"}
      /\ st.read \in 0..Len(report) /\ st.latest \in Nat
      /\ st.headers \in Seq(Extraction) /\ Once(st.headers) /\ Len(report) \in Nat
  BY DEF IsReading
<1>2. Key(e) \in Name \X {0, 1}
  BY DEF Extract, Key
<1>3. CASE st.fault # "none"
  <2>1. r = st
    BY <1>3 DEF AddHeader
  <2> HIDE DEF r
  <2> QED
    BY <1>3, <2>1 DEF r
<1>4. CASE st.fault = "none" /\ ~Laid(e)
  <2>1. r = [st EXCEPT !.fault = "exception"]
    BY <1>4 DEF AddHeader, Laid
  <2>2. r = [fault |-> "exception", read |-> st.read, headers |-> st.headers, latest |-> st.latest]
    BY <1>1, <2>1
  <2> HIDE DEF r
  <2>3. IsReading(r) /\ r.fault = "exception" /\ r.headers = st.headers
    BY <1>1, <2>2 DEF IsReading
  <2> QED
    BY <1>4, <2>3 DEF r
<1>5. CASE st.fault = "none" /\ Laid(e) /\ st.read >= Len(report)
  <2>1. r = [st EXCEPT !.fault = "incomplete"]
    BY <1>5 DEF AddHeader, Laid
  <2>2. r = [fault |-> "incomplete", read |-> st.read, headers |-> st.headers, latest |-> st.latest]
    BY <1>1, <2>1
  <2> HIDE DEF r
  <2>3. IsReading(r) /\ r.fault = "incomplete" /\ r.headers = st.headers
    BY <1>1, <2>2 DEF IsReading
  <2> QED
    BY <1>5, <2>3 DEF r
<1>6. CASE st.fault = "none" /\ Laid(e) /\ ~(st.read >= Len(report))
  <2>1. r = [st EXCEPT !.read = @ + 1, !.latest = w, !.headers = hs]
    BY <1>6 DEF AddHeader, Laid
  <2>2. st.read + 1 \in 1..Len(report) /\ st.read + 1 \in 0..Len(report) /\ w \in Nat
    BY <1>1, <1>6
  <2> HIDE DEF w
  <2>3. hs \in Seq(Extraction) /\ Once(hs) /\ Keys(hs) = Keys(st.headers) \cup {Key(e)}
    BY <1>1, <1>2, <2>2, InsertFacts
  <2> HIDE DEF hs
  <2>4. r = [fault |-> "none", read |-> st.read + 1, headers |-> hs, latest |-> w]
    BY <1>1, <1>6, <2>1
  <2> HIDE DEF r
  <2>5. r.fault = "none" /\ r.read = st.read + 1 /\ r.headers = hs /\ r.latest = w
    BY <2>4
  <2>6. IsReading(r)
    BY <2>2, <2>3, <2>4, <2>5 DEF IsReading
  <2> QED
    BY <1>1, <1>6, <2>2, <2>3, <2>5, <2>6 DEF r, hs, w
<1> QED
  BY <1>3, <1>4, <1>5, <1>6

(* AddHeaders goes through a state's headers one by one.                   *)
IsReadUpTo(u, es, k) == u = [i \in 0..k |-> IF i = 0 THEN Begun ELSE AddHeader(u[i - 1], es[i])]

LEMMA ReadUpToExists ==
  ASSUME NEW es, NEW k \in Nat
  PROVE  \E u : IsReadUpTo(u, es, k)
<1> DEFINE S == {n \in 0..k : \E u : IsReadUpTo(u, es, n)}
<1>1. 0 \in S
  <2> DEFINE u == [i \in 0..0 |-> Begun]
  <2>1. u = [i \in 0..0 |-> IF i = 0 THEN Begun ELSE AddHeader(u[i - 1], es[i])]
    OBVIOUS
  <2> HIDE DEF u
  <2>2. IsReadUpTo(u, es, 0)
    BY <2>1 DEF IsReadUpTo
  <2> QED
    BY <2>2
<1>2. ASSUME NEW n \in 1..k, n - 1 \in S PROVE n \in S
  <2>1. PICK u : IsReadUpTo(u, es, n - 1)
    BY <1>2
  <2> DEFINE v == [i \in 0..n |-> IF i = n THEN AddHeader(u[n - 1], es[n]) ELSE u[i]]
  <2>2. /\ v = [i \in 0..n |-> v[i]] /\ v[n] = AddHeader(u[n - 1], es[n])
        /\ \A i \in 0..(n - 1) : v[i] = u[i]
    OBVIOUS
  <2>3. \A i \in 0..(n - 1) : u[i] = IF i = 0 THEN Begun ELSE AddHeader(u[i - 1], es[i])
    <3> DEFINE w == [i \in 0..(n - 1) |-> IF i = 0 THEN Begun ELSE AddHeader(u[i - 1], es[i])]
    <3>1. u = w
      BY <2>1 DEF IsReadUpTo
    <3>2. \A i \in 0..(n - 1) : w[i] = IF i = 0 THEN Begun ELSE AddHeader(u[i - 1], es[i])
      OBVIOUS
    <3> HIDE DEF w
    <3> QED
      BY <3>1, <3>2
  <2> HIDE DEF v
  <2>4. \A i \in 0..n : v[i] = IF i = 0 THEN Begun ELSE AddHeader(v[i - 1], es[i])
    <3> TAKE i \in 0..n
    <3>1. CASE i = 0
      <4>1. i \in 0..(n - 1)
        BY <3>1
      <4> QED
        BY <2>2, <2>3, <3>1, <4>1
    <3>2. CASE i # 0 /\ i # n
      <4>1. i \in 0..(n - 1) /\ i - 1 \in 0..(n - 1)
        BY <3>2
      <4>2. v[i] = u[i] /\ v[i - 1] = u[i - 1] /\ u[i] = AddHeader(u[i - 1], es[i])
        BY <2>2, <2>3, <3>2, <4>1
      <4> QED
        BY <3>2, <4>2
    <3>3. CASE i = n
      <4>1. i # 0 /\ i - 1 \in 0..(n - 1) /\ i - 1 = n - 1
        BY <3>3
      <4>2. v[i - 1] = u[n - 1]
        BY <2>2, <4>1
      <4> QED
        BY <2>2, <3>3, <4>1, <4>2
    <3> QED
      BY <3>1, <3>2, <3>3
  <2>5. v = [i \in 0..n |-> IF i = 0 THEN Begun ELSE AddHeader(v[i - 1], es[i])]
    BY <2>2, <2>4
  <2>6. IsReadUpTo(v, es, n)
    BY <2>5 DEF IsReadUpTo
  <2> QED
    BY <2>6
<1> HIDE DEF S
<1>3. 0..k \subseteq S
  BY <1>1, <1>2, InductionUpTo
<1> QED
  BY <1>3, k \in 0..k DEF S

LEMMA AddHeadersIs ==
  ASSUME report \in Seq(Nat), IsReading(Begun), NEW es \in Seq(Extract)
  PROVE  \E u : /\ u[0] = Begun /\ AddHeaders(es) = u[Len(es)]
                /\ \A i \in 1..Len(es) : u[i] = AddHeader(u[i - 1], es[i])
                /\ \A i \in 0..Len(es) : IsReading(u[i])
<1> DEFINE k == Len(es)
           u == CHOOSE f : IsReadUpTo(f, es, k)
           S == {i \in 0..k : IsReading(u[i])}
<1>1. k \in Nat /\ \A i \in 1..k : es[i] \in Extract
  OBVIOUS
<1>2. AddHeaders(es) = u[k]
  BY DEF AddHeaders, IsReadUpTo, Begun
<1> HIDE DEF k
<1>3. IsReadUpTo(u, es, k)
  <2>1. \E f : IsReadUpTo(f, es, k)
    BY <1>1, ReadUpToExists
  <2> QED
    BY <2>1
<1> HIDE DEF u
<1>4. u[0] = Begun /\ \A i \in 1..k : u[i] = AddHeader(u[i - 1], es[i])
  <2> DEFINE w == [i \in 0..k |-> IF i = 0 THEN Begun ELSE AddHeader(u[i - 1], es[i])]
  <2>1. u = w
    BY <1>3 DEF IsReadUpTo
  <2>2. w[0] = Begun /\ \A i \in 1..k : w[i] = AddHeader(u[i - 1], es[i])
    BY <1>1
  <2> HIDE DEF w
  <2> QED
    BY <2>1, <2>2
<1>5. 0 \in S
  BY <1>1, <1>4
<1>6. ASSUME NEW i \in 1..k, i - 1 \in S PROVE i \in S
  <2>1. IsReading(u[i - 1]) /\ es[i] \in Extract /\ u[i] = AddHeader(u[i - 1], es[i])
    BY <1>1, <1>4, <1>6
  <2>2. IsReading(AddHeader(u[i - 1], es[i]))
    BY <2>1, AddHeaderFacts
  <2> QED
    BY <1>1, <2>1, <2>2
<1> HIDE DEF S
<1>7. 0..k \subseteq S
  BY <1>1, <1>5, <1>6, InductionUpTo
<1>8. \A i \in 0..k : IsReading(u[i])
  BY <1>7 DEF S
<1> QED
  BY <1>2, <1>4, <1>8 DEF k

LEMMA AddHeadersFacts ==
  ASSUME report \in Seq(Nat), IsReading(Begun), NEW es \in Seq(Extract)
  PROVE  LET st == AddHeaders(es)
         IN  /\ IsReading(st) /\ Keys(headers) \subseteq Keys(st.headers)
             /\ \A x \in Keys(st.headers) : x \in Keys(headers) \/ \E i \in 1..Len(es) : x = Key(es[i])
             /\ es = <<>> => st = Begun
             /\ st.fault = "none" =>
                  /\ st.read = read + Len(es)
                  /\ \A i \in 1..Len(es) : Key(es[i]) \in Keys(st.headers)
                  /\ st.latest = IF Len(es) = 0 THEN latest ELSE report[st.read]
             /\ (\A i \in 1..Len(es) : Laid(es[i])) =>
                  st.fault = IF read + Len(es) > Len(report) THEN "incomplete" ELSE "none"
             /\ st.fault = "none" =>
                  \A all \in Seq(Extraction) :
                     /\ Len(all) = read + Len(es) /\ Holds(headers, all, read)
                     /\ \A i \in 1..Len(es) : all[read + i] = [key |-> Key(es[i]), word |-> report[read + i]]
                     => Holds(st.headers, all, Len(all))
<1>1. PICK u : /\ u[0] = Begun /\ AddHeaders(es) = u[Len(es)]
               /\ \A i \in 1..Len(es) : u[i] = AddHeader(u[i - 1], es[i])
               /\ \A i \in 0..Len(es) : IsReading(u[i])
  BY AddHeadersIs
<1> DEFINE k == Len(es)
           Known == \A i \in 1..Len(es) : Laid(es[i])
           P(i) == /\ Keys(headers) \subseteq Keys(u[i].headers)
                   /\ \A x \in Keys(u[i].headers) : x \in Keys(headers) \/ \E j \in 1..i : x = Key(es[j])
                   /\ u[i].fault = "none" =>
                        /\ u[i].read = read + i
                        /\ \A j \in 1..i : Key(es[j]) \in Keys(u[i].headers)
                        /\ u[i].latest = IF i = 0 THEN latest ELSE report[read + i]
                   /\ Known => u[i].fault = IF read + i > Len(report) THEN "incomplete" ELSE "none"
           Q(all, i) == u[i].fault = "none" => Holds(u[i].headers, all, read + i)
           S == {i \in 0..k : P(i)}
<1>2. /\ k \in Nat /\ Len(report) \in Nat /\ \A i \in 1..k : es[i] \in Extract
      /\ Begun.fault = "none" /\ Begun.read = read /\ Begun.headers = headers /\ Begun.latest = latest
  BY DEF Begun
<1>3. read \in 0..Len(report) /\ read \in Nat /\ headers \in Seq(Extraction)
  BY <1>2 DEF IsReading
<1>4. \A i \in 1..k : i - 1 \in 0..k /\ i \in 0..k /\ (i - 1) + 1 = i
  BY <1>2
<1>5. ASSUME NEW i \in 1..k
      PROVE  /\ Keys(u[i - 1].headers) \subseteq Keys(u[i].headers)
             /\ Keys(u[i].headers) \subseteq Keys(u[i - 1].headers) \cup {Key(es[i])}
             /\ u[i].fault = "none" =>
                  /\ u[i - 1].fault = "none" /\ u[i - 1].read + 1 =< Len(report)
                  /\ u[i].read = u[i - 1].read + 1
                  /\ u[i].latest = report[u[i - 1].read + 1]
                  /\ u[i].headers = Insert(u[i - 1].headers, Key(es[i]), report[u[i - 1].read + 1])
                  /\ Key(es[i]) \in Keys(u[i].headers)
             /\ u[i - 1].fault # "none" => u[i] = u[i - 1]
             /\ u[i - 1].fault = "none" /\ Laid(es[i]) =>
                  u[i].fault = IF u[i - 1].read >= Len(report) THEN "incomplete" ELSE "none"
  <2>1. IsReading(u[i - 1]) /\ es[i] \in Extract /\ u[i] = AddHeader(u[i - 1], es[i])
    BY <1>1, <1>2, <1>4
  <2> DEFINE a == u[i - 1]
             e == es[i]
             b == AddHeader(a, e)
  <2> HIDE DEF a, e
  <2>2. IsReading(a) /\ e \in Extract
    BY <2>1 DEF a, e
  <2>3. /\ Keys(a.headers) \subseteq Keys(b.headers)
        /\ Keys(b.headers) \subseteq Keys(a.headers) \cup {Key(e)}
        /\ b.fault = "none" =>
             /\ a.fault = "none" /\ a.read + 1 =< Len(report)
             /\ b.read = a.read + 1
             /\ b.latest = report[a.read + 1]
             /\ b.headers = Insert(a.headers, Key(e), report[a.read + 1])
             /\ Key(e) \in Keys(b.headers)
        /\ a.fault # "none" => b = a
        /\ a.fault = "none" /\ Laid(e) =>
             b.fault = IF a.read >= Len(report) THEN "incomplete" ELSE "none"
    BY <2>2, AddHeaderFacts
  <2>4. u[i] = b
    BY <2>1 DEF a, e
  <2> HIDE DEF b
  <2> QED
    BY <2>3, <2>4 DEF a, e
<1>6. 0 \in S
  <2>1. P(0)
    BY <1>1, <1>2, <1>3
  <2> QED
    BY <1>2, <2>1
<1>7. ASSUME NEW i \in 1..k, i - 1 \in S PROVE i \in S
  <2>1. P(i - 1)
    BY <1>7
  <2> DEFINE a == u[i - 1]
             b == u[i]
  <2>2. /\ Keys(headers) \subseteq Keys(a.headers)
        /\ \A x \in Keys(a.headers) : x \in Keys(headers) \/ \E j \in 1..(i - 1) : x = Key(es[j])
        /\ a.fault = "none" => a.read = read + (i - 1) /\ \A j \in 1..(i - 1) : Key(es[j]) \in Keys(a.headers)
        /\ Known => a.fault = IF read + (i - 1) > Len(report) THEN "incomplete" ELSE "none"
    BY <2>1
  <2>3. /\ Keys(a.headers) \subseteq Keys(b.headers)
        /\ Keys(b.headers) \subseteq Keys(a.headers) \cup {Key(es[i])}
        /\ b.fault = "none" =>
             /\ a.fault = "none" /\ a.read + 1 =< Len(report) /\ b.read = a.read + 1
             /\ b.latest = report[a.read + 1]
             /\ Key(es[i]) \in Keys(b.headers)
        /\ a.fault # "none" => b = a
        /\ a.fault = "none" /\ Laid(es[i]) =>
             b.fault = IF a.read >= Len(report) THEN "incomplete" ELSE "none"
    BY <1>5
  <2> HIDE DEF a, b
  <2>4. Known => Laid(es[i])
    OBVIOUS
  <2> HIDE DEF Known
  <2>5. /\ Keys(headers) \subseteq Keys(b.headers)
        /\ \A x \in Keys(b.headers) : x \in Keys(headers) \/ \E j \in 1..i : x = Key(es[j])
    <3>1. i \in 1..i /\ \A j \in 1..(i - 1) : j \in 1..i
      OBVIOUS
    <3> QED
      BY <2>2, <2>3, <3>1
  <2>6. ASSUME b.fault = "none"
        PROVE  /\ b.read = read + i
               /\ \A j \in 1..i : Key(es[j]) \in Keys(b.headers)
               /\ b.latest = IF i = 0 THEN latest ELSE report[read + i]
    <3>1. a.read + 1 = read + i /\ i # 0
      BY <1>3, <2>2, <2>3, <2>6
    <3>2. \A j \in 1..i : j = i \/ j \in 1..(i - 1)
      OBVIOUS
    <3> QED
      BY <2>2, <2>3, <2>6, <3>1, <3>2
  <2>7. Known => b.fault = IF read + i > Len(report) THEN "incomplete" ELSE "none"
    BY <1>2, <1>3, <2>2, <2>3, <2>4
  <2>8. P(i)
    BY <2>5, <2>6, <2>7 DEF a, b
  <2> QED
    BY <1>4, <2>8
<1> HIDE DEF S
<1>8. 0..k \subseteq S
  BY <1>2, <1>6, <1>7, InductionUpTo
<1>9. \A i \in 0..k : P(i)
  BY <1>8 DEF S
<1>10. ASSUME NEW all \in Seq(Extraction),
              Len(all) = read + k, Holds(headers, all, read),
              \A i \in 1..k : all[read + i] = [key |-> Key(es[i]), word |-> report[read + i]]
       PROVE  Q(all, k)
  <2> DEFINE T == {i \in 0..k : Q(all, i)}
  <2>1. 0 \in T
    <3>1. read + 0 = read
      BY <1>3
    <3> QED
      BY <1>1, <1>2, <1>10, <3>1
  <2>2. ASSUME NEW i \in 1..k, i - 1 \in T PROVE i \in T
    <3>1. P(i - 1) /\ Q(all, i - 1)
      BY <1>4, <1>9, <2>2
    <3> DEFINE a == u[i - 1]
               b == u[i]
               n == read + (i - 1)
    <3>2. SUFFICES ASSUME b.fault = "none" PROVE Holds(b.headers, all, read + i)
      BY <1>4
    <3>3. a.fault = "none" /\ b.headers = Insert(a.headers, Key(es[i]), report[a.read + 1])
      BY <1>5, <3>2
    <3>4. a.read = n /\ Holds(a.headers, all, n)
      BY <3>1, <3>3
    <3>5. n \in Nat /\ n + 1 = read + i /\ n + 1 =< Len(all)
      BY <1>2, <1>3, <1>10
    <3>6. a.headers \in Seq(Extraction) /\ Once(a.headers)
      BY <1>1, <1>4 DEF IsReading
    <3> HIDE DEF a, b, n
    <3>7. all[n + 1] = [key |-> Key(es[i]), word |-> report[n + 1]]
      BY <1>10, <3>5
    <3>8. all[n + 1].key = Key(es[i]) /\ all[n + 1].word = report[n + 1]
      BY <3>7
    <3>9. Holds(Insert(a.headers, all[n + 1].key, all[n + 1].word), all, n + 1)
      BY <3>4, <3>5, <3>6, HoldsMore
    <3> QED
      BY <3>3, <3>4, <3>5, <3>8, <3>9
  <2> HIDE DEF T, Q
  <2>3. 0..k \subseteq T
    BY <1>2, <2>1, <2>2, InductionUpTo
  <2> QED
    BY <1>2, <2>3 DEF T
<1> DEFINE st == u[k]
<1>11. IsReading(st) /\ P(k) /\ k \in 0..k
  BY <1>1, <1>2, <1>9
<1>12. es = <<>> => st = Begun
  <2>1. es = <<>> => k = 0
    BY EmptySeq
  <2> QED
    BY <1>1, <2>1
<1>13. st.fault = "none" =>
         \A all \in Seq(Extraction) :
            /\ Len(all) = read + k /\ Holds(headers, all, read)
            /\ \A i \in 1..k : all[read + i] = [key |-> Key(es[i]), word |-> report[read + i]]
            => Holds(st.headers, all, Len(all))
  BY <1>10
<1>14. /\ Keys(headers) \subseteq Keys(st.headers)
       /\ \A x \in Keys(st.headers) : x \in Keys(headers) \/ \E j \in 1..k : x = Key(es[j])
       /\ st.fault = "none" =>
            /\ st.read = read + k
            /\ \A j \in 1..k : Key(es[j]) \in Keys(st.headers)
            /\ st.latest = IF k = 0 THEN latest ELSE report[st.read]
       /\ Known => st.fault = IF read + k > Len(report) THEN "incomplete" ELSE "none"
  BY <1>11
<1>15. AddHeaders(es) = st
  BY <1>1
<1> HIDE DEF st, k
<1> QED
  BY <1>11, <1>12, <1>13, <1>14, <1>15 DEF k

-----------------------------------------------------------------------------
(* The controller's machine, and what every run of it keeps.               *)

LEMMA MachineIs ==
  ASSUME NEW ps, Shaped(ps), NEW s \in NamesOf(ps)
  PROVE  LET p == Named(ps, s)
             ts == Transitions(p)
         IN  /\ DOMAIN Machine(ps).extract = NamesOf(ps) /\ Machine(ps).extract[s] = Extracts(p)
             /\ s \in DOMAIN Machine(ps).transitions <=> DOMAIN ts # {}
             /\ s \in DOMAIN Machine(ps).transitions =>
                  /\ Machine(ps).transitions[s] = ts
                  /\ Machine(ps).defaults[s] = IF DefaultsOf(ts) = {} THEN Nothing ELSE ts[Max(DefaultsOf(ts))].to
<1> DEFINE of(t) == Transitions(Named(ps, t))
           froms == {t \in NamesOf(ps) : DOMAIN of(t) # {}}
           x == [t \in NamesOf(ps) |-> Extracts(Named(ps, t))]
           y == [t \in froms |-> of(t)]
           z == [t \in froms |-> IF DefaultsOf(of(t)) = {} THEN Nothing ELSE of(t)[Max(DefaultsOf(of(t)))].to]
<1>1. Machine(ps) = [extract |-> x, transitions |-> y, defaults |-> z]
  BY DEF Machine
<1>2. DOMAIN x = NamesOf(ps) /\ x[s] = Extracts(Named(ps, s))
  OBVIOUS
<1>3. DOMAIN y = froms /\ (s \in froms => y[s] = of(s))
  OBVIOUS
<1>4. s \in froms => z[s] = IF DefaultsOf(of(s)) = {} THEN Nothing ELSE of(s)[Max(DefaultsOf(of(s)))].to
  OBVIOUS
<1>5. s \in froms <=> DOMAIN of(s) # {}
  OBVIOUS
<1> HIDE DEF x, y, z, froms, of
<1>6. Machine(ps).extract = x /\ Machine(ps).transitions = y /\ Machine(ps).defaults = z
  BY <1>1
<1> QED
  BY <1>2, <1>3, <1>4, <1>5, <1>6 DEF of

LEMMA MachineTransitions == ASSUME NEW ps PROVE DOMAIN Machine(ps).transitions \subseteq NamesOf(ps)
BY DEF Machine

LEMMA TransitionsIs ==
  ASSUME NEW p \in Parser
  PROVE  LET ts == Transitions(p)
         IN  /\ DOMAIN ts = {j \in 1..Len(p.cases) : p.select.kind = "port" => p.cases[j].value = Default}
             /\ \A i \in DOMAIN ts : /\ ts[i].to = p.cases[i].to /\ ts[i].select = p.select
                                     /\ ts[i].value = p.cases[i].value
             /\ DefaultsOf(ts) = {j \in 1..Len(p.cases) : p.cases[j].value = Default}
<1> DEFINE ts == Transitions(p)
<1>1. DOMAIN p.cases = 1..Len(p.cases)
  <2>1. p.cases \in Seq(Branch)
    BY DEF Parser
  <2> QED
    BY <2>1
<1>2. DOMAIN ts = {j \in 1..Len(p.cases) : p.select.kind = "port" => p.cases[j].value = Default}
  BY <1>1 DEF Transitions
<1>3. \A i \in DOMAIN ts : ts[i] = [to |-> p.cases[i].to, select |-> p.select, value |-> p.cases[i].value]
  BY DEF Transitions
<1> HIDE DEF ts
<1>4. \A i \in DOMAIN ts : ts[i].to = p.cases[i].to /\ ts[i].select = p.select /\ ts[i].value = p.cases[i].value
  BY <1>3
<1>5. DefaultsOf(ts) = {j \in 1..Len(p.cases) : p.cases[j].value = Default}
  BY <1>2, <1>4 DEF DefaultsOf
<1> QED
  BY <1>2, <1>4, <1>5 DEF ts

LEMMA TransitionsTyped ==
  ASSUME NEW ps, Shaped(ps), NEW s \in DOMAIN Machine(ps).transitions
  PROVE  LET ts == Machine(ps).transitions[s]
         IN  /\ DOMAIN ts \in SUBSET Nat
             /\ \A i \in DOMAIN ts : ts[i].to \in NamesOf(ps) \cup {Ingress}
             /\ Machine(ps).defaults[s] \in NamesOf(ps) \cup {Ingress, Nothing}
<1> DEFINE p == Named(ps, s)
           ts == Transitions(p)
           ds == DefaultsOf(ts)
<1>1. s \in NamesOf(ps)
  BY MachineTransitions
<1>2. /\ Machine(ps).transitions[s] = ts
      /\ Machine(ps).defaults[s] = IF ds = {} THEN Nothing ELSE ts[Max(ds)].to
  BY <1>1, MachineIs
<1>3. p \in Parser /\ \A i \in DOMAIN p.cases : p.cases[i].to \in NamesOf(ps) \cup {Ingress}
  BY <1>1 DEF Shaped
<1> HIDE DEF p
<1>4. Len(p.cases) \in Nat /\ DOMAIN p.cases = 1..Len(p.cases)
  <2>1. p.cases \in Seq(Branch)
    BY <1>3 DEF Parser
  <2> QED
    BY <2>1
<1>5. /\ DOMAIN ts \subseteq 1..Len(p.cases)
      /\ \A i \in DOMAIN ts : ts[i].to = p.cases[i].to
      /\ ds \subseteq DOMAIN ts
  BY <1>3, TransitionsIs DEF DefaultsOf
<1> HIDE DEF ts, ds
<1>6. \A i \in DOMAIN ts : ts[i].to \in NamesOf(ps) \cup {Ingress}
  BY <1>3, <1>4, <1>5
<1>7. ds # {} => Max(ds) \in ds
  <2>1. ds \in SUBSET (0..Len(p.cases))
    BY <1>4, <1>5
  <2> QED
    BY <1>4, <2>1, MaxIs
<1>8. DOMAIN ts \in SUBSET Nat
  BY <1>4, <1>5
<1> QED
  BY <1>2, <1>5, <1>6, <1>7, <1>8

Progress ==
  /\ prog \in Programs /\ report \in Reports
  /\ phase \in {"clone", "update", "json", "packet", "parse", "seed", "done"}
  /\ outcome \in {"none", "incomplete", "unknown", "exception", "seed"}
  /\ phase \in {"clone", "update", "json", "packet"} => current = Start /\ read = 0 /\ latest = 0 /\ headers = <<>>
  /\ phase = "clone" => parsers = prog.parsers
  /\ phase = "update" => parsers = Copied(prog.parsers)
  /\ phase \in {"json", "packet", "parse", "seed", "done"} => parsers = Doubled(prog.parsers)
  /\ phase \in {"packet", "parse", "seed", "done"} => machine = Machine(Doubled(prog.parsers)) /\ known = Instances(prog)
  /\ phase = "done" <=> outcome # "none"
  /\ phase = "seed" => current = Ingress
Position ==
  /\ read \in 0..Len(report) /\ latest \in Nat
  /\ headers \in Seq(Extraction) /\ Once(headers)
  /\ current \in {Ingress, Nothing} \cup NamesOf(Doubled(prog.parsers))
TypeInv == Progress /\ Position

LEMMA ProgFacts ==
  ASSUME prog \in Programs, report \in Reports
  PROVE  /\ IsProgram(prog) /\ report \in Seq(Nat) /\ Len(report) \in Nat
         /\ Shaped(prog.parsers) /\ Shaped(Doubled(prog.parsers))
         /\ Start \in NamesOf(prog.parsers) /\ Start \in NamesOf(Doubled(prog.parsers))
<1>1. IsProgram(prog) /\ report \in Seq(Nat)
  BY ReportAssumption
<1>2. Shaped(prog.parsers) /\ Shaped(Doubled(prog.parsers))
  BY <1>1, ProgramShaped, DoubledShaped
<1> QED
  BY <1>1, <1>2 DEF Shaped

LEMMA TypeInit == Init => TypeInv
<1> SUFFICES ASSUME Init PROVE TypeInv
  OBVIOUS
<1>1. /\ prog \in Programs /\ report \in Reports /\ phase = "clone" /\ outcome = "none"
      /\ parsers = prog.parsers /\ current = Start /\ read = 0 /\ latest = 0 /\ headers = <<>>
  BY DEF Init
<1>2. Len(report) \in Nat /\ Start \in NamesOf(Doubled(prog.parsers))
  BY <1>1, ProgFacts
<1>3. Progress
  BY <1>1 DEF Progress
<1>4. Position
  BY <1>1, <1>2 DEF Position, Once
<1> QED
  BY <1>3, <1>4 DEF TypeInv

(* One round of parsePacket's loop: what is read, and where it leads.      *)
Here == IF current \in DOMAIN machine.extract THEN machine.extract[current] ELSE <<>>

LEMMA ReadingTyped ==
  ASSUME Progress, Position, phase = "parse"
  PROVE  IsReading(Begun) /\ Here \in Seq(Extract) /\ IsReading(AddHeaders(Here))
<1> DEFINE D == Doubled(prog.parsers)
<1>1. report \in Seq(Nat) /\ Shaped(D) /\ machine = Machine(D)
  BY ProgFacts DEF Progress
<1> HIDE DEF D
<1>2. IsReading(Begun)
  <2> DEFINE b == [fault |-> "none", read |-> read, headers |-> headers, latest |-> latest]
  <2>1. Begun = b
    BY DEF Begun
  <2>2. b.fault = "none" /\ b.read = read /\ b.headers = headers /\ b.latest = latest
        /\ b = [fault |-> b.fault, read |-> b.read, headers |-> b.headers, latest |-> b.latest]
    OBVIOUS
  <2> HIDE DEF b
  <2>3. IsReading(b)
    BY <2>2 DEF IsReading, Position
  <2> QED
    BY <2>1, <2>3
<1>3. Here \in Seq(Extract)
  <2>1. CASE current \in DOMAIN machine.extract
    <3>1. Start \in NamesOf(D)
      BY <1>1 DEF Shaped
    <3>2. current \in NamesOf(D)
      BY <1>1, <2>1, <3>1, MachineIs
    <3>3. Named(D, current) \in Parser /\ Machine(D).extract[current] = Extracts(Named(D, current))
      BY <1>1, <3>2, MachineIs DEF Shaped
    <3> QED
      BY <1>1, <2>1, <3>3, ExtractsTyped DEF Here
  <2>2. CASE current \notin DOMAIN machine.extract
    BY <2>2 DEF Here
  <2> QED
    BY <2>1, <2>2
<1> QED
  BY <1>1, <1>2, <1>3, AddHeadersFacts

LEMMA RoundTyped ==
  ASSUME Progress, Position, ParseState
  PROVE  Progress' /\ Position'
<1> DEFINE D == Doubled(prog.parsers)
           st == AddHeaders(Here)
           ts == machine.transitions[current]
           taken == Matching(ts, st)
           blind == \E i \in Conditional(ts) : Seen(ts[i].select, st) = -1
<1>1. /\ phase = "parse" /\ current # Ingress
      /\ read' = st.read /\ headers' = st.headers /\ latest' = st.latest
      /\ UNCHANGED <<prog, report, parsers, known, machine>>
      /\ \/ phase' = "done" /\ outcome' = st.fault /\ st.fault # "none" /\ UNCHANGED current
         \/ phase' = "done" /\ outcome' = "exception" /\ UNCHANGED current
         \/ /\ current \in DOMAIN machine.transitions
            /\ current' = IF taken # {} /\ ts[Min(taken)].to # current THEN ts[Min(taken)].to
                          ELSE machine.defaults[current]
            /\ UNCHANGED <<phase, outcome>>
  <2> USE DEF Here
  <2> HIDE DEF taken, blind
  <2>1. /\ phase = "parse" /\ current # Ingress
        /\ read' = st.read /\ headers' = st.headers /\ latest' = st.latest
        /\ UNCHANGED <<prog, report, parsers, known, machine>>
        /\ CASE st.fault # "none" -> Fail(st.fault)
             [] st.fault = "none" /\ (current \notin DOMAIN machine.transitions \/ blind) -> Fail("exception")
             [] OTHER ->
                  /\ current' = IF taken # {} /\ ts[Min(taken)].to # current THEN ts[Min(taken)].to
                                ELSE machine.defaults[current]
                  /\ UNCHANGED <<phase, outcome>>
    BY DEF ParseState, taken, blind
  <2> HIDE DEF st, ts
  <2> QED
    BY <2>1 DEF Fail
<1>2. IsReading(st)
  BY <1>1, ReadingTyped
<1> HIDE DEF st
<1>3. Shaped(D) /\ machine = Machine(D)
  BY <1>1, ProgFacts DEF Progress
<1> HIDE DEF D
<1>4. current' \in {Ingress, Nothing} \cup NamesOf(D)
  <2>1. CASE UNCHANGED current
    BY <2>1 DEF Position, D
  <2>2. CASE current \in DOMAIN machine.transitions
             /\ current' = IF taken # {} /\ ts[Min(taken)].to # current THEN ts[Min(taken)].to
                           ELSE machine.defaults[current]
    <3>1. /\ DOMAIN ts \in SUBSET Nat
          /\ \A i \in DOMAIN ts : ts[i].to \in NamesOf(D) \cup {Ingress}
          /\ machine.defaults[current] \in NamesOf(D) \cup {Ingress, Nothing}
      BY <1>3, <2>2, TransitionsTyped
    <3>2. taken \subseteq DOMAIN ts
      BY DEF Matching, Conditional
    <3> HIDE DEF taken, ts
    <3>3. taken # {} => Min(taken) \in taken
      <4>1. taken \in SUBSET Nat
        BY <3>1, <3>2
      <4> QED
        BY <4>1, MinIs
    <3> QED
      BY <2>2, <3>1, <3>2, <3>3
  <2> QED
    BY <1>1, <2>1, <2>2
<1>5. Position'
  BY <1>1, <1>2, <1>4 DEF Position, IsReading, D
<1>6. st.fault \in {"none", "exception", "incomplete"}
  BY <1>2 DEF IsReading
<1>7. Progress'
  BY <1>1, <1>6 DEF Progress
<1> QED
  BY <1>5, <1>7

LEMMA TypeStep == TypeInv /\ [Next]_vars => TypeInv'
<1> SUFFICES ASSUME Progress, Position, [Next]_vars PROVE Progress' /\ Position'
  BY DEF TypeInv
<1>1. CASE CloneParser
  <2>1. parsers' = Copied(prog.parsers)
    BY <1>1 DEF CloneParser, Progress, Copied
  <2>2. Progress'
    BY <1>1, <2>1 DEF CloneParser, Progress
  <2> QED
    BY <1>1, <2>2 DEF CloneParser, Position
<1>2. CASE UpdateParserDAG
  <2>1. parsers = Copied(prog.parsers)
    BY <1>2 DEF UpdateParserDAG, Progress
  <2>2. parsers' = [i \in DOMAIN parsers |-> IF parsers[i].name[2] = 1 THEN parsers[i] ELSE Redirected(parsers[i])]
    BY <1>2 DEF UpdateParserDAG
  <2>3. DOMAIN parsers = 1..(2 * Len(prog.parsers))
    BY <2>1 DEF Copied
  <2>4. parsers' = Doubled(prog.parsers)
    BY <2>1, <2>2, <2>3 DEF Doubled
  <2>5. Progress'
    BY <1>2, <2>4 DEF UpdateParserDAG, Progress
  <2> QED
    BY <1>2, <2>5 DEF UpdateParserDAG, Position
<1>3. CASE GenerateParserJson
  <2>1. Progress'
    BY <1>3 DEF GenerateParserJson, Progress
  <2> QED
    BY <1>3, <2>1 DEF GenerateParserJson, Position
<1>4. CASE ParseState
  BY <1>4, RoundTyped
<1>5. CASE CheckPreamble
  <2>1. \/ phase' = "seed" /\ UNCHANGED outcome
        \/ phase' = "done" /\ outcome' = "unknown"
    BY <1>5 DEF CheckPreamble
  <2>2. /\ phase = "parse" /\ current = Ingress
        /\ UNCHANGED <<prog, report, parsers, known, machine, current, read, latest, headers>>
    BY <1>5 DEF CheckPreamble
  <2>3. Progress'
    BY <2>1, <2>2 DEF Progress
  <2> QED
    BY <2>2, <2>3 DEF Position
<1>6. CASE AddSeed
  <2>1. outcome' \in {"exception", "seed"}
    BY <1>6 DEF AddSeed
  <2>2. /\ phase = "seed" /\ phase' = "done"
        /\ UNCHANGED <<prog, report, parsers, known, machine, current, read, latest, headers>>
    BY <1>6 DEF AddSeed
  <2>3. Progress'
    BY <2>1, <2>2 DEF Progress
  <2> QED
    BY <2>2, <2>3 DEF Position
<1>7. CASE NewPacket
  <2>1. \/ phase' = "parse" /\ UNCHANGED outcome
        \/ phase' = "done" /\ outcome' = "exception"
    BY <1>7 DEF NewPacket
  <2>2. /\ phase = "packet"
        /\ UNCHANGED <<prog, report, parsers, known, machine, current, read, latest, headers>>
    BY <1>7 DEF NewPacket
  <2>3. Progress'
    BY <2>1, <2>2 DEF Progress
  <2> QED
    BY <2>2, <2>3 DEF Position
<1>8. CASE UNCHANGED vars
  BY <1>8 DEF vars, Progress, Position
<1> QED
  BY <1>1, <1>2, <1>3, <1>4, <1>5, <1>6, <1>7, <1>8 DEF Next

(* The controller reads within the report, and a name is in its dictionary *)
(* once, whatever the program and the report.                              *)
THEOREM ControllerTyped == Spec => []TypeOK
<1>1. TypeInv => TypeOK
  <2> SUFFICES ASSUME TypeInv PROVE TypeOK
    OBVIOUS
  <2>1. /\ prog \in Programs /\ report \in Reports
        /\ phase \in {"clone", "update", "json", "packet", "parse", "seed", "done"}
        /\ outcome \in {"none", "incomplete", "unknown", "exception", "seed"}
        /\ read \in 0..Len(report)
        /\ \A i, j \in DOMAIN headers : headers[i].key = headers[j].key => i = j
    BY DEF TypeInv, Progress, Position, Once
  <2>2. current \in {Ingress, Nothing} \cup NamesOf(parsers)
    <3>1. CASE phase = "clone"
      BY <2>1, <3>1, ProgFacts DEF TypeInv, Progress
    <3>2. CASE phase = "update"
      <4>1. IsProgram(prog) /\ Shaped(prog.parsers) /\ parsers = Copied(prog.parsers) /\ current = Start
        BY <2>1, <3>2, ProgFacts DEF TypeInv, Progress
      <4>2. PICK i \in 1..Len(prog.parsers) : prog.parsers[i].name = Start
        BY <4>1 DEF Shaped
      <4>3. 2 * i - 1 \in 1..(2 * Len(prog.parsers)) /\ (2 * i - 1) % 2 = 1 /\ ((2 * i - 1) + 1) \div 2 = i
        <5>1. Len(prog.parsers) \in Nat
          BY <4>1 DEF Shaped
        <5> QED
          BY <5>1
      <4> DEFINE j == 2 * i - 1
      <4>4. Copied(prog.parsers)[j] = prog.parsers[(j + 1) \div 2] /\ j \in DOMAIN Copied(prog.parsers)
        BY <4>3 DEF Copied
      <4> HIDE DEF j
      <4>5. Copied(prog.parsers)[j].name = Start
        BY <4>2, <4>3, <4>4 DEF j
      <4> QED
        BY <4>1, <4>4, <4>5 DEF NamesOf
    <3>3. CASE phase \in {"json", "packet", "parse", "seed", "done"}
      BY <3>3 DEF TypeInv, Progress, Position
    <3> QED
      BY <2>1, <3>1, <3>2, <3>3
  <2>3. NamesOf(parsers) = {p.name : p \in Range(parsers)}
    BY DEF NamesOf, Range
  <2> QED
    BY <2>1, <2>2, <2>3 DEF TypeOK
<1> QED
  BY <1>1, TypeInit, TypeStep, PTL DEF Spec

-----------------------------------------------------------------------------
(* What a state selects on has been extracted: on every way to it, by the  *)
(* sets of states that are reached without.                                *)

Passed(ps, h, ns, s, names) ==
  /\ s \in NamesOf(ps) => s \in ns \/ h \in names
  /\ \A t \in NamesOf(ps) : s = Clone(t) => t \in ns \/ Clone(h) \in names
Ways(p, s, names) == \A h \in Plain : \A ns \in Without(p.parsers, h) : Passed(p.parsers, h, ns, s, names)

LEMMA WaysStart ==
  ASSUME NEW p, IsProgram(p)
  PROVE  Ways(p, Start, {})
<1> SUFFICES ASSUME NEW h \in Plain, NEW ns \in Without(p.parsers, h)
             PROVE  Passed(p.parsers, h, ns, Start, {})
  BY DEF Ways
<1>1. Start \in ns
  BY DEF Without
<1>2. NamesOf(p.parsers) \subseteq Plain
  BY ProgramShaped
<1>3. \A t \in NamesOf(p.parsers) : Start # Clone(t)
  BY <1>2, CloneFacts
<1> QED
  BY <1>1, <1>3 DEF Passed

LEMMA WaysStep ==
  ASSUME NEW p, IsProgram(p), NEW s \in NamesOf(Doubled(p.parsers)), NEW names, NEW more, Ways(p, s, names),
         names \subseteq more,
         \A i \in 1..Len(Named(Doubled(p.parsers), s).extracts) : Named(Doubled(p.parsers), s).extracts[i].header \in more,
         NEW i \in 1..Len(Named(Doubled(p.parsers), s).cases)
  PROVE  Ways(p, Named(Doubled(p.parsers), s).cases[i].to, more)
<1> DEFINE ps == p.parsers
           D == Doubled(ps)
           q == Named(D, s)
           to == q.cases[i].to
<1> SUFFICES ASSUME NEW h \in Plain, NEW ns \in Without(ps, h)
             PROVE  Passed(ps, h, ns, to, more)
  BY DEF Ways
<1>1. Passed(ps, h, ns, s, names)
  BY DEF Ways
<1>2. /\ NamesOf(D) = NamesOf(ps) \cup {Clone(t) : t \in NamesOf(ps)}
      /\ \A t \in NamesOf(ps) : Named(D, t) = Redirected(Named(ps, t)) /\ Named(D, Clone(t)) = MakeCopy(Named(ps, t))
  BY DoubledShaped
<1>3. PICK t \in NamesOf(ps) : s = t \/ s = Clone(t)
  BY <1>2
<1> DEFINE o == Named(ps, t)
<1>4. /\ Shaped(ps) /\ NamesOf(ps) \subseteq Plain /\ o \in Range(ps)
      /\ \A j \in DOMAIN o.extracts : o.extracts[j].header \in Plain
  BY ProgramShaped
<1>5. /\ Start \in ns
      /\ \A r \in Range(ps) : r.name \in ns /\ h \notin Headers(r) => Targets(r) \subseteq ns \cup {Ingress}
  BY DEF Without
<1>6. /\ \A j \in 1..Len(q.extracts) : q.extracts[j].header \in more
      /\ i \in 1..Len(q.cases)
  OBVIOUS
<1> HIDE DEF ps, D
<1>7. /\ o \in Parser /\ o.name = t /\ t \in Plain /\ Ingress \notin NamesOf(ps) /\ Start \in NamesOf(ps)
      /\ \A j \in DOMAIN o.cases : o.cases[j].to \in NamesOf(ps) \cup {Ingress}
  BY <1>4 DEF Shaped
<1>8. q = IF s = t THEN Redirected(o) ELSE MakeCopy(o)
  BY <1>2, <1>3
<1> HIDE DEF o, q
<1>9. /\ DOMAIN o.cases = 1..Len(o.cases) /\ DOMAIN o.extracts = 1..Len(o.extracts)
  <2>1. o.cases \in Seq(Branch) /\ o.extracts \in Seq(Extract)
    BY <1>7 DEF Parser
  <2> QED
    BY <2>1
<1>10. Len(q.cases) = Len(o.cases) /\ Len(q.extracts) = Len(o.extracts)
  BY <1>7, <1>8, CopyFacts
<1> DEFINE x == o.cases[i].to
<1>11. i \in 1..Len(o.cases) /\ x \in NamesOf(ps) \cup {Ingress} /\ x \in Targets(o)
  BY <1>6, <1>7, <1>9, <1>10 DEF Targets, Range
<1>12. to = IF s = t THEN (IF x = Ingress THEN StartClone ELSE x) ELSE CloneOf(x)
  BY <1>7, <1>8, <1>11, CopyCases
<1>13. /\ t \in ns /\ h \notin Headers(o) => x \in ns \cup {Ingress}
  BY <1>4, <1>5, <1>7, <1>11
<1>14. ASSUME h \in Headers(o) PROVE IF s = t THEN h \in more ELSE Clone(h) \in more
  <2>1. PICK j \in 1..Len(o.extracts) : o.extracts[j].header = h
    BY <1>9, <1>14 DEF Headers, Range
  <2>2. CASE s = t
    <3>1. q.extracts = o.extracts
      BY <1>7, <1>8, <2>2, CopyFacts
    <3> QED
      BY <1>6, <2>1, <2>2, <3>1
  <2>3. CASE s # t
    <3>1. MakeCopy(o).extracts[j] = [header |-> Clone(o.extracts[j].header), next |-> o.extracts[j].next]
      BY <1>7, CopyFacts
    <3>2. q.extracts[j].header = Clone(h)
      BY <1>8, <2>1, <2>3, <3>1
    <3>3. q.extracts[j].header \in more
      BY <1>6, <1>10
    <3> QED
      BY <2>3, <3>2, <3>3
  <2> QED
    BY <2>2, <2>3
<1> HIDE DEF to, x
<1>15. \A y \in NamesOf(ps) : /\ y \in Plain /\ Clone(y) \notin Plain
                              /\ \A z \in NamesOf(ps) : Clone(y) = Clone(z) => y = z
  BY <1>4, CloneFacts
<1>16. Start \in Plain /\ Ingress \in Plain /\ StartClone = Clone(Start)
  BY CloneFacts
<1>17. CASE s = t
  <2>1. t \in ns \/ h \in more
    BY <1>1, <1>17, names \subseteq more DEF Passed
  <2>2. CASE x = Ingress
    <3>1. to = Clone(Start)
      BY <1>12, <1>16, <1>17, <2>2
    <3> QED
      BY <1>5, <1>7, <1>15, <3>1 DEF Passed
  <2>3. CASE x # Ingress
    <3>1. to = x /\ x \in NamesOf(ps)
      BY <1>11, <1>12, <1>17, <2>3
    <3>2. x \in ns \/ h \in more
      BY <1>13, <1>14, <1>17, <2>1, <2>3
    <3> QED
      BY <1>15, <3>1, <3>2 DEF Passed
  <2> QED
    BY <2>2, <2>3
<1>18. CASE s # t
  <2>1. s = Clone(t)
    BY <1>3, <1>18
  <2>2. t \in ns \/ Clone(h) \in more
    BY <1>1, <2>1, names \subseteq more DEF Passed
  <2>3. CASE x = Ingress
    <3>1. to = Ingress
      BY <1>12, <1>18, <2>3 DEF CloneOf
    <3> QED
      BY <1>7, <1>15, <1>16, <3>1 DEF Passed
  <2>4. CASE x # Ingress
    <3>1. to = Clone(x) /\ x \in NamesOf(ps)
      BY <1>11, <1>12, <1>18, <2>4 DEF CloneOf
    <3>2. x \in ns \/ Clone(h) \in more
      BY <1>13, <1>14, <1>18, <2>2, <2>4
    <3> QED
      BY <1>15, <3>1, <3>2 DEF Passed
  <2> QED
    BY <2>3, <2>4
<1> QED
  BY <1>17, <1>18

LEMMA FieldFound ==
  ASSUME NEW p, IsProgram(p), Tidy(p), NEW s \in NamesOf(Doubled(p.parsers)), NEW names, Ways(p, s, names),
         Named(Doubled(p.parsers), s).select.kind = "field",
         \A i \in 1..Len(Named(Doubled(p.parsers), s).extracts) : Named(Doubled(p.parsers), s).extracts[i].header \in names
  PROVE  Named(Doubled(p.parsers), s).select.header \in names
<1> DEFINE ps == p.parsers
           D == Doubled(ps)
           q == Named(D, s)
<1>1. \A h \in Plain : \A ns \in Without(ps, h) : Passed(ps, h, ns, s, names)
  BY DEF Ways
<1>2. /\ NamesOf(D) = NamesOf(ps) \cup {Clone(t) : t \in NamesOf(ps)}
      /\ \A t \in NamesOf(ps) : Named(D, t) = Redirected(Named(ps, t)) /\ Named(D, Clone(t)) = MakeCopy(Named(ps, t))
  BY DoubledShaped
<1>3. PICK t \in NamesOf(ps) : s = t \/ s = Clone(t)
  BY <1>2
<1> DEFINE o == Named(ps, t)
<1>4. /\ Shaped(ps) /\ o.select.header \in Plain /\ Selects(ps, o)
  BY ProgramShaped DEF Tidy
<1> SUFFICES q.select.header \in names
  OBVIOUS
<1>5. q.select.kind = "field" /\ \A i \in 1..Len(q.extracts) : q.extracts[i].header \in names
  OBVIOUS
<1> HIDE DEF ps, D
<1>6. o \in Parser /\ o.name = t
  BY <1>4 DEF Shaped
<1>7. q = IF s = t THEN Redirected(o) ELSE MakeCopy(o)
  BY <1>2, <1>3
<1> HIDE DEF o, q
<1>8. o.select \in Select /\ DOMAIN o.extracts = 1..Len(o.extracts)
  <2>1. o.select \in Select /\ o.extracts \in Seq(Extract)
    BY <1>6 DEF Parser
  <2> QED
    BY <2>1
<1> DEFINE h == o.select.header
<1>9. /\ o.select.kind = "field" /\ Len(q.extracts) = Len(o.extracts)
      /\ q.select = IF s = t THEN o.select ELSE SelectCopy(o.select)
  BY <1>5, <1>6, <1>7, <1>8, CopyFacts, SelectCopyKind
<1>10. q.select.header = IF s = t THEN h ELSE Clone(h)
  <2>1. SelectCopy(o.select).header = Clone(h)
    BY <1>8, <1>9 DEF SelectCopy, Select
  <2> QED
    BY <1>9, <2>1
<1>11. h \in Headers(o) \/ \E ns \in Without(ps, h) : t \notin ns
  BY <1>4, <1>6, <1>9 DEF Selects
<1>12. CASE h \in Headers(o)
  <2>1. PICK j \in 1..Len(o.extracts) : o.extracts[j].header = h
    BY <1>8, <1>12 DEF Headers, Range
  <2>2. q.extracts[j].header = IF s = t THEN h ELSE Clone(h)
    <3>1. MakeCopy(o).extracts[j] = [header |-> Clone(o.extracts[j].header), next |-> o.extracts[j].next]
      BY <1>6, CopyFacts
    <3>2. MakeCopy(o).extracts[j].header = Clone(h)
      BY <2>1, <3>1
    <3> QED
      BY <1>6, <1>7, <2>1, <3>2, CopyFacts
  <2> QED
    BY <1>5, <1>9, <1>10, <2>1, <2>2
<1>13. CASE \E ns \in Without(ps, h) : t \notin ns
  <2>1. PICK ns \in Without(ps, h) : t \notin ns
    BY <1>13
  <2>2. Passed(ps, h, ns, s, names)
    BY <1>1, <1>4
  <2> QED
    BY <1>3, <1>10, <2>1, <2>2 DEF Passed
<1> QED
  BY <1>11, <1>12, <1>13

-----------------------------------------------------------------------------
(* One round of a program that is supported.                               *)

LEMMA TidyTransitions ==
  ASSUME NEW ps, Shaped(ps), NEW s \in NamesOf(ps), NEW insts, TidyParser(insts, Named(ps, s))
  PROVE  LET q == Named(ps, s)
             ts == Transitions(q)
         IN  /\ s \in DOMAIN Machine(ps).transitions /\ Machine(ps).transitions[s] = ts
             /\ Len(q.cases) \in 1..Len(q.cases) /\ Machine(ps).defaults[s] = q.cases[Len(q.cases)].to
             /\ Machine(ps).extract[s] = P4Extracts(q) /\ s \in DOMAIN Machine(ps).extract
             /\ Conditional(ts) = {j \in 1..(Len(q.cases) - 1) : q.select.kind # "port"}
             /\ \A i \in Conditional(ts) :
                  /\ i \in 1..Len(q.cases) /\ i # Len(q.cases) /\ q.cases[i].value # Default
                  /\ ts[i].to = q.cases[i].to /\ ts[i].select = q.select /\ ts[i].value = q.cases[i].value
                  /\ ts[i].to # s /\ q.select.kind \in {"field", "latest", "current"}
<1> DEFINE q == Named(ps, s)
           ts == Transitions(q)
           L == Len(q.cases)
<1>1. /\ q \in Parser /\ q.name = s /\ q.cases # <<>>
      /\ \A i \in DOMAIN q.cases : q.select.kind = "none" => q.cases[i].value = Default
  BY DEF Shaped
<1>2. /\ q.name = Start => q.extracts = <<>>
      /\ \A i \in 1..L : /\ q.cases[i].value = Default <=> i = L
                         /\ q.cases[i].to = q.name => i = L
  BY DEF TidyParser
<1>3. /\ s \in DOMAIN Machine(ps).extract /\ Machine(ps).extract[s] = Extracts(q)
      /\ s \in DOMAIN Machine(ps).transitions <=> DOMAIN ts # {}
      /\ s \in DOMAIN Machine(ps).transitions =>
           /\ Machine(ps).transitions[s] = ts
           /\ Machine(ps).defaults[s] = IF DefaultsOf(ts) = {} THEN Nothing ELSE ts[Max(DefaultsOf(ts))].to
  BY MachineIs
<1> HIDE DEF q
<1>4. /\ q.extracts \in Seq(Extract) /\ q.cases \in Seq(Branch) /\ q.select.kind \in {"none", "port", "field", "latest", "current"}
  BY <1>1 DEF Parser, Select
<1>5. DOMAIN q.cases = 1..L /\ L \in Nat /\ L \in 1..L
  <2>1. L # 0
    BY <1>1, <1>4, EmptySeq
  <2> QED
    BY <1>4, <2>1
<1> HIDE DEF L
<1>6. /\ DOMAIN ts = {j \in 1..L : q.select.kind = "port" => q.cases[j].value = Default}
      /\ \A i \in DOMAIN ts : ts[i].to = q.cases[i].to /\ ts[i].select = q.select /\ ts[i].value = q.cases[i].value
      /\ DefaultsOf(ts) = {j \in 1..L : q.cases[j].value = Default}
  BY <1>1, TransitionsIs DEF L
<1> HIDE DEF ts
<1>7. DefaultsOf(ts) = {L} /\ L \in DOMAIN ts
  BY <1>2, <1>5, <1>6
<1>8. Max(DefaultsOf(ts)) = L
  <2>1. DefaultsOf(ts) \in SUBSET (0..L) /\ DefaultsOf(ts) # {}
    BY <1>5, <1>7
  <2>2. Max(DefaultsOf(ts)) \in DefaultsOf(ts)
    BY <1>5, <2>1, MaxIs
  <2> QED
    BY <1>7, <2>2
<1>9. Machine(ps).defaults[s] = q.cases[L].to /\ s \in DOMAIN Machine(ps).transitions
      /\ Machine(ps).transitions[s] = ts
  BY <1>3, <1>6, <1>7, <1>8
<1>10. Conditional(ts) = {j \in 1..(L - 1) : q.select.kind # "port"}
  <2>1. Conditional(ts) = DOMAIN ts \ {L}
    BY <1>7 DEF Conditional
  <2>2. ASSUME NEW j \in 1..L, j # L PROVE j \in 1..(L - 1) /\ q.cases[j].value # Default
    BY <1>2, <1>5, <2>2 DEF L
  <2>3. \A j \in 1..(L - 1) : j \in 1..L /\ j # L
    BY <1>5
  <2> QED
    BY <1>6, <2>1, <2>2, <2>3
<1>11. ASSUME NEW i \in Conditional(ts)
       PROVE  /\ i \in 1..L /\ i # L /\ q.cases[i].value # Default /\ i \in DOMAIN ts
              /\ q.cases[i].to # s /\ q.select.kind \in {"field", "latest", "current"}
  <2>1. i \in 1..L /\ i # L /\ q.select.kind # "port"
    BY <1>5, <1>10
  <2>2. i \in DOMAIN ts
    BY DEF Conditional
  <2> QED
    BY <1>1, <1>2, <1>4, <1>5, <2>1, <2>2 DEF q, L
<1>12. Extracts(q) = P4Extracts(q)
  <2> DEFINE v == [header |-> Visited, next |-> 0]
  <2> HIDE DEF v
  <2>1. CASE q.name = Start
    <3>1. q.extracts = <<>>
      BY <1>1, <1>2, <2>1 DEF q
    <3>2. Extracts(q) = <<>> \o <<v>> /\ P4Extracts(q) = <<v>> \o <<>>
      BY <2>1, <3>1 DEF Extracts, P4Extracts, v
    <3>3. <<>> \o <<v>> = <<v>> \o <<>>
      OBVIOUS
    <3> QED
      BY <3>2, <3>3
  <2>2. CASE q.name # Start
    <3>1. Extracts(q) = q.extracts \o <<>> /\ P4Extracts(q) = <<>> \o q.extracts
      BY <2>2 DEF Extracts, P4Extracts
    <3> DEFINE es == q.extracts
    <3>2. es \in Seq(Extract)
      BY <1>4
    <3> HIDE DEF es
    <3>3. es \o <<>> = <<>> \o es
      BY <3>2
    <3> QED
      BY <3>1, <3>3 DEF es
  <2> QED
    BY <2>1, <2>2
<1> QED
  BY <1>3, <1>5, <1>6, <1>9, <1>10, <1>11, <1>12 DEF q, L, ts

Names(hs) == {k[1] : k \in Keys(hs)}
Flat(hs) == \A k \in Keys(hs) : k[2] = 0

LEMMA NamesKeys ==
  ASSUME NEW hs \in Seq(Extraction), Flat(hs), NEW h \in Names(hs)
  PROVE  /\ <<h, 0>> \in Keys(hs)
         /\ \E i \in 1..Len(hs) : hs[i].key = <<h, 0>>
<1>1. PICK k \in Keys(hs) : k[1] = h
  BY DEF Names
<1>2. DOMAIN hs = 1..Len(hs)
  OBVIOUS
<1>3. PICK i \in 1..Len(hs) : hs[i].key = k
  BY <1>2 DEF Keys
<1>4. k \in Name \X {0, 1} /\ k[2] = 0
  <2>1. hs[i] \in Extraction
    BY <1>2
  <2> QED
    BY <1>3, <2>1 DEF Extraction, Flat
<1>5. k = <<h, 0>>
  BY <1>1, <1>4
<1> QED
  BY <1>3, <1>5

(* The state the controller is in, as a parser, and what it reads there.   *)
Place == Named(Doubled(prog.parsers), current)
Read == AddHeaders(P4Extracts(Place))
Guarded == Conditional(Transitions(Place))
Takers == {i \in Guarded : Seen(Place.select, Read) = Value(Place.cases[i].value)}
Blind == Guarded # {} /\ Seen(Place.select, Read) = -1

LEMMA Round ==
  ASSUME Progress, Position, Tidy(prog), ParseState, current \in NamesOf(Doubled(prog.parsers))
  PROVE  /\ IsReading(Read) /\ Place \in Parser /\ TidyParser(Instances(prog), Place) /\ Place.name = current
         /\ P4Extracts(Place) \in Seq(Extract)
         /\ \A i \in 1..Len(P4Extracts(Place)) : Laid(P4Extracts(Place)[i]) /\ P4Extracts(Place)[i].next = 0
         /\ Read.fault = IF read + Len(P4Extracts(Place)) > Len(report) THEN "incomplete" ELSE "none"
         /\ read' = Read.read /\ headers' = Read.headers /\ latest' = Read.latest
         /\ UNCHANGED <<prog, report>>
         /\ Read.fault # "none" => phase' = "done" /\ outcome' = "incomplete" /\ UNCHANGED current
         /\ Read.fault = "none" /\ Blind => phase' = "done" /\ outcome' = "exception" /\ UNCHANGED current
         /\ Read.fault = "none" /\ ~Blind =>
              /\ current' = Place.cases[IF Takers # {} THEN Min(Takers) ELSE Len(Place.cases)].to
              /\ UNCHANGED <<phase, outcome>>
<1> DEFINE D == Doubled(prog.parsers)
           ts == machine.transitions[current]
           es == P4Extracts(Place)
           taken == Matching(ts, Read)
           blind == \E i \in Conditional(ts) : Seen(ts[i].select, Read) = -1
<1>1. /\ IsProgram(prog) /\ report \in Seq(Nat) /\ Len(report) \in Nat /\ Shaped(D)
      /\ machine = Machine(D) /\ known = Instances(prog) /\ phase = "parse"
  BY ProgFacts DEF Progress, ParseState
<1>2. TidyParser(Instances(prog), Place) /\ Place.name = current
  BY <1>1, DoubledTidy DEF Place
<1> HIDE DEF D
<1>3. /\ current \in DOMAIN machine.transitions /\ ts = Transitions(Place)
      /\ Len(Place.cases) \in 1..Len(Place.cases) /\ machine.defaults[current] = Place.cases[Len(Place.cases)].to
      /\ machine.extract[current] = es /\ current \in DOMAIN machine.extract
      /\ \A i \in Conditional(Transitions(Place)) :
           /\ i \in 1..Len(Place.cases)
           /\ Transitions(Place)[i].to = Place.cases[i].to /\ Transitions(Place)[i].select = Place.select
           /\ Transitions(Place)[i].value = Place.cases[i].value
           /\ Transitions(Place)[i].to # current
  BY <1>1, <1>2, TidyTransitions DEF Place, D
<1>4. /\ Place \in Parser /\ es \in Seq(Extract)
  BY <1>2, ExtractsTyped DEF TidyParser
<1>5. Here = es /\ Read = AddHeaders(Here)
  BY <1>3 DEF Here, Read
<1>6. IsReading(Begun) /\ IsReading(Read)
  BY <1>1, <1>5, ReadingTyped
<1>7. ASSUME NEW i \in 1..Len(es) PROVE Laid(es[i]) /\ es[i].next = 0
  <2> DEFINE v == [header |-> Visited, next |-> 0]
  <2>1. v.next = 0 /\ <<v.header[1], 0>> = Visited
    BY CloneFacts
  <2> HIDE DEF v
  <2>2. /\ Place.name = Start => Place.extracts = <<>>
        /\ \A j \in 1..Len(Place.extracts) : /\ Place.extracts[j].next = 0
                                             /\ <<Place.extracts[j].header[1], 0>> \in Instances(prog)
    BY <1>2 DEF TidyParser
  <2>3. CASE Place.name = Start
    <3>1. es = <<v>> \o <<>>
      BY <2>2, <2>3 DEF P4Extracts, v
    <3>2. <<v>> \o <<>> = <<v>>
      OBVIOUS
    <3>3. es[i] = v
      BY <3>1, <3>2
    <3> HIDE DEF es
    <3> QED
      BY <2>1, <3>3 DEF Laid
  <2>4. CASE Place.name # Start
    <3> DEFINE xs == Place.extracts
    <3>1. es = <<>> \o xs /\ xs \in Seq(Extract)
      BY <1>4, <2>4 DEF P4Extracts, Parser
    <3>2. es = xs
      <4> HIDE DEF xs
      <4> QED
        BY <3>1
    <3>3. es[i].next = 0 /\ <<es[i].header[1], 0>> \in Instances(prog)
      BY <2>2, <3>2
    <3> QED
      BY <1>1, <3>3 DEF Laid
  <2> QED
    BY <2>3, <2>4
<1>8. Read.fault = IF read + Len(es) > Len(report) THEN "incomplete" ELSE "none"
  BY <1>1, <1>4, <1>6, <1>7, AddHeadersFacts DEF Read
<1> HIDE DEF es, ts
<1>9. taken = Takers
  BY <1>3 DEF Matching, Takers, Guarded
<1>10. blind <=> Blind
  BY <1>3 DEF Blind, Guarded
<1>11. /\ read' = Read.read /\ headers' = Read.headers /\ latest' = Read.latest
       /\ UNCHANGED <<prog, report>>
       /\ CASE Read.fault # "none" -> Fail(Read.fault)
            [] Read.fault = "none" /\ (current \notin DOMAIN machine.transitions \/ blind) -> Fail("exception")
            [] OTHER ->
                 /\ current' = IF taken # {} /\ ts[Min(taken)].to # current THEN ts[Min(taken)].to
                               ELSE machine.defaults[current]
                 /\ UNCHANGED <<phase, outcome>>
  <2> HIDE DEF blind, taken
  <2>1. Read = AddHeaders(IF current \in DOMAIN machine.extract THEN machine.extract[current] ELSE <<>>)
    BY <1>5 DEF Here
  <2> HIDE DEF Read
  <2> QED
    BY <2>1 DEF ParseState, blind, taken, ts
<1> HIDE DEF taken, blind
<1>12. Takers # {} => Min(Takers) \in Takers
  <2>1. Takers \in SUBSET Nat
    BY <1>3 DEF Takers, Guarded
  <2> QED
    BY <2>1, MinIs
<1>13. Takers # {} => ts[Min(Takers)].to # current /\ ts[Min(Takers)].to = Place.cases[Min(Takers)].to
  BY <1>3, <1>12 DEF Takers, Guarded
<1>14. /\ Read.fault # "none" => phase' = "done" /\ outcome' = "incomplete" /\ UNCHANGED current
       /\ Read.fault = "none" /\ Blind => phase' = "done" /\ outcome' = "exception" /\ UNCHANGED current
       /\ Read.fault = "none" /\ ~Blind =>
            /\ current' = IF taken # {} /\ ts[Min(taken)].to # current THEN ts[Min(taken)].to
                          ELSE machine.defaults[current]
            /\ UNCHANGED <<phase, outcome>>
  <2> HIDE DEF Read, Blind, Fail
  <2>1. /\ Read.fault # "none" => Fail("incomplete")
        /\ Read.fault = "none" /\ Blind => Fail("exception")
        /\ Read.fault = "none" /\ ~Blind =>
            /\ current' = IF taken # {} /\ ts[Min(taken)].to # current THEN ts[Min(taken)].to
                          ELSE machine.defaults[current]
            /\ UNCHANGED <<phase, outcome>>
    BY <1>3, <1>8, <1>10, <1>11
  <2> QED
    BY <2>1 DEF Fail
<1>15. Read.fault = "none" /\ ~Blind =>
         current' = Place.cases[IF Takers # {} THEN Min(Takers) ELSE Len(Place.cases)].to
  BY <1>3, <1>9, <1>13, <1>14
<1> QED
  BY <1>2, <1>4, <1>6, <1>7, <1>8, <1>11, <1>14, <1>15 DEF es

(* A round goes on on a way that the program has; only a look ahead at     *)
(* nothing leaves it without an answer.                                    *)
LEMMA WaysMore ==
  ASSUME NEW p, NEW s, NEW names, NEW more, Ways(p, s, names), names \subseteq more
  PROVE  Ways(p, s, more)
BY DEF Ways, Passed

LEMMA NamesMore ==
  ASSUME NEW hs, NEW gs, Keys(hs) \subseteq Keys(gs)
  PROVE  Names(hs) \subseteq Names(gs)
BY DEF Names

LEMMA PlaceIs ==
  ASSUME prog \in Programs, report \in Reports, Tidy(prog), current \in NamesOf(Doubled(prog.parsers))
  PROVE  /\ Place \in Parser /\ TidyParser(Instances(prog), Place) /\ Place.name = current
         /\ Place.extracts \in Seq(Extract) /\ DOMAIN Place.extracts = 1..Len(Place.extracts)
         /\ Place.cases \in Seq(Branch) /\ Len(Place.cases) \in 1..Len(Place.cases)
         /\ \A i \in 1..Len(Place.cases) : Place.cases[i].to \in NamesOf(Doubled(prog.parsers)) \cup {Ingress}
         /\ P4Extracts(Place) \in Seq(Extract)
         /\ \A i \in 1..Len(Place.extracts) : \E j \in 1..Len(P4Extracts(Place)) : P4Extracts(Place)[j] = Place.extracts[i]
<1>1. IsProgram(prog) /\ Shaped(Doubled(prog.parsers))
  BY ProgFacts
<1>2. TidyParser(Instances(prog), Place) /\ Place.name = current
  BY <1>1, DoubledTidy DEF Place
<1>3. /\ \A i \in DOMAIN Place.cases : Place.cases[i].to \in NamesOf(Doubled(prog.parsers)) \cup {Ingress}
      /\ Place.cases # <<>>
  BY <1>1 DEF Place, Shaped
<1>4. Place \in Parser /\ Place.extracts \in Seq(Extract) /\ Place.cases \in Seq(Branch)
  BY <1>2 DEF TidyParser, Parser
<1> HIDE DEF Place
<1>5. DOMAIN Place.extracts = 1..Len(Place.extracts) /\ DOMAIN Place.cases = 1..Len(Place.cases)
      /\ Len(Place.cases) \in Nat /\ Len(Place.cases) # 0
  BY <1>3, <1>4, EmptySeq
<1>6. ASSUME NEW i \in 1..Len(Place.extracts)
      PROVE  \E j \in 1..Len(P4Extracts(Place)) : P4Extracts(Place)[j] = Place.extracts[i]
  <2> DEFINE xs == Place.extracts
  <2>1. Place.name # Start
    <3>1. Place.name = Start => Place.extracts = <<>>
      BY <1>2 DEF TidyParser
    <3> QED
      BY <3>1
  <2>2. P4Extracts(Place) = <<>> \o xs /\ xs \in Seq(Extract)
    BY <1>4, <2>1 DEF P4Extracts
  <2> HIDE DEF xs
  <2>3. P4Extracts(Place) = xs
    BY <2>2
  <2> QED
    BY <2>3 DEF xs
<1> QED
  BY <1>2, <1>3, <1>4, <1>5, <1>6, ExtractsTyped

LEMMA WaysRound ==
  ASSUME Progress, Position, Tidy(prog), ParseState, current \in NamesOf(Doubled(prog.parsers)),
         Ways(prog, current, Names(headers)), Flat(headers)
  PROVE  /\ current' \in NamesOf(Doubled(prog.parsers)) \cup {Ingress}
         /\ Ways(prog, current', Names(headers')) /\ Flat(headers')
         /\ Read.fault = "none" /\ Blind => Place.select.kind = "current" /\ Read.read >= Len(report)
         /\ Read.fault = "none" /\ Guarded # {} /\ Place.select.kind = "field" =>
              \E i \in 1..Len(Read.headers) : Read.headers[i].key = <<Place.select.header, 0>>
<1> DEFINE D == Doubled(prog.parsers)
           es == P4Extracts(Place)
<1>1. /\ prog \in Programs /\ report \in Reports /\ IsProgram(prog) /\ report \in Seq(Nat) /\ Shaped(D)
      /\ Len(report) \in Nat
  BY ProgFacts DEF Progress
<1>2. /\ IsReading(Read) /\ es \in Seq(Extract) /\ \A i \in 1..Len(es) : es[i].next = 0
      /\ headers' = Read.headers
      /\ Read.fault # "none" => UNCHANGED current
      /\ Read.fault = "none" /\ Blind => UNCHANGED current
      /\ Read.fault = "none" /\ ~Blind =>
           current' = Place.cases[IF Takers # {} THEN Min(Takers) ELSE Len(Place.cases)].to
  BY Round
<1>3. /\ Place.extracts \in Seq(Extract)
      /\ Len(Place.cases) \in 1..Len(Place.cases)
      /\ \A i \in 1..Len(Place.cases) : Place.cases[i].to \in NamesOf(D) \cup {Ingress}
      /\ \A i \in 1..Len(Place.extracts) : \E j \in 1..Len(es) : es[j] = Place.extracts[i]
  BY <1>1, PlaceIs
<1>4. IsReading(Begun)
  BY ReadingTyped DEF ParseState
<1>5. /\ Keys(headers) \subseteq Keys(Read.headers)
      /\ \A x \in Keys(Read.headers) : x \in Keys(headers) \/ \E i \in 1..Len(es) : x = Key(es[i])
      /\ Read.fault = "none" => \A i \in 1..Len(es) : Key(es[i]) \in Keys(Read.headers)
  BY <1>1, <1>2, <1>4, AddHeadersFacts DEF Read
<1>6. Guarded = {j \in 1..(Len(Place.cases) - 1) : Place.select.kind # "port"}
      /\ \A i \in Guarded : i \in 1..Len(Place.cases) /\ Place.select.kind \in {"field", "latest", "current"}
  <2>1. TidyParser(Instances(prog), Place)
    BY <1>1, PlaceIs
  <2> QED
    BY <1>1, <2>1, TidyTransitions DEF Guarded, Place
<1> HIDE DEF es
<1>7. Names(headers) \subseteq Names(Read.headers)
  BY <1>5, NamesMore
<1>8. Flat(Read.headers)
  <2>1. \A i \in 1..Len(es) : Key(es[i])[2] = 0
    BY <1>2 DEF Key
  <2> QED
    BY <1>5, <2>1 DEF Flat
<1>9. Takers # {} => Min(Takers) \in 1..Len(Place.cases)
  <2>1. Takers \in SUBSET Nat /\ Takers \subseteq 1..Len(Place.cases)
    BY <1>6 DEF Takers
  <2>2. Takers # {} => Min(Takers) \in Takers
    BY <2>1, MinIs
  <2> QED
    BY <2>1, <2>2
<1>10. ASSUME Read.fault = "none", NEW i \in 1..Len(Place.extracts)
       PROVE  Place.extracts[i].header \in Names(Read.headers)
  <2>1. PICK j \in 1..Len(es) : es[j] = Place.extracts[i]
    BY <1>3
  <2>2. Key(es[j]) \in Keys(Read.headers) /\ Key(es[j])[1] = Place.extracts[i].header
    BY <1>5, <1>10, <2>1 DEF Key
  <2> QED
    BY <2>2 DEF Names
<1>11. ASSUME Read.fault = "none", NEW i \in 1..Len(Place.cases)
       PROVE  Ways(prog, Place.cases[i].to, Names(Read.headers))
  BY <1>1, <1>7, <1>10, <1>11, WaysStep DEF Place
<1>12. Ways(prog, current, Names(Read.headers))
  BY <1>7, WaysMore
<1>13. ASSUME Read.fault = "none", Place.select.kind = "field"
       PROVE  \E i \in 1..Len(Read.headers) : Read.headers[i].key = <<Place.select.header, 0>>
  <2>1. Place.select.header \in Names(Read.headers)
    BY <1>1, <1>10, <1>12, <1>13, FieldFound DEF Place
  <2>2. Read.headers \in Seq(Extraction)
    BY <1>2 DEF IsReading
  <2> QED
    BY <1>8, <2>1, <2>2, NamesKeys
<1>14. ASSUME Read.fault = "none", Blind
       PROVE  Place.select.kind = "current" /\ Read.read >= Len(report)
  <2>1. Place.select.kind \in {"field", "latest", "current"} /\ Seen(Place.select, Read) = -1
    BY <1>6, <1>14 DEF Blind
  <2>2. /\ Read.latest \in Nat /\ Read.read \in 0..Len(report) /\ Read.headers \in Seq(Extraction)
    BY <1>2 DEF IsReading
  <2> HIDE DEF Read, Place
  <2>3. CASE Place.select.kind = "latest"
    <3>1. Seen(Place.select, Read) = Read.latest
      BY <2>3 DEF Seen
    <3> QED
      BY <2>1, <2>2, <3>1
  <2>4. CASE Place.select.kind = "field"
    <3> DEFINE hs == Read.headers
               is == {i \in DOMAIN hs : hs[i].key = <<Place.select.header, 0>>}
    <3>1. Seen(Place.select, Read) = IF is = {} THEN -1 ELSE hs[CHOOSE i \in is : TRUE].word
      BY <2>4 DEF Seen
    <3> HIDE DEF hs
    <3>2. hs \in Seq(Extraction) /\ \E i \in 1..Len(hs) : hs[i].key = <<Place.select.header, 0>>
      BY <1>13, <1>14, <2>2, <2>4 DEF hs
    <3>3. is # {} /\ is \subseteq 1..Len(hs)
      BY <3>2
    <3> HIDE DEF is
    <3>4. (CHOOSE i \in is : TRUE) \in 1..Len(hs)
      BY <3>3
    <3>5. \A i \in 1..Len(hs) : hs[i].word \in Nat
      <4> TAKE i \in 1..Len(hs)
      <4>1. hs[i] \in Extraction
        BY <3>2
      <4> QED
        BY <4>1 DEF Extraction
    <3>6. Seen(Place.select, Read) \in Nat
      BY <3>1, <3>3, <3>4, <3>5
    <3> QED
      BY <2>1, <3>6
  <2>5. CASE Place.select.kind = "current"
    <3>1. Seen(Place.select, Read) = IF Read.read < Len(report) THEN report[Read.read + 1] ELSE -1
      BY <2>5 DEF Seen
    <3>2. Read.read < Len(report) => report[Read.read + 1] \in Nat
      BY <1>1, <2>2
    <3>3. ~(Read.read < Len(report))
      BY <2>1, <3>1, <3>2
    <3> QED
      BY <1>1, <2>2, <2>5, <3>3
  <2> QED
    BY <2>1, <2>3, <2>4, <2>5
<1>15. \/ UNCHANGED current
       \/ Read.fault = "none" /\ \E i \in 1..Len(Place.cases) : current' = Place.cases[i].to
  <2> DEFINE m == IF Takers # {} THEN Min(Takers) ELSE Len(Place.cases)
  <2>1. m \in 1..Len(Place.cases)
    BY <1>3, <1>9
  <2> HIDE DEF m
  <2>2. Read.fault = "none" /\ ~Blind => current' = Place.cases[m].to
    BY <1>2 DEF m
  <2> QED
    BY <1>2, <2>1, <2>2
<1> HIDE DEF Read, Place, Blind, Guarded
<1>16. current' \in NamesOf(D) \cup {Ingress} /\ Ways(prog, current', Names(headers')) /\ Flat(headers')
  BY <1>2, <1>3, <1>8, <1>11, <1>12, <1>15
<1> QED
  BY <1>13, <1>14, <1>16

-----------------------------------------------------------------------------
(* The seed: the headers of the copy.                                      *)

IsClonedUpTo(u, hs, k) ==
  u = [i \in 0..k |-> IF i = 0 THEN <<>>
                      ELSE IF hs[i].key[1][2] = 1 THEN Append(u[i - 1], hs[i]) ELSE u[i - 1]]
ClonedStep(l, h) == IF h.key[1][2] = 1 THEN Append(l, h) ELSE l

LEMMA ClonedUpToExists ==
  ASSUME NEW hs, NEW k \in Nat
  PROVE  \E u : u = [i \in 0..k |-> IF i = 0 THEN <<>> ELSE ClonedStep(u[i - 1], hs[i])]
<1> DEFINE Is(u, n) == u = [i \in 0..n |-> IF i = 0 THEN <<>> ELSE ClonedStep(u[i - 1], hs[i])]
           S == {n \in 0..k : \E u : Is(u, n)}
<1>1. 0 \in S
  <2> DEFINE u == [i \in 0..0 |-> <<>>]
  <2>1. u = [i \in 0..0 |-> IF i = 0 THEN <<>> ELSE ClonedStep(u[i - 1], hs[i])]
    OBVIOUS
  <2> HIDE DEF u
  <2>2. Is(u, 0)
    BY <2>1
  <2> QED
    BY <2>2
<1>2. ASSUME NEW n \in 1..k, n - 1 \in S PROVE n \in S
  <2>1. PICK u : Is(u, n - 1)
    BY <1>2
  <2> DEFINE v == [i \in 0..n |-> IF i = n THEN ClonedStep(u[n - 1], hs[n]) ELSE u[i]]
  <2>2. /\ v = [i \in 0..n |-> v[i]] /\ v[n] = ClonedStep(u[n - 1], hs[n])
        /\ \A i \in 0..(n - 1) : v[i] = u[i]
    OBVIOUS
  <2>3. \A i \in 0..(n - 1) : u[i] = IF i = 0 THEN <<>> ELSE ClonedStep(u[i - 1], hs[i])
    <3> DEFINE w == [i \in 0..(n - 1) |-> IF i = 0 THEN <<>> ELSE ClonedStep(u[i - 1], hs[i])]
    <3>1. u = w
      BY <2>1
    <3>2. \A i \in 0..(n - 1) : w[i] = IF i = 0 THEN <<>> ELSE ClonedStep(u[i - 1], hs[i])
      OBVIOUS
    <3> HIDE DEF w
    <3> QED
      BY <3>1, <3>2
  <2> HIDE DEF v
  <2>4. \A i \in 0..n : v[i] = IF i = 0 THEN <<>> ELSE ClonedStep(v[i - 1], hs[i])
    <3> TAKE i \in 0..n
    <3>1. CASE i = 0
      <4>1. i \in 0..(n - 1)
        BY <3>1
      <4> QED
        BY <2>2, <2>3, <3>1, <4>1
    <3>2. CASE i # 0 /\ i # n
      <4>1. i \in 0..(n - 1) /\ i - 1 \in 0..(n - 1)
        BY <3>2
      <4>2. v[i] = u[i] /\ v[i - 1] = u[i - 1] /\ u[i] = ClonedStep(u[i - 1], hs[i])
        BY <2>2, <2>3, <3>2, <4>1
      <4> QED
        BY <3>2, <4>2
    <3>3. CASE i = n
      <4>1. i # 0 /\ i - 1 \in 0..(n - 1) /\ i - 1 = n - 1
        BY <3>3
      <4>2. v[i - 1] = u[n - 1]
        BY <2>2, <4>1
      <4> QED
        BY <2>2, <3>3, <4>1, <4>2
    <3> QED
      BY <3>1, <3>2, <3>3
  <2>5. v = [i \in 0..n |-> IF i = 0 THEN <<>> ELSE ClonedStep(v[i - 1], hs[i])]
    BY <2>2, <2>4
  <2>6. Is(v, n)
    BY <2>5
  <2> QED
    BY <2>6
<1> HIDE DEF S
<1>3. 0..k \subseteq S
  BY <1>1, <1>2, InductionUpTo
<1> QED
  BY <1>3, k \in 0..k DEF S

LEMMA ClonedIs ==
  ASSUME headers \in Seq(Extraction)
  PROVE  \E u : /\ u[0] = <<>> /\ Cloned = u[Len(headers)]
                /\ \A i \in 1..Len(headers) : u[i] = ClonedStep(u[i - 1], headers[i])
<1> DEFINE k == Len(headers)
           u == CHOOSE f : IsClonedUpTo(f, headers, k)
<1>1. k \in Nat
  OBVIOUS
<1>2. Cloned = u[k]
  BY DEF Cloned, IsClonedUpTo
<1> HIDE DEF k
<1>3. \A f : IsClonedUpTo(f, headers, k) <=>
             f = [i \in 0..k |-> IF i = 0 THEN <<>> ELSE ClonedStep(f[i - 1], headers[i])]
  BY DEF IsClonedUpTo, ClonedStep
<1>4. \E f : IsClonedUpTo(f, headers, k)
  <2>1. \E f : f = [i \in 0..k |-> IF i = 0 THEN <<>> ELSE ClonedStep(f[i - 1], headers[i])]
    BY <1>1, ClonedUpToExists
  <2> QED
    BY <1>3, <2>1
<1>5. IsClonedUpTo(u, headers, k)
  BY <1>4
<1> HIDE DEF u
<1>6. u[0] = <<>> /\ \A i \in 1..k : u[i] = ClonedStep(u[i - 1], headers[i])
  <2> DEFINE w == [i \in 0..k |-> IF i = 0 THEN <<>> ELSE ClonedStep(u[i - 1], headers[i])]
  <2>1. u = w
    BY <1>3, <1>5
  <2>2. w[0] = <<>> /\ \A i \in 1..k : w[i] = ClonedStep(u[i - 1], headers[i])
    BY <1>1
  <2> HIDE DEF w
  <2> QED
    BY <2>1, <2>2
<1> QED
  BY <1>2, <1>6 DEF k

LEMMA ClonedFrom ==
  ASSUME headers \in Seq(Extraction)
  PROVE  /\ Cloned \in Seq(Extraction)
         /\ \A i \in 1..Len(Cloned) : \E j \in 1..Len(headers) : Cloned[i] = headers[j]
<1>1. PICK u : /\ u[0] = <<>> /\ Cloned = u[Len(headers)]
               /\ \A i \in 1..Len(headers) : u[i] = ClonedStep(u[i - 1], headers[i])
  BY ClonedIs
<1> DEFINE k == Len(headers)
           P(l) == l \in Seq(Extraction) /\ \A i \in 1..Len(l) : \E j \in 1..k : l[i] = headers[j]
           S == {n \in 0..k : P(u[n])}
<1>2. k \in Nat /\ \A i \in 1..k : headers[i] \in Extraction
  OBVIOUS
<1>3. 0 \in S
  <2>1. <<>> \in Seq(Extraction) /\ Len(<<>>) = 0
    OBVIOUS
  <2>2. P(<<>>)
    BY <2>1
  <2>3. u[0] = <<>> /\ 0 \in 0..k
    BY <1>1, <1>2
  <2> HIDE DEF P, k
  <2> QED
    BY <2>2, <2>3
<1>4. ASSUME NEW n \in 1..k, n - 1 \in S PROVE n \in S
  <2> DEFINE l == u[n - 1]
             h == headers[n]
  <2>1. P(l) /\ h \in Extraction /\ u[n] = ClonedStep(l, h)
    BY <1>1, <1>2, <1>4
  <2> HIDE DEF l
  <2>2. ASSUME h.key[1][2] = 1 PROVE P(Append(l, h))
    <3>1. /\ Append(l, h) \in Seq(Extraction) /\ Len(Append(l, h)) = Len(l) + 1
          /\ Append(l, h)[Len(l) + 1] = h /\ \A i \in 1..Len(l) : Append(l, h)[i] = l[i]
      BY <2>1, AppendProperties
    <3> DEFINE as == Append(l, h)
    <3> HIDE DEF as
    <3>2. \A i \in 1..Len(as) : i \in 1..Len(l) \/ i = Len(l) + 1
      BY <2>1, <3>1 DEF as
    <3> QED
      BY <2>1, <3>1, <3>2 DEF as
  <2>3. P(u[n])
    BY <2>1, <2>2 DEF ClonedStep
  <2> QED
    BY <2>3
<1> HIDE DEF S
<1>5. 0..k \subseteq S
  BY <1>2, <1>3, <1>4, InductionUpTo
<1> QED
  BY <1>1, <1>2, <1>5 DEF S

LEMMA ClonedTail ==
  ASSUME headers \in Seq(Extraction), NEW m \in 0..Len(headers),
         \A i \in 1..m : headers[i].key[1][2] # 1, \A i \in (m + 1)..Len(headers) : headers[i].key[1][2] = 1
  PROVE  Len(Cloned) = Len(headers) - m /\ \A i \in 1..(Len(headers) - m) : Cloned[i] = headers[m + i]
<1>1. PICK u : /\ u[0] = <<>> /\ Cloned = u[Len(headers)]
               /\ \A i \in 1..Len(headers) : u[i] = ClonedStep(u[i - 1], headers[i])
  BY ClonedIs
<1> DEFINE k == Len(headers)
           P(l, n) == /\ l \in Seq(Extraction)
                      /\ n =< m => l = <<>>
                      /\ n > m => Len(l) = n - m /\ \A i \in 1..(n - m) : l[i] = headers[m + i]
           S == {n \in 0..k : P(u[n], n)}
<1>2. k \in Nat /\ m \in Nat /\ m =< k /\ \A i \in 1..k : headers[i] \in Extraction
  OBVIOUS
<1>3. 0 \in S
  <2>1. <<>> \in Seq(Extraction)
    OBVIOUS
  <2>2. P(<<>>, 0)
    BY <1>2, <2>1
  <2>3. u[0] = <<>> /\ 0 \in 0..k
    BY <1>1, <1>2
  <2> HIDE DEF P, k
  <2> QED
    BY <2>2, <2>3
<1>4. ASSUME NEW n \in 1..k, n - 1 \in S PROVE n \in S
  <2> DEFINE l == u[n - 1]
             h == headers[n]
  <2>1. P(l, n - 1) /\ h \in Extraction /\ u[n] = ClonedStep(l, h)
    BY <1>1, <1>2, <1>4
  <2>2. CASE n =< m
    <3>1. h.key[1][2] # 1 /\ n - 1 =< m
      BY <1>2, <2>2
    <3>2. P(u[n], n)
      BY <1>2, <2>1, <2>2, <3>1 DEF ClonedStep
    <3> QED
      BY <3>2
  <2>3. CASE n > m
    <3>1. h.key[1][2] = 1
      <4>1. n \in (m + 1)..Len(headers)
        BY <1>2, <2>3
      <4> QED
        BY <4>1
    <3>2. Len(l) = (n - 1) - m /\ \A i \in 1..((n - 1) - m) : l[i] = headers[m + i]
      <4>1. CASE n - 1 =< m
        <5>1. n - 1 = m /\ l = <<>> /\ Len(<<>>) = 0
          BY <1>2, <2>1, <2>3, <4>1
        <5> HIDE DEF l
        <5> QED
          BY <1>2, <5>1
      <4>2. CASE n - 1 > m
        BY <2>1, <4>2
      <4> QED
        BY <1>2, <4>1, <4>2
    <3> HIDE DEF l
    <3>3. u[n] = Append(l, h)
      BY <2>1, <3>1 DEF ClonedStep
    <3>4. /\ Append(l, h) \in Seq(Extraction) /\ Len(Append(l, h)) = Len(l) + 1
          /\ Append(l, h)[Len(l) + 1] = h /\ \A i \in 1..Len(l) : Append(l, h)[i] = l[i]
      BY <2>1, AppendProperties
    <3> DEFINE as == Append(l, h)
    <3> HIDE DEF as
    <3>5. Len(l) + 1 = n - m /\ m + (n - m) = n
      BY <1>2, <3>2
    <3>6. \A i \in 1..(n - m) : i \in 1..((n - 1) - m) \/ i = n - m
      BY <1>2
    <3>7. \A i \in 1..(n - m) : as[i] = headers[m + i]
      <4> TAKE i \in 1..(n - m)
      <4>1. CASE i \in 1..((n - 1) - m)
        BY <3>2, <3>4, <4>1 DEF as
      <4>2. CASE i = n - m
        <5>1. as[i] = h /\ m + i = n
          BY <3>4, <3>5, <4>2 DEF as
        <5> QED
          BY <5>1
      <4> QED
        BY <3>6, <4>1, <4>2
    <3>8. P(u[n], n)
      BY <1>2, <2>3, <3>3, <3>4, <3>5, <3>7 DEF as
    <3> QED
      BY <3>8
  <2> QED
    BY <1>2, <2>2, <2>3
<1> HIDE DEF S, P
<1>5. 0..k \subseteq S
  BY <1>2, <1>3, <1>4, InductionUpTo
<1>6. P(Cloned, k)
  BY <1>1, <1>2, <1>5 DEF S
<1>7. CASE k = m
  <2>1. Cloned = <<>> /\ Len(<<>>) = 0
    BY <1>2, <1>6, <1>7 DEF P
  <2>2. Len(Cloned) = 0 /\ k - m = 0
    BY <1>2, <1>7, <2>1
  <2> HIDE DEF k
  <2>3. Len(Cloned) = k - m /\ \A i \in 1..(k - m) : FALSE
    BY <2>2
  <2> QED
    BY <2>3 DEF k
<1>8. CASE k > m
  BY <1>6, <1>8 DEF P
<1> QED
  BY <1>2, <1>7, <1>8

-----------------------------------------------------------------------------
(* Of a supported program, wherever the controller is, it came there on a  *)
(* way the program has, and nothing was raised on it but for a report of   *)
(* no byte or a look past the end of one.                                  *)

Excused ==
  \/ report = <<>>
  \/ /\ read = Len(report) /\ current \in NamesOf(Doubled(prog.parsers))
     /\ Place.select.kind = "current"
WaysInv ==
  Supported =>
    /\ current \in NamesOf(Doubled(prog.parsers)) \cup {Ingress}
    /\ Ways(prog, current, Names(headers)) /\ Flat(headers)
    /\ outcome = "exception" => Excused

LEMMA SeedRaisesNothing ==
  ASSUME Progress, Position, Flat(headers), AddSeed
  PROVE  outcome' = "seed"
<1>1. \A i \in DOMAIN Cloned : Cloned[i].key[2] # 1
  <2> TAKE i \in DOMAIN Cloned
  <2>1. headers \in Seq(Extraction) /\ Cloned \in Seq(Extraction)
    BY ClonedFrom DEF Position
  <2>2. i \in 1..Len(Cloned)
    BY <2>1
  <2>3. PICK j \in 1..Len(headers) : Cloned[i] = headers[j]
    BY <2>1, <2>2, ClonedFrom
  <2>4. j \in DOMAIN headers
    BY <2>1
  <2> QED
    BY <2>3, <2>4 DEF Flat, Keys
<1> QED
  BY <1>1 DEF AddSeed

LEMMA WaysInit == Init => WaysInv
<1> SUFFICES ASSUME Init PROVE WaysInv
  OBVIOUS
<1>1. Progress
  BY TypeInit DEF TypeInv
<1>2. IsProgram(prog) /\ Start \in NamesOf(Doubled(prog.parsers))
  BY <1>1, ProgFacts DEF Progress
<1>3. current = Start /\ headers = <<>> /\ outcome = "none"
  BY DEF Init
<1>4. Keys(headers) = {}
  BY <1>3 DEF Keys
<1>5. Names(headers) = {} /\ Flat(headers)
  BY <1>4 DEF Names, Flat
<1> QED
  BY <1>2, <1>3, <1>5, WaysStart DEF WaysInv

LEMMA WaysKept == TypeInv /\ WaysInv /\ [Next]_vars => WaysInv'
<1> SUFFICES ASSUME Progress, Position, WaysInv, [Next]_vars, Supported' PROVE
      /\ current' \in NamesOf(Doubled(prog'.parsers)) \cup {Ingress}
      /\ Ways(prog', current', Names(headers')) /\ Flat(headers')
      /\ outcome' = "exception" => Excused'
  BY DEF TypeInv, WaysInv
<1>1. UNCHANGED <<prog, report>>
  BY DEF Next, vars, CloneParser, UpdateParserDAG, GenerateParserJson, NewPacket, ParseState, CheckPreamble, AddSeed
<1>2. Supported
  BY <1>1 DEF Supported
<1>3. /\ current \in NamesOf(Doubled(prog.parsers)) \cup {Ingress}
      /\ Ways(prog, current, Names(headers)) /\ Flat(headers)
      /\ outcome = "exception" => Excused
  BY <1>2 DEF WaysInv
<1>4. prog \in Programs /\ report \in Reports /\ Tidy(prog)
  BY <1>2, SupportedIsTidy DEF Progress
<1>5. ASSUME UNCHANGED <<current, headers>>, outcome' \in {"none", "unknown", "seed"} \/ report = <<>>
      PROVE  /\ current' \in NamesOf(Doubled(prog'.parsers)) \cup {Ingress}
             /\ Ways(prog', current', Names(headers')) /\ Flat(headers')
             /\ outcome' = "exception" => Excused'
  BY <1>1, <1>3, <1>5 DEF Excused
<1>6. CASE CloneParser \/ UpdateParserDAG \/ GenerateParserJson \/ NewPacket
  <2>1. phase # "done" /\ UNCHANGED <<current, headers>>
        /\ (UNCHANGED outcome \/ report = <<>>)
    BY <1>6 DEF CloneParser, UpdateParserDAG, GenerateParserJson, NewPacket
  <2>2. outcome = "none"
    BY <2>1 DEF Progress
  <2> QED
    BY <1>5, <2>1, <2>2
<1>7. CASE ParseState
  <2>1. current \in NamesOf(Doubled(prog.parsers)) /\ phase = "parse" /\ outcome = "none"
    BY <1>3, <1>7 DEF ParseState, Progress
  <2>2. /\ current' \in NamesOf(Doubled(prog.parsers)) \cup {Ingress}
        /\ Ways(prog, current', Names(headers')) /\ Flat(headers')
    BY <1>3, <1>4, <1>7, <2>1, WaysRound
  <2>3. outcome' = "exception" =>
          /\ Place.select.kind = "current" /\ UNCHANGED current
          /\ IsReading(Read) /\ Read.read >= Len(report) /\ read' = Read.read
    BY <1>3, <1>4, <1>7, <2>1, Round, WaysRound
  <2>4. ASSUME outcome' = "exception" PROVE Excused'
    <3>1. read' = Len(report)
      BY <1>4, <2>3, <2>4, ProgFacts DEF IsReading
    <3>2. Place' = Place
      BY <1>1, <2>3, <2>4 DEF Place
    <3> QED
      BY <1>1, <2>1, <2>3, <2>4, <3>1, <3>2 DEF Excused
  <2> QED
    BY <1>1, <2>2, <2>4
<1>8. CASE CheckPreamble
  <2>1. UNCHANGED <<current, headers>> /\ outcome = "none" /\ outcome' \in {outcome, "unknown"}
    BY <1>8 DEF CheckPreamble, Progress
  <2> QED
    BY <1>5, <2>1
<1>9. CASE AddSeed
  <2>1. UNCHANGED <<current, headers>>
    BY <1>9 DEF AddSeed
  <2>2. outcome' = "seed"
    BY <1>3, <1>9, SeedRaisesNothing
  <2> QED
    BY <1>5, <2>1, <2>2
<1>10. CASE UNCHANGED vars
  <2>1. UNCHANGED <<current, headers, outcome, read>> /\ Place' = Place
    BY <1>10 DEF vars, Place
  <2> QED
    BY <1>1, <1>3, <2>1 DEF Excused
<1> QED
  BY <1>6, <1>7, <1>8, <1>9, <1>10 DEF Next

-----------------------------------------------------------------------------
(* What the controller looks at is what the switch looks at.               *)

LEMMA NumberOne ==
  ASSUME NEW ds \in Seq(Nat), Len(ds) = 1, NEW b \in Nat
  PROVE  Number(ds, b) = ds[1]
<1>1. ds[1] \in Nat
  <2>1. 1 \in 1..Len(ds)
    OBVIOUS
  <2> QED
    BY <2>1, ElementOfSeq
<1> DEFINE n == CHOOSE n : n = [i \in 0..1 |-> IF i = 0 THEN 0 ELSE n[i - 1] * b + ds[i]]
           m == [i \in 0..1 |-> IF i = 0 THEN 0 ELSE ds[1]]
<1>2. m = [i \in 0..1 |-> IF i = 0 THEN 0 ELSE m[i - 1] * b + ds[i]]
  <2>1. m[0] = 0 /\ m[0] * b + ds[1] = ds[1]
    BY <1>1
  <2>2. \A i \in 0..1 : i = 0 \/ (i = 1 /\ i - 1 = 0)
    OBVIOUS
  <2>3. \A i \in 0..1 : (IF i = 0 THEN 0 ELSE ds[1]) = (IF i = 0 THEN 0 ELSE m[i - 1] * b + ds[i])
    BY <2>1, <2>2
  <2> QED
    BY <2>3
<1> HIDE DEF m
<1>3. n = [i \in 0..1 |-> IF i = 0 THEN 0 ELSE n[i - 1] * b + ds[i]]
  BY <1>2
<1>4. Number(ds, b) = n[1]
  BY DEF Number
<1> HIDE DEF n
<1>5. n[0] = 0 /\ n[1] = n[0] * b + ds[1]
  BY <1>3
<1> QED
  BY <1>1, <1>4, <1>5

LEMMA ValueAlike ==
  ASSUME NEW lit \in Literal, lit.mask = <<>>, lit.base = 16 \/ Len(lit.digits) = 1, NEW word
  PROVE  P4Takes(lit, word) <=> word = Value(lit)
<1>1. Value(lit) = Number(lit.digits, 16)
  BY DEF Value
<1>2. P4Value(lit) = Number(lit.digits, 16)
  <2>1. lit.digits \in Seq(Nat) /\ lit.base \in Nat
    BY DEF Literal
  <2> QED
    BY <2>1, NumberOne DEF P4Value
<1> QED
  BY <1>1, <1>2 DEF P4Takes

LEMMA LiteralsKept ==
  ASSUME prog \in Programs, report \in Reports, current \in NamesOf(Doubled(prog.parsers)),
         NEW i \in 1..Len(Place.cases), Place.cases[i].value # Default
  PROVE  Place.cases[i].value \in Literals
<1> DEFINE p == prog
<1>1. IsProgram(p)
  BY ProgFacts
<1>2. PICK t \in NamesOf(p.parsers) : current = t \/ current = Clone(t)
  BY <1>1, DoubledShaped
<1> DEFINE o == Named(p.parsers, t)
<1>3. o \in Range(p.parsers) /\ o \in Parser
  BY <1>1, ProgramShaped DEF Shaped
<1>4. Place \in {Redirected(o), MakeCopy(o)}
  BY <1>1, <1>2, DoubledShaped DEF Place
<1> HIDE DEF o
<1>5. i \in 1..Len(o.cases)
  BY <1>3, <1>4, CopyFacts
<1>6. Place.cases[i].value = o.cases[i].value
  BY <1>3, <1>4, <1>5, CopyCases
<1>7. i \in DOMAIN o.cases
  BY <1>3, <1>5 DEF Parser
<1>8. o.cases[i] \in Range(o.cases)
  BY <1>7 DEF Range
<1> QED
  BY <1>3, <1>6, <1>8 DEF Literals

LEMMA HoldsSame ==
  ASSUME NEW hs, NEW all, NEW more, NEW n \in Nat, \A j \in 1..n : more[j] = all[j], Holds(hs, all, n)
  PROVE  Holds(hs, more, n)
<1>1. \A i \in 1..Len(hs) : \E j \in 1..n : more[j] = hs[i] /\ \A l \in 1..n : more[l].key = hs[i].key => l =< j
  BY DEF Holds
<1>2. \A j \in 1..n : more[j].key \in Keys(hs)
  BY DEF Holds
<1>3. ASSUME NEW i \in 1..Len(hs), NEW j \in 1..Len(hs), i < j
      PROVE  \E l \in 1..n : more[l].key = hs[i].key /\ \A m \in 1..l : more[m].key # hs[j].key
  <2>1. PICK l \in 1..n : all[l].key = hs[i].key /\ \A m \in 1..l : all[m].key # hs[j].key
    BY <1>3 DEF Holds
  <2>2. \A m \in 1..l : m \in 1..n
    OBVIOUS
  <2> QED
    BY <2>1, <2>2
<1>4. (\A i, j \in 1..n : more[i].key = more[j].key => i = j) =>
        Len(hs) = n /\ \A i \in 1..n : hs[i] = more[i]
  <2> SUFFICES ASSUME \A i, j \in 1..n : more[i].key = more[j].key => i = j
      PROVE  Len(hs) = n /\ \A i \in 1..n : hs[i] = more[i]
    OBVIOUS
  <2>1. \A i, j \in 1..n : all[i].key = all[j].key => i = j
    OBVIOUS
  <2>2. Len(hs) = n /\ \A i \in 1..n : hs[i] = all[i]
    BY <2>1 DEF Holds
  <2> QED
    BY <2>2
<1> QED
  BY <1>1, <1>2, <1>3, <1>4 DEF Holds

(* The controller has read what the switch has extracted when it is at a.  *)
InStep(a) ==
  /\ a.state = current /\ read = Len(a.headers) /\ Holds(headers, a.headers, read)
  /\ read > 0 => latest = report[read]
Alike ==
  /\ Progress /\ Position /\ Tidy(prog) /\ ReadAlike /\ ParseState
  /\ current \in NamesOf(Doubled(prog.parsers))
  /\ Ways(prog, current, Names(headers)) /\ Flat(headers)
Extracted(a) == P4Extracted(P4Extracts(Place), report, a.headers)

LEMMA AlikeFacts ==
  ASSUME Alike
  PROVE  /\ prog \in Programs /\ report \in Reports /\ report \in Seq(Nat) /\ Len(report) \in Nat
         /\ read \in Nat /\ latest \in Nat /\ headers \in Seq(Extraction) /\ Once(headers)
         /\ IsReading(Begun)
<1>1. phase = "parse"
  BY DEF Alike, ParseState
<1>2. IsReading(Begun)
  BY <1>1, ReadingTyped DEF Alike
<1> QED
  BY <1>2, ProgFacts DEF Alike, Progress, Position

LEMMA ExtractedAlike ==
  ASSUME Alike, NEW a, IsAt(Doubled(prog.parsers), report, a), InStep(a), Read.fault = "none"
  PROVE  /\ Extracted(a) \in Seq(Extraction) /\ Len(Extracted(a)) = read + Len(P4Extracts(Place))
         /\ Len(Extracted(a)) =< Len(report) /\ Read.read = Len(Extracted(a))
         /\ \A i \in 1..Len(Extracted(a)) : Extracted(a)[i].word = report[i]
         /\ Holds(Read.headers, Extracted(a), Len(Extracted(a)))
         /\ Read.latest = IF Len(P4Extracts(Place)) = 0 THEN latest ELSE report[Read.read]
<1> DEFINE es == P4Extracts(Place)
           all == Extracted(a)
           st == Read
<1>1. /\ report \in Seq(Nat) /\ Len(report) \in Nat /\ read \in Nat /\ IsReading(Begun)
      /\ headers \in Seq(Extraction)
  BY AlikeFacts
<1>2. /\ es \in Seq(Extract) /\ st.fault = IF read + Len(es) > Len(report) THEN "incomplete" ELSE "none"
  BY Round DEF Alike
<1>3. /\ a.headers \in Seq(Extraction) /\ Len(a.headers) = read
      /\ \A i \in 1..Len(a.headers) : a.headers[i].word = report[i]
      /\ Holds(headers, a.headers, read)
  BY DEF IsAt, InStep
<1>4. Len(es) \in Nat /\ Len(a.headers) + Len(es) =< Len(report)
  BY <1>1, <1>2, <1>3
<1>5. /\ all \in Seq(Extraction) /\ Len(all) = read + Len(es)
      /\ \A i \in 1..Len(a.headers) : all[i] = a.headers[i]
      /\ \A i \in 1..Len(es) : all[read + i] = [key |-> Key(es[i]), word |-> report[read + i]]
  BY <1>1, <1>2, <1>3, <1>4, ExtractedFacts DEF Extracted
<1>6. Holds(headers, all, read)
  BY <1>1, <1>3, <1>5, HoldsSame
<1>7. /\ st.read = read + Len(es)
      /\ st.latest = IF Len(es) = 0 THEN latest ELSE report[st.read]
      /\ \A more \in Seq(Extraction) :
           /\ Len(more) = read + Len(es) /\ Holds(headers, more, read)
           /\ \A i \in 1..Len(es) : more[read + i] = [key |-> Key(es[i]), word |-> report[read + i]]
           => Holds(st.headers, more, Len(more))
  BY <1>1, <1>2, AddHeadersFacts DEF Read
<1>8. Holds(st.headers, all, Len(all))
  BY <1>5, <1>6, <1>7
<1>9. \A i \in 1..Len(all) : all[i].word = report[i]
  <2> TAKE i \in 1..Len(all)
  <2>1. CASE i =< read
    <3>1. i \in 1..Len(a.headers)
      BY <1>1, <1>3, <1>5, <2>1
    <3> QED
      BY <1>3, <1>5, <3>1
  <2>2. CASE i > read
    <3>1. PICK n \in 1..Len(es) : i = read + n
      <4>1. i - read \in 1..Len(es) /\ i = read + (i - read)
        BY <1>1, <1>4, <1>5, <2>2
      <4> QED
        BY <4>1
    <3>2. all[read + n] = [key |-> Key(es[n]), word |-> report[read + n]]
      BY <1>5
    <3> HIDE DEF all
    <3> QED
      BY <3>1, <3>2
  <2> QED
    BY <1>1, <1>5, <2>1, <2>2
<1> QED
  BY <1>4, <1>5, <1>3, <1>7, <1>8, <1>9

LEMMA LooksAlike ==
  ASSUME Alike, NEW a, IsAt(Doubled(prog.parsers), report, a), InStep(a), Read.fault = "none", ~Blind, Guarded # {}
  PROVE  P4Looked(Place.select, report, Extracted(a)) = Seen(Place.select, Read)
<1> DEFINE es == P4Extracts(Place)
           all == Extracted(a)
           st == Read
           sel == Place.select
<1>1. /\ report \in Seq(Nat) /\ Len(report) \in Nat /\ read \in Nat /\ prog \in Programs /\ report \in Reports
  BY AlikeFacts
<1>2. /\ all \in Seq(Extraction) /\ Len(all) = read + Len(es) /\ Len(all) =< Len(report) /\ st.read = Len(all)
      /\ \A i \in 1..Len(all) : all[i].word = report[i]
      /\ Holds(st.headers, all, Len(all))
      /\ st.latest = IF Len(es) = 0 THEN latest ELSE report[st.read]
  BY ExtractedAlike
<1>3. /\ Place \in Parser /\ TidyParser(Instances(prog), Place) /\ es \in Seq(Extract) /\ IsReading(st)
      /\ current \in NamesOf(Doubled(prog.parsers)) /\ Place.name = current
  BY Round DEF Alike
<1>4. sel.kind \in {"field", "latest", "current"}
  <2>1. PICK i \in Guarded : TRUE
    OBVIOUS
  <2> QED
    BY <1>1, <1>3, <2>1, ProgFacts, TidyTransitions DEF Place, Guarded
<1>5. CASE sel.kind = "latest"
  <2>1. Len(es) # 0 /\ Len(es) \in Nat
    <3>1. Place.extracts # <<>> /\ Place.extracts \in Seq(Extract)
      BY <1>3, <1>5 DEF TidyParser, Parser
    <3>2. Len(Place.extracts) # 0 /\ Len(Place.extracts) \in Nat
      BY <3>1
    <3>3. 1 \in 1..Len(Place.extracts)
      BY <3>2
    <3>4. PICK j \in 1..Len(P4Extracts(Place)) : P4Extracts(Place)[j] = Place.extracts[1]
      BY <1>1, <1>3, <3>3, PlaceIs DEF Alike
    <3> HIDE DEF all, st, sel
    <3> QED
      BY <1>3, <3>4
  <2>2. Len(all) \in 1..Len(all)
    BY <1>1, <1>2, <2>1
  <2>3. all[Len(all)].word = report[Len(all)] /\ st.latest = report[Len(all)]
    BY <1>2, <2>1, <2>2
  <2>4. P4Looked(sel, report, all) = all[Len(all)].word
    BY <1>5 DEF P4Looked
  <2>5. Seen(sel, st) = st.latest
    BY <1>5 DEF Seen
  <2> QED
    BY <2>3, <2>4, <2>5
<1>6. CASE sel.kind = "current"
  <2>1. P4Looked(sel, report, all) = report[Len(all) + 1]
    BY <1>6 DEF P4Looked
  <2>2. Seen(sel, st) = IF st.read < Len(report) THEN report[st.read + 1] ELSE -1
    BY <1>6 DEF Seen
  <2>3. Seen(sel, st) # -1
    BY DEF Blind
  <2> QED
    BY <1>2, <2>1, <2>2, <2>3
<1>7. CASE sel.kind = "field"
  <2> DEFINE key == <<sel.header, 0>>
             is == {i \in DOMAIN st.headers : st.headers[i].key = key}
             c == CHOOSE i \in is : TRUE
             js == {i \in DOMAIN all : all[i].key[1] = sel.header}
  <2>1. PICK i0 \in 1..Len(st.headers) : st.headers[i0].key = key
    BY <1>7, WaysRound DEF Alike
  <2>2. DOMAIN st.headers = 1..Len(st.headers) /\ DOMAIN all = 1..Len(all) /\ Len(all) \in Nat
    BY <1>2, <1>3 DEF IsReading
  <2>3. i0 \in is
    BY <2>1, <2>2
  <2>4. c \in is
    BY <2>3
  <2>5. Seen(sel, st) = st.headers[c].word
    BY <1>7, <2>3 DEF Seen
  <2> HIDE DEF c
  <2>6. c \in 1..Len(st.headers) /\ st.headers[c].key = key
    BY <2>2, <2>4
  <2>7. PICK j \in 1..Len(all) : all[j] = st.headers[c] /\ \A l \in 1..Len(all) : all[l].key = st.headers[c].key => l =< j
    BY <1>2, <2>6 DEF Holds
  <2>8. \A l \in 1..Len(all) : all[l].key[1] = sel.header <=> all[l].key = key
    <3> TAKE l \in 1..Len(all)
    <3>1. all[l].key \in Keys(st.headers) /\ headers' = st.headers /\ Flat(headers')
      BY <1>2, Round, WaysRound DEF Holds, Alike
    <3>2. all[l].key[2] = 0
      BY <3>1 DEF Flat
    <3>3. all[l].key \in Name \X {0, 1}
      <4>1. all[l] \in Extraction
        BY <1>2
      <4> QED
        BY <4>1 DEF Extraction
    <3>4. all[l].key = <<all[l].key[1], all[l].key[2]>>
      BY <3>3
    <3> QED
      BY <3>2, <3>4
  <2>9. js = {l \in 1..Len(all) : all[l].key = key}
    BY <2>2, <2>8
  <2>10. j \in js /\ \A l \in js : l =< j
    BY <2>6, <2>7, <2>9
  <2>11. Max(js) = j
    <3>1. js \in SUBSET (0..Len(all)) /\ js # {}
      BY <2>2, <2>9, <2>10
    <3> HIDE DEF js
    <3>2. Max(js) \in js /\ \A y \in js : y =< Max(js)
      BY <2>2, <3>1, MaxIs
    <3>3. Max(js) =< j /\ j =< Max(js)
      BY <2>10, <3>2
    <3> HIDE DEF all
    <3>5. \A y \in js : y \in Nat
      BY <2>2, <3>1
    <3>4. Max(js) \in Nat
      BY <3>2, <3>5
    <3> QED
      BY <2>2, <3>3, <3>4
  <2>12. P4Looked(sel, report, all) = all[Max(js)].word
    BY <1>7 DEF P4Looked
  <2> QED
    BY <2>5, <2>7, <2>11, <2>12
<1> QED
  BY <1>4, <1>5, <1>6, <1>7

LEMMA CasesAlike ==
  ASSUME Alike, NEW a, IsAt(Doubled(prog.parsers), report, a), InStep(a), Read.fault = "none", ~Blind
  PROVE  LET cases == P4Cases(Place, report, Extracted(a))
         IN  cases # {} /\ Min(cases) = IF Takers # {} THEN Min(Takers) ELSE Len(Place.cases)
<1> DEFINE all == Extracted(a)
           n == Len(Place.cases)
           cases == P4Cases(Place, report, all)
<1>1. prog \in Programs /\ report \in Reports /\ current \in NamesOf(Doubled(prog.parsers)) /\ ReadAlike
  BY AlikeFacts DEF Alike
<1>2. /\ Place \in Parser /\ TidyParser(Instances(prog), Place) /\ Place.name = current
      /\ Place.cases \in Seq(Branch) /\ n \in 1..n /\ Tidy(prog)
  BY <1>1, PlaceIs DEF Alike
<1>3. DOMAIN Place.cases = 1..n /\ n \in Nat
  BY <1>2
<1>4. \A i \in 1..n : Place.cases[i].value = Default <=> i = n
  BY <1>2 DEF TidyParser
<1>5. /\ Guarded = {j \in 1..(n - 1) : Place.select.kind # "port"}
      /\ \A i \in Guarded : Place.select.kind # "port"
  BY <1>1, <1>2, ProgFacts, TidyTransitions DEF Place, Guarded
<1>6. ASSUME NEW i \in 1..n, i # n
      PROVE  i \in cases <=> i \in Takers
  <2>1. CASE Place.select.kind = "port"
    <3>1. i \notin Guarded
      BY <1>5, <2>1
    <3> QED
      BY <1>4, <1>6, <2>1, <3>1 DEF P4Cases, Takers
  <2>2. CASE Place.select.kind # "port"
    <3>1. i \in Guarded
      BY <1>3, <1>5, <1>6, <2>2
    <3>2. P4Looked(Place.select, report, all) = Seen(Place.select, Read)
      BY <3>1, LooksAlike
    <3> DEFINE lit == Place.cases[i].value
    <3>3. lit # Default
      BY <1>4, <1>6
    <3>4. lit \in Literals /\ lit \in Literal
      <4>1. Place.cases[i] \in Branch
        BY <1>2
      <4> QED
        BY <1>1, <3>3, <4>1, LiteralsKept DEF Branch
    <3>5. lit.mask = <<>> /\ (lit.base = 16 \/ Len(lit.digits) = 1)
      BY <1>1, <3>4 DEF ReadAlike
    <3>6. P4Takes(lit, P4Looked(Place.select, report, all)) <=> P4Looked(Place.select, report, all) = Value(lit)
      BY <3>4, <3>5, ValueAlike
    <3>7. i \in cases <=> P4Takes(lit, P4Looked(Place.select, report, all))
      BY <1>3, <2>2, <3>3 DEF P4Cases
    <3>8. i \in Takers <=> Seen(Place.select, Read) = Value(lit)
      BY <3>1 DEF Takers
    <3> HIDE DEF lit, all, cases
    <3> QED
      BY <3>2, <3>6, <3>7, <3>8
  <2> QED
    BY <2>1, <2>2
<1>7. n \in cases
  BY <1>2, <1>3, <1>4 DEF P4Cases
<1>8. cases \in SUBSET (1..n)
  BY <1>3 DEF P4Cases
<1>9. Takers \in SUBSET (1..(n - 1))
  BY <1>5 DEF Takers
<1> HIDE DEF cases, n, all
<1>10. cases = Takers \cup {n}
  <2>1. \A i \in cases : i \in Takers \cup {n}
    BY <1>6, <1>8
  <2>2. \A i \in Takers : i \in cases
    BY <1>3, <1>6, <1>9
  <2> QED
    BY <1>7, <2>1, <2>2
<1>11. Min(cases) \in cases /\ \A y \in cases : Min(cases) =< y
  <2>1. cases \in SUBSET Nat /\ cases # {}
    BY <1>3, <1>7, <1>8
  <2> QED
    BY <2>1, MinIs
<1>12. CASE Takers # {}
  <2>1. Takers \in SUBSET Nat
    BY <1>3, <1>9
  <2>2. Min(Takers) \in Takers /\ \A y \in Takers : Min(Takers) =< y
    BY <1>12, <2>1, MinIs
  <2>3. Min(cases) =< Min(Takers) /\ Min(Takers) \in 1..(n - 1) /\ Min(cases) \in 1..n
    BY <1>8, <1>9, <1>10, <1>11, <2>2
  <2>4. Min(cases) # n
    BY <1>3, <2>3
  <2>5. Min(Takers) =< Min(cases)
    BY <1>10, <1>11, <2>2, <2>4
  <2>6. Min(cases) = Min(Takers)
    BY <1>3, <2>3, <2>5
  <2> QED
    BY <1>7, <1>12, <2>6 DEF cases, n, all
<1>13. CASE Takers = {}
  <2>1. Min(cases) = n
    BY <1>10, <1>11, <1>13
  <2> QED
    BY <1>7, <1>13, <2>1 DEF cases, n, all
<1> QED
  BY <1>12, <1>13

LEMMA StepAt ==
  ASSUME NEW ps, NEW words, NEW a, a = [state |-> a.state, headers |-> a.headers], a.state \notin {Ingress, Dropped}
  PROVE  LET p == Named(ps, a.state)
             n == Len(a.headers) + Len(P4Extracts(p)) + (IF P4LooksAhead(p) THEN 1 ELSE 0)
             all == P4Extracted(P4Extracts(p), words, a.headers)
             cases == P4Cases(p, words, all)
         IN  /\ n > Len(words) => P4Step(ps, words, a).state = Dropped
             /\ ~(n > Len(words)) /\ cases # {} =>
                  P4Step(ps, words, a) = [state |-> p.cases[Min(cases)].to, headers |-> all]
<1> DEFINE p == Named(ps, a.state)
           n == Len(a.headers) + Len(P4Extracts(p)) + (IF P4LooksAhead(p) THEN 1 ELSE 0)
           all == P4Extracted(P4Extracts(p), words, a.headers)
           cases == P4Cases(p, words, all)
           to == p.cases[Min(cases)].to
<1>1. P4Step(ps, words, a) = IF n > Len(words) THEN [a EXCEPT !.state = Dropped]
                             ELSE IF cases = {} THEN [a EXCEPT !.state = Dropped]
                             ELSE [state |-> to, headers |-> all]
  BY DEF P4Step
<1> HIDE DEF n, all, cases, to
<1>2. [a EXCEPT !.state = Dropped].state = Dropped
  BY Zenon
<1> QED
  BY <1>1, <1>2 DEF n, all, cases, to

LEMMA Follows ==
  ASSUME Alike, NEW a, IsAt(Doubled(prog.parsers), report, a), InStep(a)
  PROVE  LET b == P4Step(Doubled(prog.parsers), report, a)
         IN  \/ /\ phase' = "done" /\ outcome' \in {"incomplete", "exception"} /\ b.state = Dropped
             \/ /\ UNCHANGED <<phase, outcome>> /\ current' = b.state /\ read' = Len(b.headers)
                /\ Holds(headers', b.headers, read')
                /\ read' > 0 => latest' = report[read']
<1> DEFINE ps == Doubled(prog.parsers)
           b == P4Step(ps, report, a)
           es == P4Extracts(Place)
           n == Len(a.headers) + Len(es) + (IF P4LooksAhead(Place) THEN 1 ELSE 0)
           cases == P4Cases(Place, report, Extracted(a))
<1>1. /\ report \in Seq(Nat) /\ Len(report) \in Nat /\ read \in Nat /\ prog \in Programs /\ report \in Reports
      /\ current \in NamesOf(ps) /\ a.state = current /\ Len(a.headers) = read
  BY AlikeFacts DEF Alike, InStep
<1>2. /\ a = [state |-> a.state, headers |-> a.headers] /\ a.state \notin {Ingress, Dropped}
  <2>1. Shaped(ps)
    BY <1>1, ProgFacts
  <2>2. current \in Name /\ current # Ingress
    BY <1>1, <2>1 DEF Shaped
  <2>3. current # Dropped
    BY <2>2 DEF Name, Dropped
  <2> QED
    BY <1>1, <2>2, <2>3 DEF IsAt
<1>3. /\ n > Len(report) => b.state = Dropped
      /\ ~(n > Len(report)) /\ cases # {} => b = [state |-> Place.cases[Min(cases)].to, headers |-> Extracted(a)]
  <2>1. Place = Named(ps, a.state)
    BY <1>1 DEF Place
  <2> QED
    BY <1>2, <2>1, StepAt DEF Extracted
<1>4. /\ es \in Seq(Extract) /\ Read.fault = IF read + Len(es) > Len(report) THEN "incomplete" ELSE "none"
      /\ read' = Read.read /\ headers' = Read.headers /\ latest' = Read.latest
      /\ Read.fault # "none" => phase' = "done" /\ outcome' = "incomplete"
      /\ Read.fault = "none" /\ Blind => phase' = "done" /\ outcome' = "exception"
      /\ Read.fault = "none" /\ ~Blind =>
           /\ current' = Place.cases[IF Takers # {} THEN Min(Takers) ELSE Len(Place.cases)].to
           /\ UNCHANGED <<phase, outcome>>
  BY Round DEF Alike
<1>5. /\ Place \in Parser /\ TidyParser(Instances(prog), Place) /\ Place.name = current
      /\ Place.cases \in Seq(Branch)
  BY <1>1, PlaceIs DEF Alike
<1>6. P4LooksAhead(Place) <=> Place.select.kind = "current" /\ Guarded # {}
  <2> DEFINE m == Len(Place.cases)
  <2>1. DOMAIN Place.cases = 1..m /\ m \in Nat
    BY <1>5
  <2>2. Guarded = {j \in 1..(m - 1) : Place.select.kind # "port"}
    BY <1>1, <1>5, ProgFacts, TidyTransitions DEF Place, Guarded
  <2>3. \A i \in 1..m : Place.cases[i].value = Default <=> i = m
    BY <1>5 DEF TidyParser
  <2>4. (\E c \in Range(Place.cases) : c.value # Default) <=> \E i \in 1..m : i # m
    BY <2>1, <2>3 DEF Range
  <2> HIDE DEF m
  <2>5. (\E i \in 1..m : i # m) <=> \E i \in 1..(m - 1) : TRUE
    BY <2>1
  <2> QED
    BY <2>2, <2>4, <2>5 DEF P4LooksAhead
<1>7. CASE Read.fault # "none"
  <2>1. n > Len(report)
    BY <1>1, <1>4, <1>7
  <2> QED
    BY <1>3, <1>4, <1>7, <2>1
<1>8. CASE Read.fault = "none" /\ Blind
  <2>1. Place.select.kind = "current" /\ Read.read >= Len(report) /\ Guarded # {}
    BY <1>8, WaysRound DEF Alike, Blind
  <2>2. Read.read = read + Len(es)
    BY <1>8, ExtractedAlike
  <2>3. n > Len(report)
    BY <1>1, <1>4, <1>6, <2>1, <2>2
  <2> QED
    BY <1>3, <1>4, <1>8, <2>3
<1>9. CASE Read.fault = "none" /\ ~Blind
  <2>1. /\ Len(Extracted(a)) = read + Len(es) /\ Len(Extracted(a)) =< Len(report) /\ Read.read = Len(Extracted(a))
        /\ Holds(Read.headers, Extracted(a), Len(Extracted(a)))
        /\ Read.latest = IF Len(es) = 0 THEN latest ELSE report[Read.read]
    BY <1>9, ExtractedAlike
  <2>2. Place.select.kind = "current" /\ Guarded # {} => Read.read < Len(report)
    BY <1>9 DEF Blind, Seen
  <2>3. ~(n > Len(report))
    BY <1>1, <1>4, <1>6, <2>1, <2>2
  <2>4. cases # {} /\ Min(cases) = IF Takers # {} THEN Min(Takers) ELSE Len(Place.cases)
    BY <1>9, CasesAlike
  <2>5. b = [state |-> current', headers |-> Extracted(a)]
    BY <1>3, <1>4, <1>9, <2>3, <2>4
  <2>6. b.state = current' /\ b.headers = Extracted(a)
    BY <2>5
  <2>7. read' > 0 => latest' = report[read']
    <3>1. Len(es) = 0 => read' = read
      BY <1>1, <1>4, <2>1
    <3>2. read > 0 => latest = report[read]
      BY DEF InStep
    <3> QED
      BY <1>4, <2>1, <3>1, <3>2
  <2>8. Holds(headers', b.headers, read') /\ read' = Len(b.headers)
    BY <1>4, <2>1, <2>6
  <2> QED
    BY <1>4, <1>9, <2>6, <2>7, <2>8
<1> QED
  BY <1>7, <1>8, <1>9

-----------------------------------------------------------------------------
(* A step of a switch that goes on, and what its runs have extracted.      *)

LEMMA NotDropped == \A s \in Name : s # Dropped
<1> TAKE s \in Name
<1>1. s = <<s[1], s[2]>>
  BY DEF Name
<1>2. \A x, y : <<x, y>> # <<>>
  OBVIOUS
<1> QED
  BY <1>1, <1>2 DEF Dropped

(* b is one step on from a, which is at the state of q.                    *)
Onward(q, words, a, b) ==
  /\ q \in Parser /\ q.name = a.state /\ P4Extracts(q) \in Seq(Extract)
  /\ b.headers = P4Extracted(P4Extracts(q), words, a.headers) /\ b.headers \in Seq(Extraction)
  /\ Len(b.headers) = Len(a.headers) + Len(P4Extracts(q)) /\ Len(b.headers) =< Len(words)
  /\ \A i \in 1..Len(a.headers) : b.headers[i] = a.headers[i]
  /\ \A i \in 1..Len(P4Extracts(q)) :
       b.headers[Len(a.headers) + i] = [key |-> Key(P4Extracts(q)[i]), word |-> words[Len(a.headers) + i]]
  /\ P4Cases(q, words, b.headers) # {} /\ Min(P4Cases(q, words, b.headers)) \in 1..Len(q.cases)
  /\ b.state = q.cases[Min(P4Cases(q, words, b.headers))].to

LEMMA StepOn ==
  ASSUME NEW ps, Shaped(ps), NEW words \in Seq(Nat), NEW a, IsAt(ps, words, a), a.state \in NamesOf(ps),
         P4Step(ps, words, a).state # Dropped
  PROVE  Onward(Named(ps, a.state), words, a, P4Step(ps, words, a))
<1> DEFINE q == Named(ps, a.state)
           es == P4Extracts(q)
           n == Len(a.headers) + Len(es) + (IF P4LooksAhead(q) THEN 1 ELSE 0)
           b == P4Step(ps, words, a)
           all == P4Extracted(es, words, a.headers)
           cases == P4Cases(q, words, all)
<1>1. /\ a = [state |-> a.state, headers |-> a.headers] /\ a.state \notin {Ingress, Dropped}
      /\ a.headers \in Seq(Extraction) /\ a.state \in NamesOf(ps)
  <2>1. a.state \in Name /\ a.state # Ingress
    BY DEF Shaped
  <2>2. a.state # Dropped
    BY <2>1, NotDropped
  <2> QED
    BY <2>1, <2>2 DEF IsAt
<1>2. q \in Parser /\ q.name = a.state
  BY DEF Shaped
<1>3. es \in Seq(Extract)
  BY <1>2, ExtractsTyped
<1>4. b = IF n > Len(words) THEN [a EXCEPT !.state = Dropped]
          ELSE IF cases = {} THEN [a EXCEPT !.state = Dropped]
          ELSE [state |-> q.cases[Min(cases)].to, headers |-> all]
  BY <1>1 DEF P4Step
<1>5. [a EXCEPT !.state = Dropped].state = Dropped
  BY <1>1, Zenon
<1> DEFINE to == q.cases[Min(cases)].to
<1>6. ~(n > Len(words)) /\ cases # {} /\ b = [state |-> to, headers |-> all]
  <2> HIDE DEF n, cases, all, to
  <2>1. b.state # Dropped
    OBVIOUS
  <2> HIDE DEF b
  <2> QED
    BY <1>4, <1>5, <2>1 DEF to
<1>7. b.state = to /\ b.headers = all
  <2> HIDE DEF b, to, all, n, cases
  <2>1. b = [state |-> to, headers |-> all]
    BY <1>6
  <2> QED
    BY <2>1
<1>8. Len(a.headers) + Len(es) =< Len(words)
  <2>1. Len(a.headers) \in Nat /\ Len(es) \in Nat /\ Len(words) \in Nat
    BY <1>1, <1>3
  <2>2. (IF P4LooksAhead(q) THEN 1 ELSE 0) \in {0, 1}
    OBVIOUS
  <2> DEFINE more == IF P4LooksAhead(q) THEN 1 ELSE 0
  <2>3. ~(Len(a.headers) + Len(es) + more > Len(words)) /\ more \in {0, 1}
    BY <1>6, <2>2
  <2> HIDE DEF more, es
  <2> QED
    BY <2>1, <2>3
<1>9. /\ all \in Seq(Extraction) /\ Len(all) = Len(a.headers) + Len(es)
      /\ \A i \in 1..Len(a.headers) : all[i] = a.headers[i]
      /\ \A i \in 1..Len(es) : all[Len(a.headers) + i] = [key |-> Key(es[i]), word |-> words[Len(a.headers) + i]]
  BY <1>1, <1>3, <1>8, ExtractedFacts
<1>10. Min(cases) \in 1..Len(q.cases)
  <2>1. q.cases \in Seq(Branch)
    BY <1>2 DEF Parser
  <2>2. DOMAIN q.cases = 1..Len(q.cases) /\ Len(q.cases) \in Nat
    BY <2>1
  <2>3. cases \in SUBSET DOMAIN q.cases
    BY DEF P4Cases
  <2> HIDE DEF cases
  <2>4. cases \in SUBSET Nat /\ cases # {}
    BY <1>6, <2>2, <2>3
  <2> QED
    BY <2>2, <2>3, <2>4, MinIs
<1> HIDE DEF b, all, es
<1>11. P4Cases(q, words, b.headers) = cases
  BY <1>7
<1> HIDE DEF cases
<1>12. P4Cases(q, words, b.headers) # {} /\ Min(P4Cases(q, words, b.headers)) \in 1..Len(q.cases)
       /\ b.state = q.cases[Min(P4Cases(q, words, b.headers))].to
  BY <1>6, <1>7, <1>10, <1>11
<1> QED
  BY <1>2, <1>3, <1>7, <1>8, <1>9, <1>12 DEF b, all, es, Onward

(* The visited header is the first and the only one of its name.           *)
Led(a) ==
  /\ a.state # Start /\ Len(a.headers) > 0 /\ a.headers[1].key = <<Visited, 0>>
  /\ \A i \in 2..Len(a.headers) : a.headers[i].key # <<Visited, 0>>

LEMMA LedOn ==
  ASSUME NEW p, IsProgram(p), Tidy(p), NEW words \in Seq(Nat), NEW a, IsAt(Doubled(p.parsers), words, a),
         a = First \/ Led(a), P4Step(Doubled(p.parsers), words, a).state # Dropped
  PROVE  Led(P4Step(Doubled(p.parsers), words, a))
<1> DEFINE ps == Doubled(p.parsers)
           b == P4Step(ps, words, a)
           q == Named(ps, a.state)
           es == P4Extracts(q)
<1> SUFFICES Led(b)
  OBVIOUS
<1>1. Shaped(ps)
  BY DoubledShaped
<1>2. CASE a.state \in {Ingress, Dropped}
  <2>1. b = a
    BY <1>1, <1>2, StepFacts
  <2>2. a # First
    <3>1. First.state = Start /\ Start # Ingress /\ Start # Dropped
      BY CloneFacts DEF First, Start, Dropped
    <3> QED
      BY <1>2, <3>1
  <2> QED
    BY <2>1, <2>2
<1>3. CASE a.state \notin {Ingress, Dropped}
  <2>1. a.state \in NamesOf(ps) /\ a.headers \in Seq(Extraction)
    BY <1>3 DEF IsAt
  <2>2. /\ q \in Parser /\ q.name = a.state /\ es \in Seq(Extract)
        /\ Len(b.headers) = Len(a.headers) + Len(es)
        /\ \A i \in 1..Len(a.headers) : b.headers[i] = a.headers[i]
        /\ \A i \in 1..Len(es) :
             b.headers[Len(a.headers) + i] = [key |-> Key(es[i]), word |-> words[Len(a.headers) + i]]
        /\ \E x \in 1..Len(q.cases) : b.state = q.cases[x].to
    <3>1. Onward(q, words, a, b)
      BY <1>1, <2>1, StepOn
    <3> HIDE DEF b, q
    <3> QED
      BY <3>1 DEF Onward
  <2>3. TidyParser(Instances(p), q)
    BY <2>1, DoubledTidy
  <2>4. b.state # Start
    BY <2>2, <2>3 DEF TidyParser
  <2>5. Len(a.headers) \in Nat /\ Len(es) \in Nat
    BY <2>1, <2>2
  <2> HIDE DEF b
  <2>6. CASE a = First
    <3>1. a.state = Start /\ a.headers = <<>> /\ Len(a.headers) = 0
      BY <2>6 DEF First
    <3>2. es = <<[header |-> Visited, next |-> 0]>>
      <4>1. q.name = Start /\ q.extracts = <<>>
        BY <2>2, <2>3, <3>1 DEF TidyParser
      <4> QED
        BY <4>1 DEF P4Extracts
    <3>3. Len(es) = 1 /\ es[1] = [header |-> Visited, next |-> 0]
      BY <3>2
    <3>4. Key(es[1]) = <<Visited, 0>>
      BY <3>3 DEF Key
    <3> HIDE DEF es
    <3>6. b.headers[0 + 1] = [key |-> Key(es[1]), word |-> words[0 + 1]] /\ Len(b.headers) = 1
      <4>1. 1 \in 1..Len(es) /\ Len(b.headers) = Len(a.headers) + Len(es)
        BY <2>2, <3>3
      <4> QED
        BY <2>2, <3>1, <3>3, <4>1
    <3>5. b.headers[1].key = <<Visited, 0>> /\ Len(b.headers) = 1
      BY <3>4, <3>6
    <3> QED
      BY <2>4, <3>5 DEF Led
  <2>7. CASE Led(a)
    <3>1. a.state # Start
      BY <2>7 DEF Led
    <3>2. es = q.extracts
      <4>1. q.extracts \in Seq(Extract)
        BY <2>2 DEF Parser
      <4>2. es = <<>> \o q.extracts
        BY <2>2, <3>1 DEF P4Extracts
      <4> QED
        BY <4>1, <4>2
    <3>3. \A i \in 1..Len(es) : Key(es[i]) # <<Visited, 0>>
      BY <2>3, <3>2 DEF TidyParser, Key
    <3> HIDE DEF es
    <3>4. \A i \in 2..Len(b.headers) : b.headers[i].key # <<Visited, 0>>
      <4> TAKE i \in 2..Len(b.headers)
      <4>1. CASE i =< Len(a.headers)
        <5>1. i \in 2..Len(a.headers) /\ i \in 1..Len(a.headers)
          BY <2>2, <2>5, <4>1
        <5> QED
          BY <2>2, <2>7, <5>1 DEF Led
      <4>2. CASE i > Len(a.headers)
        <5>1. PICK n \in 1..Len(es) : i = Len(a.headers) + n
          <6>1. i - Len(a.headers) \in 1..Len(es) /\ i = Len(a.headers) + (i - Len(a.headers))
            BY <2>2, <2>5, <4>2
          <6> QED
            BY <6>1
        <5>2. b.headers[i] = [key |-> Key(es[n]), word |-> words[i]]
          BY <2>2, <5>1
        <5>3. b.headers[i].key = Key(es[n])
          BY <5>2
        <5> QED
          BY <3>3, <5>3
      <4> QED
        BY <2>2, <2>5, <4>1, <4>2
    <3>5. Len(b.headers) > 0 /\ b.headers[1].key = <<Visited, 0>>
      BY <2>2, <2>5, <2>7 DEF Led
    <3> QED
      BY <2>4, <3>4, <3>5 DEF Led
  <2> QED
    BY <2>6, <2>7
<1> QED
  BY <1>2, <1>3

LEMMA RunLed ==
  ASSUME NEW p, IsProgram(p), Tidy(p), NEW words \in Seq(Nat), NEW c, NEW k \in Nat,
         IsRun(Doubled(p.parsers), words, c, k)
  PROVE  \A i \in 0..k : c[i] = First \/ c[i].state = Dropped \/ Led(c[i])
<1> DEFINE ps == Doubled(p.parsers)
           S == {i \in 0..k : c[i] = First \/ c[i].state = Dropped \/ Led(c[i])}
<1>1. Shaped(ps)
  BY DoubledShaped
<1>2. /\ c[0] = First /\ \A i \in 1..k : c[i] = P4Step(ps, words, c[i - 1])
      /\ \A i \in 0..k : IsAt(ps, words, c[i])
  BY <1>1, RunIs, RunTyped
<1>3. 0 \in S
  BY <1>2
<1>4. ASSUME NEW i \in 1..k, i - 1 \in S PROVE i \in S
  <2> DEFINE a == c[i - 1]
  <2>1. IsAt(ps, words, a) /\ c[i] = P4Step(ps, words, a) /\ (a = First \/ a.state = Dropped \/ Led(a))
    BY <1>2, <1>4
  <2>2. a.state = Dropped => c[i] = a
    BY <1>1, <2>1, StepFacts
  <2> HIDE DEF a
  <2>3. a.state # Dropped /\ c[i].state # Dropped => Led(c[i])
    BY <2>1, LedOn
  <2> QED
    BY <2>2, <2>3
<1> HIDE DEF S
<1>5. 0..k \subseteq S
  BY <1>3, <1>4, InductionUpTo
<1> QED
  BY <1>5 DEF S

-----------------------------------------------------------------------------
(* The controller and the switch, side by side.                            *)

Sides(c, k) ==
  /\ IsRun(Doubled(prog.parsers), report, c, k)
  /\ outcome \in {"incomplete", "exception"} => c[k].state = Dropped
  /\ outcome \notin {"incomplete", "exception"} => InStep(c[k])
  /\ phase = "seed" \/ outcome = "seed" => current = Ingress /\ report[1] = Preamble
  /\ outcome = "unknown" => current = Ingress /\ report[1] # Preamble
SideInv ==
  Supported /\ ReadAlike /\ phase \in {"parse", "seed", "done"} => \E k \in Nat : \E c : Sides(c, k)

(* The visited header the controller finds is the one in front.            *)
LEMMA PreambleFirst ==
  ASSUME Progress, Position, Supported, phase = "parse", current = Ingress,
         NEW k \in Nat, NEW c, IsRun(Doubled(prog.parsers), report, c, k), InStep(c[k])
  PROVE  headers[CHOOSE i \in DOMAIN headers : headers[i].key = <<Visited, 0>>].word = report[1]
<1> DEFINE H == c[k].headers
           is == {i \in DOMAIN headers : headers[i].key = <<Visited, 0>>}
           x == CHOOSE i \in DOMAIN headers : headers[i].key = <<Visited, 0>>
<1>1. /\ prog \in Programs /\ report \in Reports /\ IsProgram(prog) /\ Tidy(prog) /\ report \in Seq(Nat)
      /\ Shaped(Doubled(prog.parsers))
  BY SupportedIsTidy, ProgFacts DEF Progress
<1>2. k \in 0..k
  OBVIOUS
<1>3. /\ c[k].state = Ingress /\ read = Len(H) /\ Holds(headers, H, Len(H))
      /\ H \in Seq(Extraction) /\ Len(H) \in Nat /\ \A i \in 1..Len(H) : H[i].word = report[i]
  <2>1. IsAt(Doubled(prog.parsers), report, c[k])
    BY <1>1, <1>2, RunTyped
  <2>2. c[k].state = Ingress /\ read = Len(H) /\ Holds(headers, H, read)
    BY DEF InStep
  <2> QED
    BY <2>1, <2>2 DEF IsAt
<1>4. Led(c[k])
  <2>1. c[k] = First \/ c[k].state = Dropped \/ Led(c[k])
    BY <1>1, <1>2, RunLed
  <2>2. First.state = Start /\ Start # Ingress /\ Ingress \in Name
    BY CloneFacts DEF First
  <2>3. Ingress # Dropped
    BY <2>2, NotDropped
  <2> QED
    BY <1>3, <2>1, <2>2, <2>3
<1>5. 1 \in 1..Len(H) /\ H[1].key = <<Visited, 0>> /\ \A i \in 2..Len(H) : H[i].key # <<Visited, 0>>
  BY <1>3, <1>4 DEF Led
<1> HIDE DEF H
<1>6. <<Visited, 0>> \in Keys(headers)
  BY <1>3, <1>5 DEF Holds
<1>7. x \in DOMAIN headers /\ headers[x].key = <<Visited, 0>>
  BY <1>6 DEF Keys
<1> HIDE DEF x
<1>8. x \in 1..Len(headers)
  BY <1>7 DEF Position
<1>9. PICK j \in 1..Len(H) : H[j] = headers[x]
  BY <1>3, <1>8 DEF Holds
<1>10. j = 1
  <2>1. H[j].key = <<Visited, 0>>
    BY <1>7, <1>9
  <2>2. j = 1 \/ j \in 2..Len(H)
    BY <1>3
  <2> QED
    BY <1>5, <2>1, <2>2
<1> QED
  BY <1>3, <1>5, <1>9, <1>10 DEF x

(* The switch drops a packet of no byte in the start state, which extracts  *)
(* the visited header.                                                     *)
LEMMA EmptyDropped ==
  ASSUME NEW ps, Shaped(ps)
  PROVE  \E c : IsRun(ps, <<>>, c, 1) /\ c[1].state = Dropped
<1> DEFINE p == Named(ps, Start)
           es == P4Extracts(p)
           x == IF P4LooksAhead(p) THEN 1 ELSE 0
<1>1. p.name = Start /\ p \in Parser
  BY DEF Shaped
<1>2. First.state = Start /\ First.headers = <<>> /\ First.state \notin {Ingress, Dropped}
  BY CloneFacts, NotDropped DEF First
<1> HIDE DEF p
<1>3. Len(es) \in Nat /\ Len(es) >= 1
  <2> DEFINE v == [header |-> Visited, next |-> 0]
             xs == p.extracts
  <2>1. es = <<v>> \o xs
    BY <1>1 DEF P4Extracts
  <2>2. xs \in Seq(Extract) /\ v \in Extract
    BY <1>1, CloneFacts DEF Parser, Extract
  <2> HIDE DEF es, v, xs
  <2>3. Len(<<v>> \o xs) = Len(<<v>>) + Len(xs) /\ Len(<<v>>) = 1 /\ Len(xs) \in Nat
    BY <2>2
  <2> QED
    BY <2>1, <2>3
<1>4. x \in {0, 1}
  OBVIOUS
<1> HIDE DEF es, x
<1>5. Len(First.headers) + Len(es) + x > Len(<<>>)
  BY <1>2, <1>3, <1>4
<1>6. P4Step(ps, <<>>, First) = [First EXCEPT !.state = Dropped]
  BY <1>2, <1>5 DEF P4Step, p, es, x
<1>7. P4Step(ps, <<>>, First).state = Dropped
  BY <1>6 DEF First
<1>8. PICK c : IsRun(ps, <<>>, c, 0) /\ c[0] = First
  BY RunStarts
<1> DEFINE d == Longer(ps, <<>>, c, 0)
<1>9. IsRun(ps, <<>>, d, 1) /\ d[1] = P4Step(ps, <<>>, c[0])
  <2>1. 0 \in Nat /\ 0 + 1 = 1
    OBVIOUS
  <2>2. IsRun(ps, <<>>, d, 0 + 1) /\ d[0 + 1] = P4Step(ps, <<>>, c[0])
    BY <1>8, <2>1, RunLonger
  <2> QED
    BY <2>1, <2>2
<1> QED
  BY <1>7, <1>8, <1>9

LEMMA SideInit == Init => SideInv
BY DEF Init, SideInv

LEMMA SideKept == TypeInv /\ WaysInv /\ SideInv /\ [Next]_vars => SideInv'
<1> SUFFICES ASSUME Progress, Position, WaysInv, SideInv, [Next]_vars,
                    Supported', ReadAlike', phase' \in {"parse", "seed", "done"}
             PROVE  \E k \in Nat : \E c : Sides(c, k)'
  BY DEF TypeInv, SideInv
<1>1. UNCHANGED <<prog, report>>
  BY DEF Next, vars, CloneParser, UpdateParserDAG, GenerateParserJson, NewPacket, ParseState, CheckPreamble, AddSeed
<1>2. Supported /\ ReadAlike
  BY <1>1 DEF Supported, ReadAlike, Literals
<1>3. prog \in Programs /\ report \in Reports /\ Tidy(prog) /\ report \in Seq(Nat) /\ Shaped(Doubled(prog.parsers))
  BY <1>2, SupportedIsTidy, ProgFacts DEF Progress
<1>4. /\ current \in NamesOf(Doubled(prog.parsers)) \cup {Ingress}
      /\ Ways(prog, current, Names(headers)) /\ Flat(headers)
  BY <1>2 DEF WaysInv
<1>5. CASE NewPacket
  <2>1. /\ current = Start /\ read = 0 /\ headers = <<>> /\ outcome = "none"
        /\ UNCHANGED <<current, read, headers>>
        /\ \/ phase' = "parse" /\ UNCHANGED outcome
           \/ report = <<>> /\ phase' = "done" /\ outcome' = "exception"
    BY <1>5 DEF NewPacket, Progress
  <2>2. CASE phase' = "parse" /\ UNCHANGED outcome
    <3>1. PICK c : IsRun(Doubled(prog.parsers), report, c, 0) /\ c[0] = First
      BY RunStarts
    <3>2. First.state = Start /\ First.headers = <<>>
      BY DEF First
    <3>3. Holds(<<>>, <<>>, 0)
      BY DEF Holds
    <3>4. Len(<<>>) = 0
      OBVIOUS
    <3>5. InStep(c[0])'
      BY <2>1, <3>1, <3>2, <3>3, <3>4 DEF InStep
    <3>6. Sides(c, 0)'
      BY <1>1, <2>1, <2>2, <3>1, <3>5 DEF Sides
    <3> QED
      BY <3>6
  <2>3. CASE report = <<>> /\ phase' = "done" /\ outcome' = "exception"
    <3>1. PICK c : IsRun(Doubled(prog.parsers), report, c, 1) /\ c[1].state = Dropped
      BY <1>3, <2>3, EmptyDropped
    <3>2. Sides(c, 1)'
      BY <1>1, <2>3, <3>1 DEF Sides
    <3> QED
      BY <3>2
  <2> QED
    BY <2>1, <2>2, <2>3
<1>6. CASE ParseState
  <2>1. phase = "parse" /\ current # Ingress /\ outcome = "none"
    BY <1>6 DEF ParseState, Progress
  <2>2k. PICK k \in Nat : \E c : Sides(c, k)
    BY <1>2, <2>1 DEF SideInv
  <2>2. PICK c : Sides(c, k)
    BY <2>2k
  <2>3. IsRun(Doubled(prog.parsers), report, c, k) /\ InStep(c[k])
    BY <2>1, <2>2 DEF Sides
  <2>4. Alike
    BY <1>2, <1>3, <1>4, <1>6, <2>1 DEF Alike
  <2>5. IsAt(Doubled(prog.parsers), report, c[k])
    BY <1>3, <2>3, RunTyped, k \in 0..k
  <2> DEFINE d == Longer(Doubled(prog.parsers), report, c, k)
  <2>6. IsRun(Doubled(prog.parsers), report, d, k + 1) /\ d[k + 1] = P4Step(Doubled(prog.parsers), report, c[k])
    BY <2>3, RunLonger
  <2>7. \/ /\ phase' = "done" /\ outcome' \in {"incomplete", "exception"} /\ d[k + 1].state = Dropped
        \/ /\ UNCHANGED <<phase, outcome>> /\ current' = d[k + 1].state /\ read' = Len(d[k + 1].headers)
           /\ Holds(headers', d[k + 1].headers, read')
           /\ read' > 0 => latest' = report[read']
    BY <2>3, <2>4, <2>5, <2>6, Follows
  <2>8. PICK e : e = d
    OBVIOUS
  <2>9. IsRun(Doubled(prog.parsers), report, e, k + 1)
    BY <2>6, <2>8
  <2>10. \/ /\ phase' = "done" /\ outcome' \in {"incomplete", "exception"} /\ e[k + 1].state = Dropped
         \/ /\ UNCHANGED <<phase, outcome>> /\ current' = e[k + 1].state /\ read' = Len(e[k + 1].headers)
            /\ Holds(headers', e[k + 1].headers, read')
            /\ read' > 0 => latest' = report[read']
    BY <2>7, <2>8
  <2> HIDE DEF d
  <2>11. CASE phase' = "done" /\ outcome' \in {"incomplete", "exception"} /\ e[k + 1].state = Dropped
    <3>1. Sides(e, k + 1)'
      BY <1>1, <2>9, <2>11 DEF Sides
    <3> QED
      BY <3>1
  <2>12. CASE /\ UNCHANGED <<phase, outcome>> /\ current' = e[k + 1].state /\ read' = Len(e[k + 1].headers)
              /\ Holds(headers', e[k + 1].headers, read')
              /\ read' > 0 => latest' = report[read']
    <3>1. InStep(e[k + 1])'
      BY <1>1, <2>12 DEF InStep
    <3>2. Sides(e, k + 1)'
      BY <1>1, <2>1, <2>9, <2>12, <3>1 DEF Sides
    <3> QED
      BY <3>2
  <2> QED
    BY <2>10, <2>11, <2>12
<1>7. CASE CheckPreamble
  <2>1. phase = "parse" /\ current = Ingress /\ outcome = "none"
    BY <1>7 DEF CheckPreamble, Progress
  <2>2k. PICK k \in Nat : \E c : Sides(c, k)
    BY <1>2, <2>1 DEF SideInv
  <2>2. PICK c : Sides(c, k)
    BY <2>2k
  <2>3. IsRun(Doubled(prog.parsers), report, c, k) /\ InStep(c[k])
    BY <2>1, <2>2 DEF Sides
  <2>4. headers[CHOOSE i \in DOMAIN headers : headers[i].key = <<Visited, 0>>].word = report[1]
    BY <1>2, <2>1, <2>3, PreambleFirst
  <2>5. /\ UNCHANGED <<prog, report, current, read, latest, headers>>
        /\ \/ report[1] = Preamble /\ phase' = "seed" /\ UNCHANGED outcome
           \/ report[1] # Preamble /\ phase' = "done" /\ outcome' = "unknown"
    BY <1>7, <2>4 DEF CheckPreamble
  <2>6. InStep(c[k])'
    BY <2>3, <2>5 DEF InStep
  <2>7. Sides(c, k)'
    BY <2>1, <2>3, <2>5, <2>6 DEF Sides
  <2> QED
    BY <2>7
<1>8. CASE AddSeed
  <2>1. phase = "seed" /\ outcome = "none" /\ phase' = "done" /\ UNCHANGED <<prog, report, current, read, latest, headers>>
    BY <1>8 DEF AddSeed, Progress
  <2>2. outcome' = "seed"
    BY <1>4, <1>8, SeedRaisesNothing
  <2>3k. PICK k \in Nat : \E c : Sides(c, k)
    BY <1>2, <2>1 DEF SideInv
  <2>3. PICK c : Sides(c, k)
    BY <2>3k
  <2>4. /\ IsRun(Doubled(prog.parsers), report, c, k) /\ InStep(c[k])
        /\ current = Ingress /\ report[1] = Preamble
    BY <2>1, <2>3 DEF Sides
  <2>5. InStep(c[k])'
    BY <2>1, <2>4 DEF InStep
  <2>6. Sides(c, k)'
    BY <2>1, <2>2, <2>4, <2>5 DEF Sides
  <2> QED
    BY <2>6
<1>9. CASE UNCHANGED vars
  <2>1k. PICK k \in Nat : \E c : Sides(c, k)
    BY <1>2, <1>9 DEF SideInv, vars
  <2>1. PICK c : Sides(c, k)
    BY <2>1k
  <2>2. Sides(c, k)'
    BY <1>9, <2>1 DEF vars, Sides, InStep
  <2> QED
    BY <2>2
<1>10. CASE CloneParser \/ UpdateParserDAG \/ GenerateParserJson
  BY <1>10 DEF CloneParser, UpdateParserDAG, GenerateParserJson
<1> QED
  BY <1>5, <1>6, <1>7, <1>8, <1>9, <1>10 DEF Next

Controller == TypeInv /\ WaysInv /\ SideInv

LEMMA ControllerInv == Spec => []Controller
<1>1. Init => Controller
  BY TypeInit, WaysInit, SideInit DEF Controller
<1>2. Controller /\ [Next]_vars => Controller'
  BY TypeStep, WaysKept, SideKept DEF Controller
<1> QED
  BY <1>1, <1>2, PTL DEF Spec

(* A finished controller against where the switch has ended.               *)
LEMMA Ended ==
  ASSUME Controller, Done, Supported, ReadAlike
  PROVE  /\ OnWire.state = Dropped => outcome \in {"incomplete", "exception"}
         /\ outcome \in {"incomplete", "exception"} => OnWire.state = Dropped
         /\ outcome \notin {"incomplete", "exception"} =>
              /\ P4Accepts /\ InStep(OnWire) /\ OnWire.headers \in Seq(Extraction) /\ headers \in Seq(Extraction)
              /\ current = Ingress
              /\ outcome = IF report[1] = Preamble THEN "seed" ELSE "unknown"
         /\ \E k \in Nat : \E c : IsRun(Doubled(prog.parsers), report, c, k) /\ OnWire = c[k] /\ Final(c[k])
<1>1. Progress /\ Position /\ WaysInv /\ SideInv /\ phase = "done" /\ outcome # "none"
  BY DEF Controller, TypeInv, Done, Progress
<1>2. parsers = Doubled(prog.parsers) /\ report \in Seq(Nat) /\ Shaped(Doubled(prog.parsers))
  BY <1>1, ProgFacts DEF Progress
<1>3k. PICK k \in Nat : \E c : Sides(c, k)
  BY <1>1 DEF SideInv
<1>3. PICK c : Sides(c, k)
  BY <1>3k
<1>4. IsRun(Doubled(prog.parsers), report, c, k)
  BY <1>3 DEF Sides
<1>5. outcome \in {"incomplete", "unknown", "exception", "seed"}
  BY <1>1 DEF Progress
<1>6. outcome \in {"incomplete", "exception"} => c[k].state = Dropped
  BY <1>3 DEF Sides
<1>7. outcome \in {"unknown", "seed"} =>
        /\ current = Ingress /\ InStep(c[k])
        /\ outcome = IF report[1] = Preamble THEN "seed" ELSE "unknown"
  BY <1>3 DEF Sides
<1>8. outcome \in {"unknown", "seed"} => c[k].state = Ingress
  BY <1>7 DEF InStep
<1>9. Final(c[k])
  BY <1>5, <1>6, <1>8 DEF Final
<1>10. OnWire = c[k]
  BY <1>2, <1>4, <1>9, RunsEnd DEF OnWire
<1>11. Dropped # Ingress
  BY CloneFacts, NotDropped
<1>12. IsAt(Doubled(prog.parsers), report, c[k])
  BY <1>2, <1>4, RunTyped, k \in 0..k
<1>13. c[k].headers \in Seq(Extraction) /\ headers \in Seq(Extraction)
  BY <1>1, <1>12 DEF IsAt, Position
<1>14. OnWire.state = Dropped => outcome \in {"incomplete", "exception"}
  BY <1>5, <1>8, <1>10, <1>11
<1>15. \E m \in Nat : \E d : IsRun(Doubled(prog.parsers), report, d, m) /\ OnWire = d[m] /\ Final(d[m])
  BY <1>4, <1>9, <1>10
<1>16. outcome \notin {"incomplete", "exception"} =>
         /\ P4Accepts /\ InStep(OnWire) /\ OnWire.headers \in Seq(Extraction) /\ headers \in Seq(Extraction)
         /\ current = Ingress
         /\ outcome = IF report[1] = Preamble THEN "seed" ELSE "unknown"
  BY <1>5, <1>7, <1>8, <1>10, <1>13 DEF P4Accepts
<1> QED
  BY <1>6, <1>10, <1>14, <1>15, <1>16

(* A report cut short never becomes a seed, whatever the program and the   *)
(* report, and nothing is raised but of a report of no byte or one that    *)
(* ends where the parser looks ahead (Packet, parsePacket, addHeader, and  *)
(* the seed's names).                                                      *)
THEOREM ReadingNeverStops == Spec => []NothingStopsReading
<1>1. TypeOK /\ Controller => NothingStopsReading
  <2> SUFFICES ASSUME TypeOK, Controller PROVE NothingStopsReading
    OBVIOUS
  <2>1. Done /\ Supported /\ ReadAlike /\ ~P4Accepts => outcome \in {"incomplete", "exception"}
    BY Ended
  <2>2. ASSUME Done, Supported, outcome = "exception", report # <<>> PROVE AtItsEnd
    <3>1. /\ prog \in Programs /\ report \in Reports /\ parsers = Doubled(prog.parsers)
      BY <2>2 DEF Controller, TypeInv, Progress, Done
    <3>2. /\ read = Len(report) /\ current \in NamesOf(Doubled(prog.parsers))
          /\ Place.select.kind = "current"
      BY <2>2 DEF Controller, WaysInv, Excused
    <3>3. Place.name = current /\ Place \in Range(parsers)
      <4> DEFINE qs == Doubled(prog.parsers)
      <4>1. Shaped(qs)
        BY <3>1, ProgFacts
      <4> HIDE DEF qs
      <4>2. /\ DOMAIN qs = 1..Len(qs) /\ Named(qs, current).name = current
            /\ \E i \in 1..Len(qs) : qs[i].name = current
        BY <3>2, <4>1 DEF Shaped, qs
      <4>3. \E i \in DOMAIN qs : Named(qs, current) = qs[i]
        BY <4>2 DEF Named
      <4> QED
        BY <3>1, <4>2, <4>3 DEF Place, Range, qs
    <3> QED
      BY <3>2, <3>3 DEF AtItsEnd
  <2> QED
    BY <2>1, <2>2 DEF NothingStopsReading
<1> QED
  BY <1>1, ControllerTyped, ControllerInv, PTL

(* What the tester's switch lets through the controller reads as the       *)
(* switch does, header by header, for every program that the JSON and its  *)
(* reader can express and every report (GenerateParserJson, StateMachine,  *)
(* parsePacket and addHeader against the printed parser).                  *)
THEOREM ReadsAsTheSwitch == Spec => [](Supported /\ ReadAlike => Understood)
<1>1. Controller => (Supported /\ ReadAlike => Understood)
  <2> SUFFICES ASSUME Controller, Supported, ReadAlike, Done, P4Accepts
               PROVE  IF report[1] = Preamble THEN outcome = "seed" /\ HeldOf(headers, OnWire.headers)
                      ELSE outcome = "unknown"
    BY DEF Understood
  <2>1. OnWire.state # Dropped
    BY CloneFacts, NotDropped DEF P4Accepts
  <2>2. outcome \notin {"incomplete", "exception"}
    BY <2>1, Ended
  <2>3. /\ InStep(OnWire) /\ OnWire.headers \in Seq(Extraction) /\ headers \in Seq(Extraction)
        /\ outcome = IF report[1] = Preamble THEN "seed" ELSE "unknown"
    BY <2>2, Ended
  <2>4. Holds(headers, OnWire.headers, Len(OnWire.headers))
    BY <2>3 DEF InStep
  <2>5. HeldOf(headers, OnWire.headers)
    BY <2>3, <2>4, HoldsAll
  <2> QED
    BY <2>3, <2>5
<1> QED
  BY <1>1, ControllerInv, PTL

-----------------------------------------------------------------------------
(* The seed is a packet of the program.  The first half of the run is on   *)
(* the program's own states, the second on their copies; what the second   *)
(* half does, the program's own parser does on the words it reads.         *)

LEMMA P4ExtractsIs ==
  ASSUME NEW q \in Parser
  PROVE  /\ P4Extracts(q) \in Seq(Extract)
         /\ \A n \in 1..Len(q.extracts) : \E m \in 1..Len(P4Extracts(q)) : P4Extracts(q)[m] = q.extracts[n]
         /\ \A m \in 1..Len(P4Extracts(q)) :
              \/ P4Extracts(q)[m].header = Visited
              \/ \E n \in 1..Len(q.extracts) : P4Extracts(q)[m] = q.extracts[n]
         /\ q.name # Start => P4Extracts(q) = q.extracts
         /\ q.name = Start /\ q.extracts = <<>> =>
              Len(P4Extracts(q)) = 1 /\ P4Extracts(q)[1] = [header |-> Visited, next |-> 0]
<1> DEFINE v == [header |-> Visited, next |-> 0]
           f == IF q.name = Start THEN <<v>> ELSE <<>>
           es == q.extracts
           all == P4Extracts(q)
<1>1. es \in Seq(Extract)
  BY DEF Parser
<1>2. all = f \o es
  BY DEF P4Extracts
<1>3. v \in Extract /\ v.header = Visited
  BY CloneFacts DEF Extract, Plain, Name
<1> HIDE DEF v
<1>4. f \in Seq(Extract) /\ \A n \in 1..Len(f) : f[n] = v
  <2>1. <<v>> \in Seq(Extract) /\ Len(<<v>>) = 1 /\ <<v>>[1] = v
    BY <1>3
  <2>2. <<>> \in Seq(Extract) /\ Len(<<>>) = 0
    OBVIOUS
  <2>3. \A n \in 1..1 : n = 1
    OBVIOUS
  <2> QED
    BY <2>1, <2>2, <2>3
<1>5. q.name # Start => f = <<>>
  OBVIOUS
<1>6. q.name = Start => f = <<v>> /\ Len(<<v>>) = 1 /\ <<v>>[1] = v
  OBVIOUS
<1> HIDE DEF f, es, all
<1>7. /\ all \in Seq(Extract) /\ Len(all) = Len(f) + Len(es)
      /\ \A n \in 1..Len(all) : all[n] = IF n =< Len(f) THEN f[n] ELSE es[n - Len(f)]
      /\ Len(f) \in Nat /\ Len(es) \in Nat
  BY <1>1, <1>2, <1>4, ConcatProperties
<1>8. \A n \in 1..Len(es) : \E m \in 1..Len(all) : all[m] = es[n]
  <2> TAKE n \in 1..Len(es)
  <2>1. Len(f) + n \in 1..Len(all) /\ ~(Len(f) + n =< Len(f)) /\ (Len(f) + n) - Len(f) = n
    BY <1>7
  <2> QED
    BY <1>7, <2>1
<1>9. \A m \in 1..Len(all) : all[m] = v \/ \E n \in 1..Len(es) : all[m] = es[n]
  <2> TAKE m \in 1..Len(all)
  <2>1. CASE m =< Len(f)
    BY <1>4, <1>7, <2>1
  <2>2. CASE ~(m =< Len(f))
    <3>1. m - Len(f) \in 1..Len(es)
      BY <1>7, <2>2
    <3> QED
      BY <1>7, <2>2, <3>1
  <2> QED
    BY <2>1, <2>2
<1>10. q.name # Start => all = es
  BY <1>1, <1>2, <1>5
<1>11. q.name = Start /\ es = <<>> => Len(all) = 1 /\ all[1] = v
  <2> SUFFICES ASSUME q.name = Start, es = <<>> PROVE Len(all) = 1 /\ all[1] = v
    OBVIOUS
  <2>1. all = f
    BY <1>2, <1>4
  <2> QED
    BY <1>6, <2>1
<1> QED
  BY <1>3, <1>7, <1>8, <1>9, <1>10, <1>11 DEF es, all, v

(* A header read is either one read before or one of the state's.          *)
Reads(q, words, a, b) ==
  /\ \A n \in 1..Len(b.headers) :
       \/ n \in 1..Len(a.headers) /\ b.headers[n] = a.headers[n]
       \/ \E m \in 1..Len(P4Extracts(q)) : n = Len(a.headers) + m
  /\ \A m \in 1..Len(P4Extracts(q)) :
       /\ Len(a.headers) + m \in 1..Len(b.headers)
       /\ b.headers[Len(a.headers) + m].key[1] = P4Extracts(q)[m].header
       /\ b.headers[Len(a.headers) + m].key[2] = P4Extracts(q)[m].next
       /\ b.headers[Len(a.headers) + m].word = words[Len(a.headers) + m]
  /\ \A n \in 1..Len(a.headers) : n \in 1..Len(b.headers) /\ b.headers[n] = a.headers[n]

LEMMA OnwardReads ==
  ASSUME NEW q, NEW words, NEW a, NEW b, a.headers \in Seq(Extraction), Onward(q, words, a, b)
  PROVE  Reads(q, words, a, b)
<1> DEFINE es == P4Extracts(q)
           la == Len(a.headers)
           lb == Len(b.headers)
           le == Len(es)
<1>1. /\ la \in Nat /\ le \in Nat /\ lb = la + le /\ b.headers \in Seq(Extraction)
      /\ \A i \in 1..la : b.headers[i] = a.headers[i]
      /\ \A i \in 1..le : b.headers[la + i] = [key |-> Key(es[i]), word |-> words[la + i]]
  BY DEF Onward
<1> HIDE DEF la, lb, le, es
<1>2. \A n \in 1..lb : n \in 1..la \/ \E m \in 1..le : n = la + m
  <2> TAKE n \in 1..lb
  <2>1. n \in 1..la \/ (n - la \in 1..le /\ n = la + (n - la))
    BY <1>1
  <2> QED
    BY <2>1
<1>3. \A m \in 1..le : /\ la + m \in 1..lb /\ b.headers[la + m].key[1] = es[m].header
                       /\ b.headers[la + m].key[2] = es[m].next /\ b.headers[la + m].word = words[la + m]
  <2> TAKE m \in 1..le
  <2>1. la + m \in 1..lb
    BY <1>1
  <2>4. b.headers[la + m] = [key |-> Key(es[m]), word |-> words[la + m]]
    BY <1>1
  <2>2. b.headers[la + m].key = Key(es[m]) /\ b.headers[la + m].word = words[la + m]
    BY <2>4
  <2>3. b.headers[la + m].key[1] = es[m].header /\ b.headers[la + m].key[2] = es[m].next
    BY <2>2 DEF Key
  <2> QED
    BY <2>1, <2>2, <2>3
<1>4. \A n \in 1..la : n \in 1..lb
  BY <1>1
<1> QED
  BY <1>1, <1>2, <1>3, <1>4 DEF la, lb, le, es, Reads

LEMMA NamesOn ==
  ASSUME NEW hs \in Seq(Extraction), NEW n \in 1..Len(hs)
  PROVE  hs[n].key[1] \in Names(hs)
<1>1. n \in DOMAIN hs
  OBVIOUS
<1>2. hs[n].key \in Keys(hs)
  BY <1>1 DEF Keys
<1> QED
  BY <1>2 DEF Names

LEMMA NamesFrom ==
  ASSUME NEW hs \in Seq(Extraction), NEW h \in Names(hs)
  PROVE  \E n \in 1..Len(hs) : hs[n].key[1] = h
<1>1. PICK k \in Keys(hs) : h = k[1]
  BY DEF Names
<1>2. PICK n \in DOMAIN hs : hs[n].key = k
  BY DEF Keys
<1> QED
  BY <1>1, <1>2

LEMMA RunWays ==
  ASSUME NEW p, IsProgram(p), NEW words \in Seq(Nat), NEW c, NEW k \in Nat,
         IsRun(Doubled(p.parsers), words, c, k)
  PROVE  \A i \in 0..k : c[i].state = Dropped \/ Ways(p, c[i].state, Names(c[i].headers))
<1> DEFINE ps == Doubled(p.parsers)
           S == {i \in 0..k : c[i].state = Dropped \/ Ways(p, c[i].state, Names(c[i].headers))}
<1>1. Shaped(ps)
  BY DoubledShaped
<1>2. /\ c[0] = First /\ \A i \in 1..k : c[i] = P4Step(ps, words, c[i - 1])
      /\ \A i \in 0..k : IsAt(ps, words, c[i])
  BY <1>1, RunIs, RunTyped
<1>3. 0 \in S
  <2>1. c[0].state = Start /\ c[0].headers = <<>>
    BY <1>2 DEF First
  <2>2. Names(<<>>) = {}
    BY DEF Names, Keys
  <2>3. Ways(p, c[0].state, Names(c[0].headers))
    BY <2>1, <2>2, WaysStart
  <2> QED
    BY <2>3
<1>4. ASSUME NEW i \in 1..k, i - 1 \in S PROVE i \in S
  <2> DEFINE a == c[i - 1]
             b == c[i]
  <2>1. IsAt(ps, words, a) /\ IsAt(ps, words, b) /\ b = P4Step(ps, words, a)
        /\ (a.state = Dropped \/ Ways(p, a.state, Names(a.headers)))
    BY <1>2, <1>4
  <2>2. a.state \in {Ingress, Dropped} => b = a
    BY <1>1, <2>1, StepFacts
  <2> HIDE DEF a, b
  <2>3. ASSUME a.state \notin {Ingress, Dropped}, b.state # Dropped PROVE Ways(p, b.state, Names(b.headers))
    <3> DEFINE q == Named(ps, a.state)
               x == Min(P4Cases(q, words, b.headers))
    <3>1. a.state \in NamesOf(ps) /\ a.headers \in Seq(Extraction) /\ b.headers \in Seq(Extraction)
      BY <2>1, <2>3 DEF IsAt
    <3>2. Onward(q, words, a, b)
      BY <1>1, <2>1, <2>3, <3>1, StepOn
    <3>3. Names(a.headers) \subseteq Names(b.headers)
      <4>3. \A n \in 1..Len(a.headers) : n \in 1..Len(b.headers) /\ b.headers[n] = a.headers[n]
        <5>1. Reads(q, words, a, b)
          BY <3>1, <3>2, OnwardReads
        <5> QED
          BY <5>1 DEF Reads
      <4> SUFFICES ASSUME NEW h \in Names(a.headers) PROVE h \in Names(b.headers)
        OBVIOUS
      <4>1. PICK n \in 1..Len(a.headers) : a.headers[n].key[1] = h
        BY <3>1, NamesFrom
      <4>2. n \in 1..Len(b.headers) /\ b.headers[n] = a.headers[n]
        BY <4>3
      <4> QED
        BY <3>1, <4>1, <4>2, NamesOn
    <3>4. \A n \in 1..Len(q.extracts) : q.extracts[n].header \in Names(b.headers)
      <4> TAKE n \in 1..Len(q.extracts)
      <4>1. q \in Parser
        BY <3>2 DEF Onward
      <4>2. PICK m \in 1..Len(P4Extracts(q)) : P4Extracts(q)[m] = q.extracts[n]
        BY <4>1, P4ExtractsIs
      <4>3. /\ Len(a.headers) + m \in 1..Len(b.headers)
            /\ b.headers[Len(a.headers) + m].key[1] = P4Extracts(q)[m].header
        <5>1. Reads(q, words, a, b)
          BY <3>1, <3>2, OnwardReads
        <5> QED
          BY <5>1 DEF Reads
      <4> QED
        BY <3>1, <4>2, <4>3, NamesOn
    <3>5. x \in 1..Len(q.cases) /\ b.state = q.cases[x].to
      BY <3>2 DEF Onward
    <3>6. Ways(p, a.state, Names(a.headers))
      BY <2>1, <2>3
    <3> HIDE DEF x
    <3>7. \A y \in 1..Len(q.cases) : Ways(p, q.cases[y].to, Names(b.headers))
      BY <3>1, <3>3, <3>4, <3>6, WaysStep
    <3> QED
      BY <3>5, <3>7
  <2>4. b.state = Dropped \/ Ways(p, b.state, Names(b.headers))
    BY <2>1, <2>2, <2>3
  <2> QED
    BY <2>4 DEF b
<1> HIDE DEF S
<1>5. 0..k \subseteq S
  BY <1>3, <1>4, InductionUpTo
<1> QED
  BY <1>5 DEF S

(* Up to the copy of start a run is on the program's own states.           *)
LEMMA RunPlain ==
  ASSUME NEW p, IsProgram(p), NEW words \in Seq(Nat), NEW c, NEW k \in Nat,
         IsRun(Doubled(p.parsers), words, c, k), c[k].state = Ingress
  PROVE  \E r \in 1..k : c[r].state = StartClone /\ \A n \in 1..Len(c[r].headers) : c[r].headers[n].key[1] \in Plain
<1> DEFINE ps == Doubled(p.parsers)
           Own(i) == c[i].state \in NamesOf(p.parsers) /\ \A n \in 1..Len(c[i].headers) : c[i].headers[n].key[1] \in Plain
           Turned == \E r \in 1..k : c[r].state = StartClone /\ \A n \in 1..Len(c[r].headers) : c[r].headers[n].key[1] \in Plain
           S == {i \in 0..k : Own(i) \/ Turned}
<1>1. Shaped(ps) /\ Shaped(p.parsers) /\ Ingress \notin NamesOf(p.parsers)
  BY DoubledShaped, ProgramShaped DEF Shaped
<1>2. /\ c[0] = First /\ \A i \in 1..k : c[i] = P4Step(ps, words, c[i - 1])
      /\ \A i \in 0..k : IsAt(ps, words, c[i])
  BY <1>1, RunIs, RunTyped
<1>3. \A i \in 0..k : c[i].state # Dropped
  <2> TAKE i \in 0..k
  <2>1. k \in i..k
    OBVIOUS
  <2>2. Final(c[i]) => c[k] = c[i]
    BY <1>1, <2>1, RunGrows
  <2>3. Ingress # Dropped
    BY CloneFacts, NotDropped
  <2> QED
    BY <2>2, <2>3 DEF Final
<1>4. 0 \in S
  <2>1. c[0].state = Start /\ c[0].headers = <<>> /\ Len(<<>>) = 0
    BY <1>2 DEF First
  <2>2. Start \in NamesOf(p.parsers)
    BY <1>1 DEF Shaped
  <2>3. Own(0)
    BY <2>1, <2>2
  <2> HIDE DEF Own, Turned
  <2> QED
    BY <2>3
<1>5. ASSUME NEW i \in 1..k, i - 1 \in S PROVE i \in S
  <2> SUFFICES ASSUME Own(i - 1) PROVE Own(i) \/ Turned
    <3> HIDE DEF Own, Turned
    <3> QED
      BY <1>5
  <2> DEFINE a == c[i - 1]
             b == c[i]
             q == Named(ps, a.state)
             o == Named(p.parsers, a.state)
  <2>1. IsAt(ps, words, a) /\ IsAt(ps, words, b) /\ b = P4Step(ps, words, a) /\ b.state # Dropped
    BY <1>2, <1>3
  <2>2. a.state \in NamesOf(p.parsers) /\ \A n \in 1..Len(a.headers) : a.headers[n].key[1] \in Plain
    OBVIOUS
  <2>3. a.state \in NamesOf(ps) /\ q = Redirected(o) /\ o \in Parser /\ o.name = a.state
        /\ a.state \in Plain
    <3>1. a.state \in NamesOf(ps)
      BY <2>2, DoubledShaped
    <3>2. q = Redirected(o)
      BY <2>2, DoubledShaped
    <3>3. a.state \in Plain
      BY <2>2, ProgramShaped
    <3>4. o \in Parser /\ o.name = a.state
      BY <1>1, <2>2 DEF Shaped
    <3> QED
      BY <3>1, <3>2, <3>3, <3>4
  <2>4. \A n \in DOMAIN o.extracts : o.extracts[n].header \in Plain
    BY <2>2, ProgramShaped
  <2> HIDE DEF a, o
  <2>5. Onward(q, words, a, b)
    BY <1>1, <2>1, <2>3, StepOn
  <2>6. /\ Len(q.cases) = Len(o.cases) /\ q.extracts = o.extracts /\ q.name = o.name
        /\ \A x \in 1..Len(q.cases) : q.cases[x].to = IF o.cases[x].to = Ingress THEN StartClone ELSE o.cases[x].to
    BY <2>3, CopyFacts, CopyCases
  <2>7. \A x \in 1..Len(o.cases) : o.cases[x].to \in NamesOf(p.parsers) \cup {Ingress}
    <3>1. DOMAIN o.cases = 1..Len(o.cases)
      BY <2>3 DEF Parser
    <3> QED
      BY <1>1, <2>2, <3>1 DEF Shaped, o
  <2> HIDE DEF q, b
  <2>8. b.state \in NamesOf(p.parsers) \cup {StartClone}
    BY <2>5, <2>6, <2>7 DEF Onward
  <2>9. \A n \in 1..Len(P4Extracts(q)) : P4Extracts(q)[n].header \in Plain
    <3>1. q \in Parser /\ q.extracts \in Seq(Extract)
      BY <2>5 DEF Parser, Onward
    <3>2. \A n \in 1..Len(q.extracts) : q.extracts[n].header \in Plain
      BY <2>4, <2>6, <3>1
    <3>3. Visited \in Plain
      BY CloneFacts
    <3> TAKE n \in 1..Len(P4Extracts(q))
    <3>4. P4Extracts(q)[n].header = Visited \/ \E x \in 1..Len(q.extracts) : P4Extracts(q)[n] = q.extracts[x]
      BY <3>1, P4ExtractsIs
    <3> QED
      BY <3>2, <3>3, <3>4
  <2>10. \A n \in 1..Len(b.headers) : b.headers[n].key[1] \in Plain
    <3>1. a.headers \in Seq(Extraction)
      BY <2>1 DEF IsAt
    <3>2. Reads(q, words, a, b)
      BY <2>5, <3>1, OnwardReads
    <3> TAKE n \in 1..Len(b.headers)
    <3>3. \/ n \in 1..Len(a.headers) /\ b.headers[n] = a.headers[n]
          \/ \E m \in 1..Len(P4Extracts(q)) : n = Len(a.headers) + m
      BY <3>2 DEF Reads
    <3>4. \A m \in 1..Len(P4Extracts(q)) : b.headers[Len(a.headers) + m].key[1] = P4Extracts(q)[m].header
      BY <3>2 DEF Reads
    <3> QED
      BY <2>2, <2>9, <3>3, <3>4
  <2>11. CASE b.state \in NamesOf(p.parsers)
    BY <2>10, <2>11 DEF b
  <2>12. CASE b.state = StartClone
    BY <2>10, <2>12 DEF b
  <2> QED
    BY <2>8, <2>11, <2>12
<1>6. Own(k) \/ Turned
  <2> HIDE DEF S
  <2>1. 0..k \subseteq S
    BY <1>4, <1>5, InductionUpTo
  <2> HIDE DEF Own, Turned
  <2> QED
    BY <2>1, k \in 0..k DEF S
<1> QED
  BY <1>1, <1>6

(* Where the program's parser is with the words W, which are those from    *)
(* m on, against where the copy is with all of them.                       *)
Alongside(hs, gs, m) ==
  /\ Len(hs) > 0 /\ Len(gs) = m + (Len(hs) - 1)
  /\ \A n \in 1..(Len(hs) - 1) :
       /\ hs[n + 1].key[1] \in Plain /\ gs[m + n].key[1] = Clone(hs[n + 1].key[1])
       /\ gs[m + n].word = hs[n + 1].word
Beside(p, a, b, m) ==
  /\ a.state \in NamesOf(p.parsers) \cup {Ingress} /\ a.state # Start
  /\ b.state = CloneOf(a.state) /\ Alongside(a.headers, b.headers, m)
Blinkered(p) == \A s \in NamesOf(p.parsers) : Named(p.parsers, s).select.kind # "current"
Behind(words, W, m) ==
  W \in Seq(Nat) /\ Len(W) \in Nat /\ \A i \in 1..(Len(W) - 1) : W[i + 1] = words[m + i]
(* The copy goes on, reading no further than W does.                       *)
Mirrored(p, words, W, m, a, b) ==
  LET b2 == P4Step(Doubled(p.parsers), words, b)
  IN  /\ IsProgram(p) /\ Tidy(p) /\ Blinkered(p) /\ words \in Seq(Nat) /\ m \in Nat /\ Behind(words, W, m)
      /\ IsAt(p.parsers, W, a) /\ IsAt(Doubled(p.parsers), words, b) /\ Beside(p, a, b, m) /\ a.state # Ingress
      /\ b2.state # Dropped /\ Len(b2.headers) + 1 =< m + Len(W)
      /\ Ways(p, b.state, Names(b.headers)) /\ \A n \in 1..m : b.headers[n].key[1] \in Plain

LEMMA MirrorPlaces ==
  ASSUME NEW p, NEW words, NEW W, NEW m, NEW a, NEW b, Mirrored(p, words, W, m, a, b)
  PROVE  LET o == Named(p.parsers, a.state)
             q == Named(Doubled(p.parsers), b.state)
             b2 == P4Step(Doubled(p.parsers), words, b)
         IN  /\ a.state \in NamesOf(p.parsers) /\ a.state \in Plain /\ b.state = Clone(a.state)
             /\ b.state \in NamesOf(Doubled(p.parsers))
             /\ o \in Parser /\ q \in Parser /\ q = MakeCopy(o) /\ TidyParser(Instances(p), o)
             /\ P4Extracts(o) = o.extracts /\ P4Extracts(q) = q.extracts
             /\ \A i \in 1..Len(o.extracts) : o.extracts[i].header \in Plain
             /\ o.select.header \in Plain /\ o.select \in Select
             /\ Onward(q, words, b, b2) /\ Reads(q, words, b, b2)
             /\ \A i \in 1..Len(o.cases) : /\ o.cases[i].to \in NamesOf(p.parsers) \cup {Ingress}
                                           /\ o.cases[i].to # Start
                                           /\ o.select.kind = "none" => o.cases[i].value = Default
<1> DEFINE D == Doubled(p.parsers)
           o == Named(p.parsers, a.state)
           q == Named(D, b.state)
           b2 == P4Step(D, words, b)
<1>1. /\ IsProgram(p) /\ Tidy(p) /\ words \in Seq(Nat) /\ IsAt(D, words, b) /\ b2.state # Dropped
      /\ a.state \in NamesOf(p.parsers) /\ a.state # Start /\ b.state = CloneOf(a.state) /\ a.state # Ingress
  BY DEF Mirrored, Beside
<1>2. Shaped(D) /\ Shaped(p.parsers) /\ NamesOf(p.parsers) \subseteq Plain
  BY <1>1, DoubledShaped, ProgramShaped
<1>3. a.state \in Plain /\ b.state = Clone(a.state) /\ b.state \in NamesOf(D) /\ q = MakeCopy(o)
  BY <1>1, <1>2, DoubledShaped DEF CloneOf
<1>4. o \in Parser /\ q \in Parser /\ o.name = a.state /\ q.name = b.state
  BY <1>1, <1>2, <1>3 DEF Shaped
<1>5. o.select.header \in Plain /\ \A i \in DOMAIN o.extracts : o.extracts[i].header \in Plain
  BY <1>1, ProgramShaped
<1>6. TidyParser(Instances(p), o)
  BY <1>1 DEF Tidy
<1>7. b.state # Start
  BY <1>3, CloneFacts
<1>8. Onward(q, words, b, b2)
  BY <1>1, <1>2, <1>3, StepOn
<1>9. Reads(q, words, b, b2)
  <2>1. b.headers \in Seq(Extraction)
    BY <1>1 DEF IsAt
  <2> HIDE DEF q, b2
  <2> QED
    BY <1>8, <2>1, OnwardReads
<1>10. P4Extracts(o) = o.extracts /\ P4Extracts(q) = q.extracts
  <2> HIDE DEF o, q
  <2> QED
    BY <1>1, <1>4, <1>7, P4ExtractsIs
<1>11. \A i \in 1..Len(o.cases) : /\ o.cases[i].to \in NamesOf(p.parsers) \cup {Ingress}
                                  /\ o.cases[i].to # Start
                                  /\ o.select.kind = "none" => o.cases[i].value = Default
  <2>1. DOMAIN o.cases = 1..Len(o.cases)
    BY <1>4 DEF Parser
  <2>2. \A i \in DOMAIN o.cases : /\ o.cases[i].to \in NamesOf(p.parsers) \cup {Ingress}
                                  /\ o.select.kind = "none" => o.cases[i].value = Default
    BY <1>1, <1>2 DEF Shaped
  <2>3. \A i \in 1..Len(o.cases) : o.cases[i].to # Start
    BY <1>6 DEF TidyParser
  <2> HIDE DEF o
  <2> QED
    BY <2>1, <2>2, <2>3
<1>12. (\A i \in 1..Len(o.extracts) : o.extracts[i].header \in Plain) /\ o.select \in Select
  BY <1>4, <1>5 DEF Parser
<1> QED
  BY <1>1, <1>3, <1>4, <1>5, <1>6, <1>8, <1>9, <1>10, <1>11, <1>12

LEMMA MirrorHeaders ==
  ASSUME NEW p, NEW words, NEW W, NEW m, NEW a, NEW b, Mirrored(p, words, W, m, a, b)
  PROVE  LET o == Named(p.parsers, a.state)
             all == P4Extracted(P4Extracts(o), W, a.headers)
             b2 == P4Step(Doubled(p.parsers), words, b)
         IN  /\ Len(a.headers) + Len(P4Extracts(o)) =< Len(W)
             /\ all \in Seq(Extraction) /\ Len(all) = Len(a.headers) + Len(P4Extracts(o))
             /\ Alongside(all, b2.headers, m)
<1> DEFINE o == Named(p.parsers, a.state)
           q == Named(Doubled(p.parsers), b.state)
           b2 == P4Step(Doubled(p.parsers), words, b)
           es == P4Extracts(o)
           all == P4Extracted(es, W, a.headers)
           la == Len(a.headers)
           lb == Len(b.headers)
           le == Len(es)
<1>1. /\ o \in Parser /\ q = MakeCopy(o) /\ P4Extracts(o) = o.extracts /\ P4Extracts(q) = q.extracts
      /\ \A i \in 1..Len(o.extracts) : o.extracts[i].header \in Plain
      /\ Onward(q, words, b, b2) /\ Reads(q, words, b, b2)
  BY MirrorPlaces
<1>2. /\ W \in Seq(Nat) /\ Len(W) \in Nat /\ \A i \in 1..(Len(W) - 1) : W[i + 1] = words[m + i]
      /\ a.headers \in Seq(Extraction) /\ b.headers \in Seq(Extraction) /\ m \in Nat
      /\ Alongside(a.headers, b.headers, m) /\ Len(b2.headers) + 1 =< m + Len(W)
  BY DEF Mirrored, Behind, IsAt, Beside
<1>3. /\ Len(q.extracts) = Len(o.extracts)
      /\ \A i \in 1..Len(o.extracts) : q.extracts[i].header = Clone(o.extracts[i].header)
  <2>1. /\ Len(q.extracts) = Len(o.extracts)
        /\ \A i \in 1..Len(o.extracts) :
             q.extracts[i] = [header |-> Clone(o.extracts[i].header), next |-> o.extracts[i].next]
    BY <1>1, CopyFacts
  <2> HIDE DEF q, o
  <2>2. ASSUME NEW i \in 1..Len(o.extracts) PROVE q.extracts[i].header = Clone(o.extracts[i].header)
    <3>1. q.extracts[i] = [header |-> Clone(o.extracts[i].header), next |-> o.extracts[i].next]
      BY <2>1
    <3> QED
      BY <3>1
  <2> QED
    BY <2>1, <2>2
<1>4. es \in Seq(Extract)
  BY <1>1, P4ExtractsIs
<1> HIDE DEF q, b2
<1>5. /\ la \in Nat /\ lb \in Nat /\ le \in Nat /\ la > 0 /\ lb = m + (la - 1) /\ Len(b2.headers) = lb + le
  BY <1>1, <1>2, <1>3, <1>4 DEF Alongside, Onward
<1>6. la + le =< Len(W)
  <2> HIDE DEF la, lb, le
  <2> QED
    BY <1>2, <1>5
<1>7. /\ all \in Seq(Extraction) /\ Len(all) = la + le
      /\ \A i \in 1..la : all[i] = a.headers[i]
      /\ \A i \in 1..le : all[la + i] = [key |-> Key(es[i]), word |-> W[la + i]]
  BY <1>2, <1>4, <1>6, ExtractedFacts
<1>8. \A i \in 1..le : /\ es[i].header \in Plain /\ b2.headers[lb + i].key[1] = Clone(es[i].header)
                       /\ b2.headers[lb + i].word = words[lb + i]
  <2>1. es = o.extracts /\ P4Extracts(q) = q.extracts /\ Len(P4Extracts(q)) = le
    BY <1>1, <1>3
  <2>2. \A i \in 1..Len(P4Extracts(q)) :
          b2.headers[lb + i].key[1] = P4Extracts(q)[i].header /\ b2.headers[lb + i].word = words[lb + i]
    BY <1>1 DEF Reads
  <2> HIDE DEF es, le, lb, o
  <2> TAKE i \in 1..le
  <2>3. b2.headers[lb + i].key[1] = q.extracts[i].header /\ b2.headers[lb + i].word = words[lb + i]
    BY <2>1, <2>2
  <2>4. le = Len(o.extracts)
    BY <2>1, <1>3
  <2> QED
    BY <1>1, <1>3, <2>1, <2>3, <2>4
<1>9. \A i \in 1..lb : b2.headers[i] = b.headers[i]
  BY <1>1 DEF Reads
<1> HIDE DEF la, lb, le, es, all, o
<1>10. \A n \in 1..(Len(all) - 1) :
         /\ all[n + 1].key[1] \in Plain /\ b2.headers[m + n].key[1] = Clone(all[n + 1].key[1])
         /\ b2.headers[m + n].word = all[n + 1].word
  <2> TAKE n \in 1..(Len(all) - 1)
  <2>1. CASE n + 1 =< la
    <3>1. n \in 1..(la - 1) /\ n + 1 \in 1..la /\ m + n \in 1..lb
      BY <1>2, <1>5, <2>1
    <3>2. /\ a.headers[n + 1].key[1] \in Plain /\ b.headers[m + n].key[1] = Clone(a.headers[n + 1].key[1])
          /\ b.headers[m + n].word = a.headers[n + 1].word
      BY <1>2, <3>1 DEF Alongside, la
    <3>3. all[n + 1] = a.headers[n + 1] /\ b2.headers[m + n] = b.headers[m + n]
      BY <1>7, <1>9, <3>1
    <3> QED
      BY <3>2, <3>3
  <2>2. CASE n + 1 > la
    <3>1. PICK i \in 1..le : n + 1 = la + i
      <4>1. (n + 1) - la \in 1..le /\ n + 1 = la + ((n + 1) - la)
        BY <1>5, <1>7, <2>2
      <4> QED
        BY <4>1
    <3>2. m + n = lb + i /\ n \in 1..(Len(W) - 1)
      BY <1>2, <1>5, <1>6, <1>7, <3>1
    <3>3. all[n + 1] = [key |-> Key(es[i]), word |-> W[n + 1]]
      BY <1>7, <3>1
    <3>4. all[n + 1].key = Key(es[i]) /\ all[n + 1].word = W[n + 1]
      BY <3>3
    <3>5. all[n + 1].key[1] = es[i].header
      BY <3>4 DEF Key
    <3>6. W[n + 1] = words[m + n]
      BY <1>2, <3>2
    <3> QED
      BY <1>8, <3>2, <3>4, <3>5, <3>6
  <2> QED
    BY <1>5, <1>7, <2>1, <2>2
<1>11. Alongside(all, b2.headers, m)
  <2>1. Len(all) > 0 /\ Len(b2.headers) = m + (Len(all) - 1)
    BY <1>2, <1>5, <1>7
  <2> QED
    BY <1>10, <2>1 DEF Alongside
<1> QED
  BY <1>6, <1>7, <1>11 DEF la, le, es, all, o, b2

(* Both look at the same word: of two lists alongside each other the last  *)
(* ones are alike, and so are the last ones of a name.                     *)
LEMMA LastAlongside ==
  ASSUME NEW hs \in Seq(Extraction), NEW gs \in Seq(Extraction), NEW m \in Nat, Alongside(hs, gs, m), Len(hs) > 1
  PROVE  gs[Len(gs)].word = hs[Len(hs)].word
<1> DEFINE n == Len(hs) - 1
<1>1. n \in 1..(Len(hs) - 1) /\ n + 1 = Len(hs) /\ m + n = Len(gs)
  BY DEF Alongside
<1>2. gs[m + n].word = hs[n + 1].word
  BY <1>1 DEF Alongside
<1> QED
  BY <1>1, <1>2

LEMMA NamedAlongside ==
  ASSUME NEW hs \in Seq(Extraction), NEW gs \in Seq(Extraction), NEW m \in Nat, Alongside(hs, gs, m),
         \A n \in 1..m : gs[n].key[1] \in Plain, NEW h \in Plain, Clone(h) \in Names(gs)
  PROVE  hs[Max({i \in DOMAIN hs : hs[i].key[1] = h})].word = gs[Max({i \in DOMAIN gs : gs[i].key[1] = Clone(h)})].word
<1> DEFINE lh == Len(hs)
           lg == Len(gs)
           is == {i \in DOMAIN hs : hs[i].key[1] = h}
           js == {i \in DOMAIN gs : gs[i].key[1] = Clone(h)}
           x == Max(is)
           y == Max(js)
<1>1. /\ lh \in Nat /\ lg \in Nat /\ lh > 0 /\ lg = m + (lh - 1) /\ DOMAIN hs = 1..lh /\ DOMAIN gs = 1..lg
      /\ \A n \in 1..(lh - 1) : /\ hs[n + 1].key[1] \in Plain /\ gs[m + n].key[1] = Clone(hs[n + 1].key[1])
                                /\ gs[m + n].word = hs[n + 1].word
  BY DEF Alongside
<1>2. js # {}
  <2>1. PICK i \in 1..Len(gs) : gs[i].key[1] = Clone(h)
    BY NamesFrom
  <2>2. i \in js
    BY <1>1, <2>1
  <2> QED
    BY <2>2
<1> HIDE DEF lh, lg
<1>3. js \in SUBSET (0..lg) /\ is \in SUBSET (0..lh)
  BY <1>1
<1>4. y \in js /\ \A i \in js : i =< y
  <2> HIDE DEF js
  <2> QED
    BY <1>1, <1>2, <1>3, MaxIs
<1>5. y \in 1..lg /\ gs[y].key[1] = Clone(h)
  BY <1>1, <1>4
<1> HIDE DEF y, x
<1>6. ~(y =< m)
  <2> SUFFICES ASSUME y =< m PROVE FALSE
    OBVIOUS
  <2>1. y \in 1..m
    BY <1>1, <1>5
  <2>2. gs[y].key[1] \in Plain /\ Clone(h) \notin Plain
    BY <2>1, CloneFacts
  <2> QED
    BY <1>5, <2>2
<1>7. PICK n \in 1..(lh - 1) : y = m + n
  <2>1. y - m \in 1..(lh - 1) /\ y = m + (y - m)
    BY <1>1, <1>5, <1>6
  <2> QED
    BY <2>1
<1>8. hs[n + 1].key[1] \in Plain /\ Clone(h) = Clone(hs[n + 1].key[1]) /\ gs[y].word = hs[n + 1].word
  BY <1>1, <1>5, <1>7
<1>9. hs[n + 1].key[1] = h
  BY <1>8, CloneFacts
<1>10. n + 1 \in is
  BY <1>1, <1>9
<1>11. x \in is /\ \A i \in is : i =< x
  <2>1. is # {}
    BY <1>10
  <2> HIDE DEF is
  <2> QED
    BY <1>1, <1>3, <2>1, MaxIs DEF x
<1>12. x = n + 1
  <2>1. x \in 1..lh /\ hs[x].key[1] = h /\ n + 1 =< x
    BY <1>1, <1>10, <1>11
  <2>2. PICK z \in 1..(lh - 1) : x = z + 1
    <3>1. x - 1 \in 1..(lh - 1) /\ x = (x - 1) + 1
      BY <1>1, <2>1
    <3> QED
      BY <3>1
  <2>3. gs[m + z].key[1] = Clone(h)
    BY <1>1, <2>1, <2>2
  <2>4. m + z \in 1..lg
    BY <1>1
  <2>5. m + z \in js
    BY <1>1, <2>3, <2>4
  <2>6. m + z =< m + n
    BY <1>4, <1>7, <2>5
  <2> HIDE DEF is, js
  <2> QED
    BY <1>1, <2>1, <2>2, <2>6
<1> QED
  BY <1>8, <1>12 DEF x, y

LEMMA MirrorLooks ==
  ASSUME NEW p, NEW words, NEW W, NEW m, NEW a, NEW b, Mirrored(p, words, W, m, a, b),
         Named(p.parsers, a.state).select.kind \in {"latest", "field"}
  PROVE  LET o == Named(p.parsers, a.state)
             q == Named(Doubled(p.parsers), b.state)
             all == P4Extracted(P4Extracts(o), W, a.headers)
             b2 == P4Step(Doubled(p.parsers), words, b)
         IN  P4Looked(o.select, W, all) = P4Looked(q.select, words, b2.headers)
<1> DEFINE o == Named(p.parsers, a.state)
           q == Named(Doubled(p.parsers), b.state)
           all == P4Extracted(P4Extracts(o), W, a.headers)
           b2 == P4Step(Doubled(p.parsers), words, b)
           es == P4Extracts(o)
<1>1. /\ o \in Parser /\ q = MakeCopy(o) /\ es = o.extracts /\ P4Extracts(q) = q.extracts
      /\ TidyParser(Instances(p), o) /\ o.select.header \in Plain /\ o.select \in Select
      /\ Onward(q, words, b, b2) /\ Reads(q, words, b, b2)
      /\ b.state \in NamesOf(Doubled(p.parsers)) /\ b.state = Clone(a.state)
  BY MirrorPlaces
<1>2. /\ all \in Seq(Extraction) /\ Len(all) = Len(a.headers) + Len(es) /\ Alongside(all, b2.headers, m)
  BY MirrorHeaders
<1>3. /\ m \in Nat /\ IsProgram(p) /\ Tidy(p) /\ a.headers \in Seq(Extraction) /\ Len(a.headers) > 0
      /\ b.headers \in Seq(Extraction) /\ Len(b.headers) = m + (Len(a.headers) - 1)
      /\ Ways(p, b.state, Names(b.headers)) /\ \A n \in 1..m : b.headers[n].key[1] \in Plain
  BY DEF Mirrored, IsAt, Beside, Alongside
<1>4. b2.headers \in Seq(Extraction)
  BY <1>1 DEF Onward
<1>5. q.select = SelectCopy(o.select)
  BY <1>1, CopyFacts
<1>6. CASE o.select.kind = "latest"
  <2>1. q.select.kind = "latest"
    BY <1>1, <1>5, <1>6, SelectCopyKind
  <2>2. Len(es) > 0
    <3>1. o.extracts # <<>> /\ o.extracts \in Seq(Extract)
      BY <1>1, <1>6 DEF TidyParser, Parser
    <3> HIDE DEF es, o
    <3> QED
      BY <1>1, <3>1
  <2>3. Len(all) > 1
    <3>1. Len(a.headers) \in Nat /\ Len(es) \in Nat
      <4>1. es \in Seq(Extract)
        BY <1>1, P4ExtractsIs
      <4> QED
        BY <1>3, <4>1
    <3> HIDE DEF all, es
    <3> QED
      BY <1>2, <1>3, <2>2, <3>1
  <2>4. b2.headers[Len(b2.headers)].word = all[Len(all)].word
    <3> HIDE DEF all, b2
    <3> QED
      BY <1>2, <1>3, <1>4, <2>3, LastAlongside
  <2>5. P4Looked(o.select, W, all) = all[Len(all)].word
    BY <1>6 DEF P4Looked
  <2>6. P4Looked(q.select, words, b2.headers) = b2.headers[Len(b2.headers)].word
    BY <2>1 DEF P4Looked
  <2> QED
    BY <2>4, <2>5, <2>6
<1>7. CASE o.select.kind = "field"
  <2> DEFINE h == o.select.header
  <2>1. q.select.kind = "field" /\ q.select.header = Clone(h)
    <3>1. q.select = [o.select EXCEPT !.header = Clone(h)]
      BY <1>5, <1>7 DEF SelectCopy
    <3> HIDE DEF q, h
    <3> QED
      BY <1>1, <1>7, <3>1 DEF Select
  <2>2. Names(b.headers) \subseteq Names(b2.headers)
    <3> SUFFICES ASSUME NEW g \in Names(b.headers) PROVE g \in Names(b2.headers)
      OBVIOUS
    <3>1. PICK n \in 1..Len(b.headers) : b.headers[n].key[1] = g
      BY <1>3, NamesFrom
    <3>2. n \in 1..Len(b2.headers) /\ b2.headers[n] = b.headers[n]
      BY <1>1 DEF Reads
    <3> QED
      BY <1>4, <3>1, <3>2, NamesOn
  <2>3. \A n \in 1..Len(q.extracts) : q.extracts[n].header \in Names(b2.headers)
    <3> TAKE n \in 1..Len(q.extracts)
    <3>1. /\ Len(b.headers) + n \in 1..Len(b2.headers)
          /\ b2.headers[Len(b.headers) + n].key[1] = q.extracts[n].header
      BY <1>1 DEF Reads
    <3> QED
      BY <1>4, <3>1, NamesOn
  <2>4. Ways(p, b.state, Names(b2.headers))
    BY <1>3, <2>2, WaysMore
  <2>5. q.select.header \in Names(b2.headers)
    <3> HIDE DEF b2
    <3> QED
      BY <1>1, <1>3, <2>1, <2>3, <2>4, FieldFound
  <2>6. \A n \in 1..m : b2.headers[n].key[1] \in Plain
    <3> TAKE n \in 1..m
    <3>1. n \in 1..Len(b.headers)
      BY <1>3
    <3>2. b2.headers[n] = b.headers[n]
      BY <1>1, <3>1 DEF Reads
    <3> QED
      BY <1>3, <3>2
  <2>7. all[Max({i \in DOMAIN all : all[i].key[1] = h})].word
          = b2.headers[Max({i \in DOMAIN b2.headers : b2.headers[i].key[1] = Clone(h)})].word
    <3>1. h \in Plain /\ Clone(h) \in Names(b2.headers)
      BY <1>1, <2>1, <2>5
    <3> HIDE DEF all, b2, h
    <3> QED
      BY <1>2, <1>3, <1>4, <2>6, <3>1, NamedAlongside
  <2>8. P4Looked(o.select, W, all) = all[Max({i \in DOMAIN all : all[i].key[1] = h})].word
    BY <1>7 DEF P4Looked
  <2>9. P4Looked(q.select, words, b2.headers)
          = b2.headers[Max({i \in DOMAIN b2.headers : b2.headers[i].key[1] = Clone(h)})].word
    <3> HIDE DEF b2, q
    <3> QED
      BY <2>1 DEF P4Looked
  <2> QED
    BY <2>7, <2>8, <2>9
<1> QED
  BY <1>6, <1>7

LEMMA MirrorCases ==
  ASSUME NEW p, NEW words, NEW W, NEW m, NEW a, NEW b, Mirrored(p, words, W, m, a, b)
  PROVE  LET o == Named(p.parsers, a.state)
             q == Named(Doubled(p.parsers), b.state)
             all == P4Extracted(P4Extracts(o), W, a.headers)
             b2 == P4Step(Doubled(p.parsers), words, b)
         IN  P4Cases(o, W, all) = P4Cases(q, words, b2.headers)
<1> DEFINE o == Named(p.parsers, a.state)
           q == Named(Doubled(p.parsers), b.state)
           all == P4Extracted(P4Extracts(o), W, a.headers)
           gs == P4Step(Doubled(p.parsers), words, b).headers
           w == P4Looked(o.select, W, all)
           v == P4Looked(q.select, words, gs)
<1>1. /\ o \in Parser /\ q \in Parser /\ q = MakeCopy(o) /\ o.select \in Select
      /\ \A i \in 1..Len(o.cases) : o.select.kind = "none" => o.cases[i].value = Default
  <2>1. o \in Parser /\ q \in Parser /\ q = MakeCopy(o) /\ o.select \in Select
    BY MirrorPlaces
  <2>2. \A i \in 1..Len(o.cases) : /\ o.cases[i].to \in NamesOf(p.parsers) \cup {Ingress}
                                   /\ o.cases[i].to # Start
                                   /\ o.select.kind = "none" => o.cases[i].value = Default
    BY MirrorPlaces
  <2> HIDE DEF o, q
  <2> QED
    BY <2>1, <2>2
<1>2. o.select.kind \in {"none", "port", "latest", "field"}
  <2>1. o.select.kind # "current"
    BY MirrorPlaces DEF Mirrored, Blinkered
  <2> HIDE DEF o
  <2> QED
    BY <1>1, <2>1 DEF Select
<1>3. o.select.kind \in {"latest", "field"} => w = v
  BY MirrorLooks
<1>4. q.select.kind = o.select.kind
  BY <1>1, CopyFacts, SelectCopyKind
<1>5. Len(q.cases) = Len(o.cases) /\ \A i \in 1..Len(o.cases) : q.cases[i].value = o.cases[i].value
  BY <1>1, CopyFacts, CopyCases
<1>6. DOMAIN o.cases = 1..Len(o.cases) /\ DOMAIN q.cases = 1..Len(q.cases)
  BY <1>1 DEF Parser
<1>7. /\ P4Cases(o, W, all) = {i \in DOMAIN o.cases :
           o.cases[i].value # Default => o.select.kind # "port" /\ P4Takes(o.cases[i].value, w)}
      /\ P4Cases(q, words, gs) = {i \in DOMAIN q.cases :
           q.cases[i].value # Default => q.select.kind # "port" /\ P4Takes(q.cases[i].value, v)}
  BY DEF P4Cases
<1> HIDE DEF o, q, all, gs, w, v
<1>8. P4Cases(o, W, all) = P4Cases(q, words, gs)
  BY <1>1, <1>2, <1>3, <1>4, <1>5, <1>6, <1>7
<1> QED
  BY <1>8 DEF o, q, all, gs

LEMMA MirrorStep ==
  ASSUME NEW p, NEW words, NEW W, NEW m, NEW a, NEW b, Mirrored(p, words, W, m, a, b)
  PROVE  Beside(p, P4Step(p.parsers, W, a), P4Step(Doubled(p.parsers), words, b), m)
<1> DEFINE o == Named(p.parsers, a.state)
           q == Named(Doubled(p.parsers), b.state)
           es == P4Extracts(o)
           all == P4Extracted(es, W, a.headers)
           b2 == P4Step(Doubled(p.parsers), words, b)
           a2 == P4Step(p.parsers, W, a)
           cases == P4Cases(o, W, all)
           x == Min(cases)
           n == Len(a.headers) + Len(es) + (IF P4LooksAhead(o) THEN 1 ELSE 0)
<1> SUFFICES Beside(p, a2, b2, m)
  OBVIOUS
<1>1. /\ a.state \in NamesOf(p.parsers) /\ a.state \in Plain
      /\ o \in Parser /\ q = MakeCopy(o) /\ Onward(q, words, b, b2)
  BY MirrorPlaces
<1>2. \A i \in 1..Len(o.cases) : /\ o.cases[i].to \in NamesOf(p.parsers) \cup {Ingress}
                                 /\ o.cases[i].to # Start
                                 /\ o.select.kind = "none" => o.cases[i].value = Default
  BY MirrorPlaces
<1>3. Len(a.headers) + Len(es) =< Len(W) /\ Alongside(all, b2.headers, m)
  BY MirrorHeaders
<1>4. P4Cases(q, words, b2.headers) = cases
  BY MirrorCases
<1>5. /\ IsProgram(p) /\ IsAt(p.parsers, W, a) /\ Blinkered(p) /\ a.state # Ingress /\ W \in Seq(Nat)
  BY DEF Mirrored, Behind
<1>6. a = [state |-> a.state, headers |-> a.headers] /\ a.headers \in Seq(Extraction)
      /\ a.state \notin {Ingress, Dropped}
  BY <1>1, <1>5, CloneFacts, NotDropped DEF IsAt
<1>7. o.select.kind # "current"
  BY <1>1, <1>5 DEF Blinkered
<1>8. ~(n > Len(W))
  <2>1. ~P4LooksAhead(o)
    <3> HIDE DEF o
    <3> QED
      BY <1>7 DEF P4LooksAhead
  <2>2. es \in Seq(Extract)
    BY <1>1, P4ExtractsIs
  <2>3. n = Len(a.headers) + Len(es) + 0
    BY <2>1
  <2>4. Len(a.headers) \in Nat /\ Len(es) \in Nat /\ Len(W) \in Nat
    BY <1>5, <1>6, <2>2
  <2> HIDE DEF n, es
  <2> QED
    BY <1>3, <2>3, <2>4
<1>9. cases # {} /\ x \in 1..Len(q.cases) /\ b2.state = q.cases[x].to
  <2> HIDE DEF q, b2, cases
  <2> QED
    BY <1>1, <1>4 DEF Onward
<1>10. a2 = [state |-> o.cases[x].to, headers |-> all]
  <2>1. ~(n > Len(W)) /\ cases # {} => a2 = [state |-> o.cases[x].to, headers |-> all]
    <3>1. a = [state |-> a.state, headers |-> a.headers] /\ a.state \notin {Ingress, Dropped}
      BY <1>6
    <3> QED
      BY <3>1, StepAt, Zenon
  <2> HIDE DEF n, cases, a2, o, x, all
  <2> QED
    BY <1>8, <1>9, <2>1
<1>11. x \in 1..Len(o.cases) /\ q.cases[x].to = CloneOf(o.cases[x].to)
  <2>1. Len(q.cases) = Len(o.cases)
    BY <1>1, CopyFacts
  <2>2. x \in 1..Len(o.cases)
    BY <1>9, <2>1
  <2> HIDE DEF x
  <2> QED
    BY <1>1, <2>2, CopyCases
<1> HIDE DEF a2, b2, all, cases, x, o, q
<1>12. a2.state = o.cases[x].to /\ a2.headers = all
  BY <1>10
<1> QED
  BY <1>2, <1>3, <1>9, <1>11, <1>12 DEF Beside

(* The first step, out of start: it extracts nothing of its own and takes  *)
(* its default.                                                            *)
LEMMA StartDefault ==
  ASSUME NEW p, IsProgram(p), Tidy(p), Blinkered(p)
  PROVE  LET o == Named(p.parsers, Start)
         IN  /\ Start \in NamesOf(p.parsers) /\ o \in Parser /\ o.name = Start /\ o.extracts = <<>>
             /\ o.select.kind \in {"none", "port"} /\ Len(o.cases) \in 1..Len(o.cases)
             /\ \A i \in 1..Len(o.cases) : o.cases[i].value = Default <=> i = Len(o.cases)
             /\ o.cases[Len(o.cases)].to \in NamesOf(p.parsers) \cup {Ingress}
             /\ o.cases[Len(o.cases)].to # Start
             /\ \A words, all : P4Cases(o, words, all) = {Len(o.cases)}
             /\ \A words, all : P4Cases(MakeCopy(o), words, all) = {Len(o.cases)}
<1> DEFINE o == Named(p.parsers, Start)
           n == Len(o.cases)
<1>1. Shaped(p.parsers) /\ Start \in NamesOf(p.parsers)
  BY ProgramShaped DEF Shaped
<1>2. o \in Parser /\ o.name = Start /\ TidyParser(Instances(p), o) /\ Selects(p.parsers, o)
      /\ o.select.kind # "current" /\ o.cases # <<>>
  BY <1>1 DEF Shaped, Tidy, Blinkered
<1>3. \A i \in DOMAIN o.cases : /\ o.cases[i].to \in NamesOf(p.parsers) \cup {Ingress}
                                /\ o.select.kind = "none" => o.cases[i].value = Default
  BY <1>1 DEF Shaped
<1> HIDE DEF o
<1>4. /\ o.extracts = <<>>
      /\ \A i \in 1..n : (o.cases[i].value = Default <=> i = n) /\ o.cases[i].to # Start
      /\ o.select.kind # "latest"
  BY <1>2 DEF TidyParser
<1>5. o.cases \in Seq(Branch) /\ o.select \in Select
  BY <1>2 DEF Parser
<1>6. DOMAIN o.cases = 1..n /\ n \in 1..n /\ n \in Nat
  BY <1>2, <1>5
<1>7. o.select.kind # "field"
  <2> SUFFICES ASSUME o.select.kind = "field" PROVE FALSE
    OBVIOUS
  <2>1. Headers(o) = {}
    BY <1>4 DEF Headers, Range
  <2>2. \E ns \in Without(p.parsers, o.select.header) : Start \notin ns
    BY <1>2, <2>1 DEF Selects
  <2> QED
    BY <2>2 DEF Without
<1>8. o.select.kind \in {"none", "port"}
  BY <1>2, <1>4, <1>5, <1>7 DEF Select
<1>9. \A words, all : P4Cases(o, words, all) = {n}
  <2> TAKE words, all
  <2> HIDE DEF n
  <2>1. \A i \in 1..n : (o.cases[i].value # Default => o.select.kind # "port") <=> i = n
    BY <1>3, <1>4, <1>6, <1>8
  <2>2. \A i \in 1..n : i \in P4Cases(o, words, all) <=> i = n
    BY <1>4, <1>6, <2>1 DEF P4Cases, n
  <2>3. P4Cases(o, words, all) \subseteq 1..n
    BY <1>6 DEF P4Cases
  <2> QED
    BY <1>6, <2>2, <2>3
<1>10. \A words, all : P4Cases(MakeCopy(o), words, all) = {n}
  <2> TAKE words, all
  <2> DEFINE q == MakeCopy(o)
  <2>1. q.select.kind = o.select.kind
    BY <1>2, <1>5, CopyFacts, SelectCopyKind
  <2>2. Len(q.cases) = n /\ \A i \in 1..n : q.cases[i].value = o.cases[i].value
    BY <1>2, CopyFacts, CopyCases
  <2>3. DOMAIN q.cases = 1..n
    <3>1. q \in Parser
      BY <1>2, CopyFacts
    <3> HIDE DEF q
    <3> QED
      BY <2>2, <3>1 DEF Parser
  <2> HIDE DEF n, q
  <2>4. \A i \in 1..n : (q.cases[i].value # Default => q.select.kind # "port") <=> i = n
    BY <1>3, <1>4, <1>6, <1>8, <2>1, <2>2
  <2>5. \A i \in 1..n : i \in P4Cases(q, words, all) <=> i = n
    BY <1>4, <1>6, <2>2, <2>3, <2>4 DEF P4Cases, n
  <2>6. P4Cases(q, words, all) \subseteq 1..n
    BY <2>3 DEF P4Cases
  <2> QED
    BY <1>6, <2>5, <2>6 DEF q
<1>11. o.cases[n].to \in NamesOf(p.parsers) \cup {Ingress} /\ o.cases[n].to # Start
  BY <1>3, <1>4, <1>6
<1> QED
  BY <1>1, <1>2, <1>4, <1>6, <1>8, <1>9, <1>10, <1>11 DEF o

LEMMA MirrorBegins ==
  ASSUME NEW p, IsProgram(p), Tidy(p), Blinkered(p), NEW words \in Seq(Nat), NEW W, NEW m \in Nat,
         Behind(words, W, m), Len(W) > 0, NEW b, IsAt(Doubled(p.parsers), words, b), b.state = StartClone,
         Len(b.headers) = m, P4Step(Doubled(p.parsers), words, b).state # Dropped
  PROVE  Beside(p, P4Step(p.parsers, W, First), P4Step(Doubled(p.parsers), words, b), m)
<1> DEFINE o == Named(p.parsers, Start)
           D == Doubled(p.parsers)
           q == Named(D, b.state)
           b2 == P4Step(D, words, b)
           a2 == P4Step(p.parsers, W, First)
           es == P4Extracts(o)
           all == P4Extracted(es, W, <<>>)
           cases == P4Cases(o, W, all)
           l == Len(o.cases)
           n == Len(First.headers) + Len(es) + (IF P4LooksAhead(o) THEN 1 ELSE 0)
<1> SUFFICES Beside(p, a2, b2, m)
  OBVIOUS
<1>1. /\ Start \in NamesOf(p.parsers) /\ o \in Parser /\ o.name = Start /\ o.extracts = <<>>
      /\ o.select.kind \in {"none", "port"} /\ l \in 1..l
      /\ o.cases[l].to \in NamesOf(p.parsers) \cup {Ingress} /\ o.cases[l].to # Start
      /\ \A ws, hs : P4Cases(o, ws, hs) = {l}
      /\ \A ws, hs : P4Cases(MakeCopy(o), ws, hs) = {l}
  BY StartDefault
<1>2. /\ Shaped(D) /\ StartClone = Clone(Start) /\ StartClone # Start
      /\ q = MakeCopy(o) /\ b.state \in NamesOf(D)
  <2>1. Start \in Plain /\ StartClone = Clone(Start) /\ Clone(Start) \notin Plain
    BY CloneFacts
  <2>2. Shaped(D) /\ Named(D, Clone(Start)) = MakeCopy(o) /\ Clone(Start) \in NamesOf(D)
    BY <1>1, DoubledShaped
  <2> QED
    BY <2>1, <2>2
<1>3. Onward(q, words, b, b2)
  BY <1>2, StepOn
<1>4. First.state = Start /\ First.headers = <<>> /\ First = [state |-> First.state, headers |-> First.headers]
      /\ First.state \notin {Ingress, Dropped} /\ Len(<<>>) = 0
  <2>1. Start # Ingress /\ Start # Dropped
    BY CloneFacts, NotDropped
  <2> QED
    BY <2>1 DEF First
<1>5. Len(es) = 1 /\ es \in Seq(Extract)
  BY <1>1, P4ExtractsIs
<1>6. P4Extracts(q) = q.extracts /\ Len(q.extracts) = 0
  <2>1. q \in Parser /\ q.name = Clone(o.name) /\ Len(q.extracts) = Len(o.extracts)
    BY <1>1, <1>2, CopyFacts
  <2>2. q.name # Start
    BY <1>1, <1>2, <2>1
  <2> HIDE DEF q
  <2>3. P4Extracts(q) = q.extracts
    BY <2>1, <2>2, P4ExtractsIs
  <2> QED
    BY <1>1, <1>4, <2>1, <2>3
<1>7. b2.headers \in Seq(Extraction) /\ Len(b2.headers) = m /\ b2.state = q.cases[l].to
  <2>1. Min({l}) = l
    <3>1. {l} \in SUBSET Nat /\ {l} # {}
      BY <1>1
    <3> HIDE DEF l
    <3> QED
      BY <3>1, MinIs
  <2>2. P4Cases(q, words, b2.headers) = {l}
    BY <1>1, <1>2
  <2>3. Len(P4Extracts(q)) = 0
    BY <1>6
  <2> HIDE DEF q, b2, l
  <2>4. b2.headers \in Seq(Extraction) /\ Len(b2.headers) = Len(b.headers) + Len(P4Extracts(q))
    BY <1>3 DEF Onward
  <2>5. b2.state = q.cases[Min(P4Cases(q, words, b2.headers))].to
    BY <1>3 DEF Onward
  <2> QED
    BY <2>1, <2>2, <2>3, <2>4, <2>5
<1>8. ~(n > Len(W))
  <2>1. ~P4LooksAhead(o)
    <3> HIDE DEF o
    <3> QED
      BY <1>1 DEF P4LooksAhead
  <2>2. n = 0 + 1 + 0
    BY <1>4, <1>5, <2>1
  <2>3. Len(W) \in Nat
    BY DEF Behind
  <2> HIDE DEF n
  <2> QED
    BY <2>2, <2>3
<1>9. cases = {l} /\ cases # {} /\ Min(cases) = l
  <2>1. Min({l}) = l
    <3>1. {l} \in SUBSET Nat /\ {l} # {}
      BY <1>1
    <3> HIDE DEF l
    <3> QED
      BY <3>1, MinIs
  <2>2. cases = {l}
    BY <1>1
  <2> HIDE DEF cases
  <2> QED
    BY <2>1, <2>2
<1>10. a2 = [state |-> o.cases[l].to, headers |-> all]
  <2> DEFINE o1 == Named(p.parsers, First.state)
             all1 == P4Extracted(P4Extracts(o1), W, First.headers)
             cases1 == P4Cases(o1, W, all1)
             n1 == Len(First.headers) + Len(P4Extracts(o1)) + (IF P4LooksAhead(o1) THEN 1 ELSE 0)
  <2>1. ~(n1 > Len(W)) /\ cases1 # {} => a2 = [state |-> o1.cases[Min(cases1)].to, headers |-> all1]
    <3>1. First = [state |-> First.state, headers |-> First.headers] /\ First.state \notin {Ingress, Dropped}
      BY <1>4
    <3> QED
      BY ONLY <3>1, StepAt
  <2>2. o1 = o
    BY <1>4
  <2>3. all1 = all /\ n1 = n
    BY <1>4, <2>2
  <2>4. cases1 = cases
    BY <2>2, <2>3
  <2> HIDE DEF o, all, n, cases, o1, all1, n1, cases1, l, a2
  <2> QED
    BY <1>8, <1>9, <2>1, <2>2, <2>3, <2>4
<1>11. q.cases[l].to = CloneOf(o.cases[l].to)
  <2> HIDE DEF l, o
  <2> QED
    BY <1>1, <1>2, CopyCases DEF l
<1>12. Len(all) = 1
  <2>1. W \in Seq(Nat) /\ <<>> \in Seq(Extraction) /\ Len(<<>>) + Len(es) =< Len(W)
    BY <1>4, <1>5 DEF Behind
  <2>2. Len(all) = Len(<<>>) + Len(es)
    BY <1>5, <2>1, ExtractedFacts
  <2> QED
    BY <1>4, <1>5, <2>2
<1> HIDE DEF a2, b2, all, cases, l, o, q
<1>13. a2.state = o.cases[l].to /\ a2.headers = all
  BY <1>10
<1>14. Alongside(all, b2.headers, m)
  BY <1>7, <1>12 DEF Alongside
<1> QED
  BY <1>1, <1>7, <1>11, <1>13, <1>14 DEF Beside

LEMMA MirrorRun ==
  ASSUME NEW p, IsProgram(p), Tidy(p), Blinkered(p), NEW words \in Seq(Nat), NEW c, NEW k \in Nat,
         IsRun(Doubled(p.parsers), words, c, k), c[k].state = Ingress,
         NEW r \in 1..k, c[r].state = StartClone, NEW m, m = Len(c[r].headers),
         \A n \in 1..m : c[r].headers[n].key[1] \in Plain,
         NEW W, Behind(words, W, m), Len(W) + m = Len(c[k].headers) + 1,
         NEW e, IsRun(p.parsers, W, e, k - r)
  PROVE  r < k /\ Beside(p, e[k - r], c[k], m)
<1> DEFINE D == Doubled(p.parsers)
           S == {j \in 0..(k - r) : j = 0 \/ Beside(p, e[j], c[r + j], m)}
<1>1. Shaped(D) /\ Shaped(p.parsers)
  BY DoubledShaped, ProgramShaped
<1>2. /\ \A i \in 1..k : c[i] = P4Step(D, words, c[i - 1])
      /\ \A i \in 0..k : IsAt(D, words, c[i])
  BY <1>1, RunIs, RunTyped
<1>3. k - r \in Nat /\ W \in Seq(Nat) /\ Len(W) \in Nat
  BY DEF Behind
<1>4. /\ e[0] = First /\ \A j \in 1..(k - r) : e[j] = P4Step(p.parsers, W, e[j - 1])
      /\ \A j \in 0..(k - r) : IsAt(p.parsers, W, e[j])
  BY <1>1, <1>3, RunIs, RunTyped
<1>5. m \in Nat
  <2>1. r \in 0..k
    OBVIOUS
  <2>2. c[r].headers \in Seq(Extraction)
    BY <1>2, <2>1 DEF IsAt
  <2> QED
    BY <2>2
<1>6. \A i \in 0..k : c[i].state # Dropped
  <2> TAKE i \in 0..k
  <2>1. k \in i..k
    OBVIOUS
  <2>2. Final(c[i]) => c[k] = c[i]
    BY <1>1, <2>1, RunGrows
  <2>3. Ingress # Dropped
    BY CloneFacts, NotDropped
  <2> QED
    BY <2>2, <2>3 DEF Final
<1>7. \A i \in r..k : \A n \in 1..m : c[i].headers[n].key[1] \in Plain
  <2> TAKE i \in r..k
  <2>1. r \in 0..k /\ i \in r..k
    OBVIOUS
  <2>2. \A n \in 1..m : c[i].headers[n] = c[r].headers[n]
    BY <1>1, <2>1, RunGrows
  <2> QED
    BY <2>2
<1>8. \A i \in 0..k : Len(c[i].headers) =< Len(c[k].headers)
  <2> TAKE i \in 0..k
  <2>1. k \in i..k
    OBVIOUS
  <2> QED
    BY <1>1, <2>1, RunGrows
<1>9. \A i \in 0..k : Ways(p, c[i].state, Names(c[i].headers))
  BY <1>6, RunWays
<1>10. Len(c[k].headers) \in Nat /\ m =< Len(c[k].headers)
  <2>1. k \in 0..k /\ r \in 0..k
    OBVIOUS
  <2>2. c[k].headers \in Seq(Extraction)
    BY <1>2, <2>1 DEF IsAt
  <2> QED
    BY <1>8, <2>1, <2>2
<1>11. 0 \in S
  BY <1>3
<1>12. ASSUME NEW j \in 1..(k - r), j - 1 \in S PROVE j \in S
  <2> DEFINE i == r + j - 1
             a == e[j - 1]
             b == c[i]
  <2>1. i \in 0..k /\ i + 1 \in 1..k /\ (i + 1) - 1 = i /\ i + 1 = r + j /\ i \in r..k /\ i + 1 \in 0..k
    BY <1>3
  <2>2. j - 1 \in 0..(k - r) /\ r + (j - 1) = i
    BY <1>3
  <2> HIDE DEF i
  <2>3. /\ c[r + j] = P4Step(D, words, b) /\ IsAt(D, words, b) /\ c[r + j].state # Dropped
        /\ Len(c[r + j].headers) =< Len(c[k].headers) /\ Ways(p, b.state, Names(b.headers))
        /\ \A n \in 1..m : b.headers[n].key[1] \in Plain
    BY <1>2, <1>6, <1>7, <1>8, <1>9, <2>1
  <2>4. e[j] = P4Step(p.parsers, W, a) /\ IsAt(p.parsers, W, a)
    BY <1>4, <2>2
  <2>5. CASE j = 1
    <3>1. a = First /\ i = r
      BY <1>4, <2>1, <2>5
    <3>2. b.state = StartClone /\ Len(b.headers) = m
      BY <3>1
    <3>3. Len(W) > 0
      BY <1>3, <1>5, <1>10
    <3> HIDE DEF a, b
    <3>4. Beside(p, e[j], c[r + j], m)
      BY <1>5, <2>3, <2>4, <3>1, <3>2, <3>3, MirrorBegins
    <3> QED
      BY <3>4
  <2>6. CASE j # 1
    <3>1. Beside(p, a, b, m)
      <4>1. j - 1 # 0
        BY <2>6
      <4> QED
        BY <1>12, <2>2, <4>1
    <3> HIDE DEF a, b
    <3>2. CASE a.state = Ingress
      <4>1. b.state = Ingress
        BY <3>1, <3>2 DEF Beside, CloneOf
      <4>2. e[j] = a /\ c[r + j] = b
        BY <1>1, <1>3, <2>3, <2>4, <3>2, <4>1, StepFacts
      <4> QED
        BY <3>1, <4>2
    <3>3. CASE a.state # Ingress
      <4>1. Len(P4Step(D, words, b).headers) + 1 =< m + Len(W)
        <5>1. c[r + j].headers \in Seq(Extraction)
          BY <1>2, <2>1 DEF IsAt
        <5>2. Len(c[r + j].headers) \in Nat
          BY <5>1
        <5> QED
          BY <1>3, <1>5, <1>10, <2>3, <5>2
      <4>2. Mirrored(p, words, W, m, a, b)
        BY <1>5, <2>3, <2>4, <3>1, <3>3, <4>1 DEF Mirrored
      <4>3. Beside(p, e[j], c[r + j], m)
        BY <2>3, <2>4, <4>2, MirrorStep
      <4> QED
        BY <4>3
    <3> QED
      BY <3>2, <3>3
  <2> QED
    BY <2>5, <2>6
<1> HIDE DEF S
<1>13. 0..(k - r) \subseteq S
  BY <1>3, <1>11, <1>12, InductionUpTo
<1>14. r < k
  <2>1. StartClone # Ingress
    BY CloneFacts
  <2>2. r # k
    BY <2>1
  <2> QED
    BY <2>2
<1>15. k - r \in S /\ k - r # 0 /\ r + (k - r) = k
  BY <1>3, <1>13, <1>14
<1>16. Beside(p, e[k - r], c[r + (k - r)], m)
  BY <1>15 DEF S
<1> QED
  BY <1>14, <1>15, <1>16

LEMMA SeedIsParsed ==
  ASSUME Controller, Done, outcome = "seed", Supported, ReadAlike, P4Accepts, Once(OnWire.headers), ~LookAhead
  PROVE  LET own == P4Parse(prog.parsers, <<Preamble>> \o [i \in DOMAIN Cloned |-> Cloned[i].word])
         IN  /\ own.state = Ingress /\ Len(own.headers) = Len(Cloned) + 1
             /\ \A i \in DOMAIN Cloned : /\ Cloned[i].key[1] = Clone(own.headers[i + 1].key[1])
                                          /\ Cloned[i].word = own.headers[i + 1].word
<1> DEFINE p == prog
           D == Doubled(p.parsers)
<1>1. /\ IsProgram(p) /\ Tidy(p) /\ report \in Seq(Nat) /\ Len(report) \in Nat
      /\ Shaped(D) /\ Shaped(p.parsers)
  <2>1. prog \in Programs /\ report \in Reports
    BY DEF Controller, TypeInv, Progress
  <2> QED
    BY <2>1, SupportedIsTidy, ProgFacts
<1>2. Blinkered(p)
  <2>1. \A s \in NamesOf(p.parsers) : Named(p.parsers, s) \in Range(p.parsers)
    BY <1>1, ProgramShaped
  <2> QED
    BY <2>1 DEF Blinkered, LookAhead
<1>3k. PICK k \in Nat : \E c : IsRun(D, report, c, k) /\ OnWire = c[k]
  BY Ended
<1>3. PICK c : IsRun(D, report, c, k) /\ OnWire = c[k]
  BY <1>3k
<1> DEFINE H == OnWire.headers
           l == Len(H)
<1>4. /\ InStep(OnWire) /\ H \in Seq(Extraction) /\ headers \in Seq(Extraction)
      /\ report[1] = Preamble
  <2>1. /\ InStep(OnWire) /\ H \in Seq(Extraction) /\ headers \in Seq(Extraction)
        /\ outcome = IF report[1] = Preamble THEN "seed" ELSE "unknown"
    BY Ended
  <2> QED
    BY <2>1
<1>5. headers = H
  <2>1. Holds(headers, H, Len(H))
    BY <1>4 DEF InStep
  <2> QED
    BY <1>4, <2>1, HoldsAll
<1>6. /\ c[k].state = Ingress /\ k \in 0..k /\ l \in Nat /\ l =< Len(report)
      /\ \A i \in 1..l : H[i].word = report[i]
  <2>1. IsAt(D, report, c[k])
    BY <1>1, <1>3, RunTyped, k \in 0..k
  <2> QED
    BY <1>3, <1>4, <2>1 DEF IsAt, P4Accepts
<1>7. l > 0
  <2>1. c[k] = First \/ c[k].state = Dropped \/ Led(c[k])
    BY <1>1, <1>3, <1>6, RunLed
  <2>2. First.state # Ingress /\ Ingress # Dropped
    BY CloneFacts, NotDropped DEF First
  <2> QED
    BY <1>3, <1>6, <2>1, <2>2 DEF Led
<1>8. PICK r \in 1..k : c[r].state = StartClone /\ \A n \in 1..Len(c[r].headers) : c[r].headers[n].key[1] \in Plain
  BY <1>1, <1>3, <1>6, RunPlain
<1> DEFINE m == Len(c[r].headers)
<1>9. m \in Nat /\ m =< l /\ \A n \in 1..m : H[n].key[1] \in Plain
  <2>1. r \in 0..k /\ k \in r..k
    BY <1>8
  <2>2. c[r].headers \in Seq(Extraction)
    BY <1>1, <1>3, <2>1, RunTyped DEF IsAt
  <2>3. m =< Len(c[k].headers) /\ \A n \in 1..m : c[k].headers[n] = c[r].headers[n]
    BY <1>1, <1>3, <2>1, RunGrows
  <2>4. m \in Nat
    BY <2>2
  <2>5. H = c[k].headers
    BY <1>3
  <2>6. l = Len(c[k].headers)
    BY <2>5
  <2>7. \A n \in 1..m : H[n].key[1] \in Plain
    <3> TAKE n \in 1..m
    <3>1. c[r].headers[n].key[1] \in Plain
      BY <1>8
    <3>2. H[n] = c[r].headers[n]
      BY <2>3, <2>5
    <3> QED
      BY <3>1, <3>2
  <2>8. m =< l
    BY <2>3, <2>6
  <2> QED
    BY <2>4, <2>7, <2>8
<1> DEFINE tail == [i \in 1..(l - m) |-> report[m + i]]
           W == <<Preamble>> \o tail
<1> HIDE DEF H, l, m
<1>10. /\ W \in Seq(Nat) /\ Len(W) = (l - m) + 1 /\ \A i \in 1..(l - m) : W[i + 1] = report[m + i]
  <2>1. Preamble \in Nat
    BY <1>1, <1>4, <1>6, <1>7, 1 \in 1..Len(report)
  <2>2. <<Preamble>> \in Seq(Nat) /\ Len(<<Preamble>>) = 1
    BY <2>1
  <2>3. l - m \in Nat /\ \A i \in 1..(l - m) : m + i \in 1..Len(report)
    BY <1>1, <1>6, <1>9
  <2>4. tail \in [1..(l - m) -> Nat]
    BY <1>1, <2>3
  <2>5. tail \in Seq(Nat) /\ Len(tail) = l - m /\ \A i \in 1..(l - m) : tail[i] = report[m + i]
    BY <2>3, <2>4, SeqDef
  <2> HIDE DEF tail
  <2>6. /\ W \in Seq(Nat) /\ Len(W) = 1 + Len(tail)
        /\ \A i \in 1..(1 + Len(tail)) : W[i] = IF i =< 1 THEN <<Preamble>>[i] ELSE tail[i - 1]
    BY <2>2, <2>5, ConcatProperties
  <2>7. \A i \in 1..(l - m) : W[i + 1] = tail[i]
    <3> TAKE i \in 1..(l - m)
    <3>1. i + 1 \in 1..(1 + Len(tail)) /\ ~(i + 1 =< 1) /\ (i + 1) - 1 = i
      BY <2>3, <2>5
    <3> HIDE DEF W
    <3> QED
      BY <2>6, <3>1
  <2> HIDE DEF W
  <2> QED
    BY <2>3, <2>5, <2>6, <2>7
<1> HIDE DEF W, tail
<1>11. Behind(report, W, m) /\ Len(W) + m = l + 1
  BY <1>6, <1>9, <1>10 DEF Behind
<1>12. PICK e : IsRun(p.parsers, W, e, k - r)
  <2>1. k - r \in Nat
    BY <1>8
  <2> QED
    BY <2>1, RunExists
<1>13. Beside(p, e[k - r], c[k], m)
  <2>1. Len(W) + m = Len(c[k].headers) + 1 /\ m = Len(c[r].headers)
    BY <1>3, <1>11 DEF l, H, m
  <2>2. \A n \in 1..m : c[r].headers[n].key[1] \in Plain
    BY <1>8 DEF m
  <2> QED
    BY <1>1, <1>2, <1>3, <1>6, <1>8, <1>11, <1>12, <2>1, <2>2, MirrorRun
<1> DEFINE own == e[k - r]
<1>14. own.state = Ingress
  <2>1. own.state \in NamesOf(p.parsers) \cup {Ingress} /\ CloneOf(own.state) = Ingress
    BY <1>6, <1>13 DEF Beside
  <2>2. NamesOf(p.parsers) \subseteq Plain
    BY <1>1, ProgramShaped
  <2> HIDE DEF own
  <2>3. own.state \in NamesOf(p.parsers) => Clone(own.state) # Ingress
    BY <2>2, CloneFacts
  <2> QED
    BY <2>1, <2>3 DEF CloneOf
<1>15. P4Parse(p.parsers, W) = own
  BY <1>1, <1>8, <1>10, <1>12, <1>14, RunsEnd DEF Final
<1>16. Alongside(own.headers, H, m)
  BY <1>3, <1>13 DEF Beside, H
<1> DEFINE gs == own.headers
<1> HIDE DEF own
<1>17. /\ Len(gs) > 0 /\ l = m + (Len(gs) - 1) /\ Len(gs) \in Int
       /\ \A n \in 1..(Len(gs) - 1) : /\ gs[n + 1].key[1] \in Plain /\ H[m + n].key[1] = Clone(gs[n + 1].key[1])
                                      /\ H[m + n].word = gs[n + 1].word
  <2>1. k - r \in Nat /\ k - r \in 0..(k - r)
    BY <1>8
  <2>2. IsAt(p.parsers, W, own)
    BY <1>1, <1>10, <1>12, <2>1, RunTyped DEF own
  <2>3. Len(gs) \in Int
    BY <2>2 DEF IsAt
  <2> QED
    BY <1>16, <2>3 DEF Alongside, l
<1> HIDE DEF gs
<1>18. Len(gs) = (l - m) + 1
  BY <1>6, <1>9, <1>17
<1>19. \A n \in 1..m : H[n].key[1][2] # 1
  BY <1>9 DEF Plain
<1>20. \A i \in (m + 1)..l : H[i].key[1][2] = 1
  <2> TAKE i \in (m + 1)..l
  <2>1. PICK n \in 1..(Len(gs) - 1) : i = m + n
    <3>1. i - m \in 1..(Len(gs) - 1) /\ i = m + (i - m)
      BY <1>6, <1>9, <1>18
    <3> QED
      BY <3>1
  <2>2. H[i].key[1] = Clone(gs[n + 1].key[1]) /\ gs[n + 1].key[1] \in Plain
    BY <1>17, <2>1
  <2> QED
    BY <2>2, CloneFacts
<1>21. Len(Cloned) = l - m /\ \A i \in 1..(l - m) : Cloned[i] = H[m + i]
  <2>1. m \in 0..l
    BY <1>6, <1>9
  <2>2. l = Len(headers)
    BY <1>5 DEF l
  <2> QED
    BY <1>4, <1>5, <1>19, <1>20, <2>1, <2>2, ClonedTail
<1>22. Cloned \in Seq(Extraction) /\ DOMAIN Cloned = 1..(l - m)
  BY <1>4, <1>21, ClonedFrom
<1>23. [i \in DOMAIN Cloned |-> Cloned[i].word] = tail
  <2>1. \A i \in 1..(l - m) : Cloned[i].word = report[m + i]
    <3> TAKE i \in 1..(l - m)
    <3>1. m + i \in 1..l
      BY <1>6, <1>9
    <3> QED
      BY <1>6, <1>21, <3>1
  <2> QED
    BY <1>22, <2>1 DEF tail
<1>24. <<Preamble>> \o [i \in DOMAIN Cloned |-> Cloned[i].word] = W
  BY <1>23 DEF W
<1>25. \A i \in DOMAIN Cloned : Cloned[i].key[1] = Clone(gs[i + 1].key[1]) /\ Cloned[i].word = gs[i + 1].word
  <2> TAKE i \in DOMAIN Cloned
  <2>1. i \in 1..(l - m) /\ i \in 1..(Len(gs) - 1)
    BY <1>18, <1>22, <1>6, <1>9
  <2> QED
    BY <1>17, <1>21, <2>1
<1>26. Len(gs) = Len(Cloned) + 1
  BY <1>18, <1>21
<1> QED
  BY <1>14, <1>15, <1>24, <1>25, <1>26 DEF gs

(* A seed is a packet of the program, whatever the program and the report: *)
(* the program's own parser, given the seed's words, extracts the seed's   *)
(* headers and no other (MakeCopy, UpdateParserDAG, and the seed's names). *)
THEOREM SeedsParse == Spec => []SeedsAreParsed
<1>1. Controller => SeedsAreParsed
  <2> SUFFICES ASSUME Controller, Done, outcome = "seed", Supported, ReadAlike,
                      P4Accepts, Once(OnWire.headers), ~LookAhead
               PROVE  LET own == P4Parse(prog.parsers, <<Preamble>> \o [i \in DOMAIN Cloned |-> Cloned[i].word])
                      IN  /\ own.state = Ingress /\ Len(own.headers) = Len(Cloned) + 1
                          /\ \A i \in DOMAIN Cloned : /\ Cloned[i].key[1] = Clone(own.headers[i + 1].key[1])
                                                       /\ Cloned[i].word = own.headers[i + 1].word
    BY DEF SeedsAreParsed, Once
  <2> QED
    BY SeedIsParsed
<1> QED
  BY <1>1, ControllerInv, PTL
=============================================================================
