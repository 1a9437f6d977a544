---------------------------- MODULE FuzzLoopProofs ----------------------------
(***************************************************************************)
(* What the runs show of the registers and the reports of FuzzLoop, proved *)
(* for every program, every number of packets, seeds and queue places, and *)
(* every pair of hash functions.  The proofs take the invariant in five    *)
(* groups, each inductive given the ones before it:                        *)
(*   TypeInv    types, the shape of the rules, and where a packet may be   *)
(*              without headers;                                           *)
(*   BootInv    ti_path_assertion is complete before a packet is built;    *)
(*   BloomInv   what the registers say is what was reported;               *)
(*   ExecInv    marks live on the way back only, and are of one run;       *)
(*   BudgetInv  a seed, or a message that may yield one, was paid for.     *)
(* The last two rest on TypeInv and BootInv alone.                         *)
(***************************************************************************)
EXTENDS FuzzLoopProperties, FiniteSetTheorems, SequenceTheorems, TLAPS

-----------------------------------------------------------------------------
(* Rules.                                                                  *)

PathEntries == {PathRules[i].entry : i \in 1 .. 3}

(* What the entries of the tables the proof looks into have in common.     *)
GoodRules ==
  {r \in Rule : /\ r.to = "seed" => r.entry.key[1] \in Nat
                /\ r.to = "create" => r.entry.path \in Paths
                /\ r.to = "path" => r.entry \in PathEntries}

GoodTable ==
  \A t \in TableNames : \A e \in table[t] : [to |-> t, entry |-> e] \in GoodRules

LEMMA NewRuleGood ==
  ASSUME NEW t \in TableNames, NEW k \in Seq(Nat \cup Paths),
         NEW p \in Paths \cup {NoPath}, NEW v \in SUBSET RuleIds,
         t = "seed" => k[1] \in Nat,
         t = "create" => p \in Paths,
         t # "path"
  PROVE  NewRule(t, k, p, v) \in GoodRules
BY DEF NewRule, GoodRules, Rule, Entry

LEMMA SingletonKeys ==
  /\ \A s \in Nat : <<s>> \in Seq(Nat \cup Paths) /\ <<s>>[1] \in Nat
  /\ \A p \in Paths : <<p>> \in Seq(Nat \cup Paths)
OBVIOUS

LEMMA SeedRulesGood ==
  ASSUME NEW s \in Nat, NEW p \in Paths
  PROVE  /\ SeedRule(s) \in GoodRules
         /\ CreateRule(s, p) \in GoodRules
         /\ FieldsRule(s, p) \in GoodRules
         /\ ClonesRule(p) \in GoodRules
<1>1. \A t \in {"seed", "create", "fields", "clones"} : t \in TableNames /\ t # "path"
  BY DEF TableNames
<1>2. {} \in SUBSET RuleIds
  OBVIOUS
<1>3. SeedRule(s) \in GoodRules
  BY <1>1, <1>2, SingletonKeys, NewRuleGood DEF SeedRule
<1>4. CreateRule(s, p) \in GoodRules /\ FieldsRule(s, p) \in GoodRules
  BY <1>1, <1>2, SingletonKeys, NewRuleGood DEF CreateRule, FieldsRule
<1>5. ClonesRule(p) \in GoodRules
  BY <1>1, <1>2, SingletonKeys, NewRuleGood DEF ClonesRule
<1> QED
  BY <1>3, <1>4, <1>5

LEMMA MutationRulesGood ==
  ASSUME NEW s \in Nat, NEW v \in SUBSET RuleIds
  PROVE  /\ MutationRules(s, v) \in Seq(GoodRules)
         /\ Len(MutationRules(s, v)) = IF v = {} THEN 1 ELSE 2
<1>1. NewRule("mutate", <<s>>, NoPath, {}) \in GoodRules
  BY SingletonKeys, NewRuleGood DEF TableNames
<1>2. NewRule("fixval", <<s>>, NoPath, v) \in GoodRules
  BY SingletonKeys, NewRuleGood DEF TableNames
<1> QED
  BY <1>1, <1>2 DEF MutationRules

(* add_seed_packet produces well-formed rules and none for the path table. *)
LEMMA RulesOfSeedGood ==
  ASSUME NEW s \in Nat, NEW p \in Paths, NEW v \in SUBSET RuleIds
  PROVE  RulesOfSeed(s, p, v) \in Seq(GoodRules)
<1>1. <<CreateRule(s, p), FieldsRule(s, p)>> \in Seq(GoodRules)
  BY SeedRulesGood
<1>2. <<SeedRule(s)>> \in Seq(GoodRules)
  BY SeedRulesGood
<1> QED
  BY <1>1, <1>2, MutationRulesGood DEF RulesOfSeed

LEMMA PathRulesGood == PathRules \in Seq(GoodRules) /\ Len(PathRules) = 3
<1>1. ASSUME NEW a \in Nat, NEW b \in Nat
      PROVE  LET r == NewRule("path", <<a, b>>, NoPath, {})
             IN  r \in Rule /\ r.to = "path"
  <2>1. <<a, b>> \in Seq(Nat \cup Paths)
    OBVIOUS
  <2> QED
    BY <2>1 DEF NewRule, Rule, Entry, TableNames
<1>2. \A i \in 1 .. 3 : PathRules[i] \in Rule /\ PathRules[i].to = "path"
  <2>1. /\ PathRules[1] = NewRule("path", <<0, 0>>, NoPath, {})
        /\ PathRules[2] = NewRule("path", <<0, 1>>, NoPath, {})
        /\ PathRules[3] = NewRule("path", <<1, 0>>, NoPath, {})
    BY DEF PathRules
  <2> QED
    BY <1>1, <2>1
<1>3. \A i \in 1 .. 3 : PathRules[i] \in GoodRules
  BY <1>2 DEF GoodRules, PathEntries
<1>4. \A x, y, z : x \in GoodRules /\ y \in GoodRules /\ z \in GoodRules
                  => <<x, y, z>> \in Seq(GoodRules) /\ Len(<<x, y, z>>) = 3
  OBVIOUS
<1>5. PathRules = <<PathRules[1], PathRules[2], PathRules[3]>>
  BY DEF PathRules
<1>6. 1 \in 1 .. 3 /\ 2 \in 1 .. 3 /\ 3 \in 1 .. 3
  OBVIOUS
<1> QED
  BY <1>3, <1>4, <1>5, <1>6, Zenon

LEMMA InitialMutationsGood == InitialMutations \in Seq(GoodRules)
<1> DEFINE m == Len(MutationRules(0, InitFields))
<1>1. InitFields \in SUBSET RuleIds /\ N0 \in Nat
  BY CapacityAssumption, SeedAssumption
<1>2. m = IF InitFields = {} THEN 1 ELSE 2
  BY <1>1, MutationRulesGood, 0 \in Nat
<1> HIDE DEF m
<1>3. \A n \in Nat : n \div m \in Nat /\ (n % m) + 1 \in 1 .. m
  <2>1. CASE m = 1
    BY <2>1
  <2>2. CASE m = 2
    BY <2>2
  <2> QED
    BY <1>2, <2>1, <2>2
<1>4. ASSUME NEW k \in 1 .. m * N0
      PROVE  MutationRules((k - 1) \div m, InitFields)[((k - 1) % m) + 1] \in GoodRules
  <2> DEFINE s == (k - 1) \div m
             j == ((k - 1) % m) + 1
  <2>1. k - 1 \in Nat
    BY <1>1, <1>2
  <2>2. s \in Nat /\ j \in 1 .. m
    BY <1>3, <2>1
  <2> HIDE DEF s, j
  <2>3. /\ Len(MutationRules(s, InitFields)) = m
        /\ MutationRules(s, InitFields) \in Seq(GoodRules)
    BY <1>1, <1>2, <2>2, MutationRulesGood
  <2>4. MutationRules(s, InitFields)[j] \in GoodRules
    BY <2>2, <2>3
  <2> QED
    BY <2>4 DEF s, j
<1>5. [k \in 1 .. m * N0 |->
         MutationRules((k - 1) \div m, InitFields)[((k - 1) % m) + 1]] \in Seq(GoodRules)
  BY <1>1, <1>2, <1>4
<1> QED
  BY <1>5 DEF InitialMutations, m

LEMMA RulesAfterPathsGood == RulesAfterPaths \in Seq(GoodRules)
<1>1. N0 \in Nat /\ \A s \in 0 .. N0 - 1 : InitPath[s] \in Paths
  BY SeedAssumption
<1>2. [s \in 1 .. N0 |-> SeedRule(s - 1)] \in Seq(GoodRules)
  <2>1. \A s \in 1 .. N0 : SeedRule(s - 1) \in GoodRules
    BY <1>1, SeedRulesGood
  <2> QED
    BY <1>1, <2>1
<1>3. PacketRules \in Seq(GoodRules)
  <2>1. \A k \in 1 .. 2 * N0 : (k - 1) \div 2 \in 0 .. N0 - 1
    BY <1>1
  <2>2. \A s \in 0 .. N0 - 1 : /\ CreateRule(s, InitPath[s]) \in GoodRules
                               /\ FieldsRule(s, InitPath[s]) \in GoodRules
    BY <1>1, SeedRulesGood
  <2> QED
    BY <1>1, <2>1, <2>2 DEF PacketRules
<1>4. [s \in 1 .. N0 |-> ClonesRule(InitPath[s - 1])] \in Seq(GoodRules)
  <2>1. \A s \in 1 .. N0 : ClonesRule(InitPath[s - 1]) \in GoodRules
    BY <1>1, SeedRulesGood
  <2> QED
    BY <1>1, <2>1
<1>5. <<NewRule("do_resubmit", <<1>>, NoPath, {})>> \in Seq(GoodRules)
  <2>1. NewRule("do_resubmit", <<1>>, NoPath, {}) \in GoodRules
    BY SingletonKeys, NewRuleGood DEF TableNames
  <2> QED
    BY <2>1
<1>6. \A x, y : x \in Seq(GoodRules) /\ y \in Seq(GoodRules)
               => x \o y \in Seq(GoodRules)
  OBVIOUS
<1> QED
  BY <1>2, <1>3, <1>4, <1>5, <1>6, InitialMutationsGood, Zenon DEF RulesAfterPaths

LEMMA InitialRulesGood == InitialRules \in Seq(GoodRules)
BY PathRulesGood, RulesAfterPathsGood DEF InitialRules

-----------------------------------------------------------------------------
(* Types.  A packet outside the SDT's ingress, or one that is marked as     *)
(* having traversed the SUT, has the headers of some path.                 *)

CircuitPaths ==
  \A p \in PktIds : \/ packet[p].at \in {"egress", "sut"}
                    \/ packet[p].type # 0
                    => packet[p].path \in Paths

TypeInv ==
  /\ TypeOK
  /\ GoodTable
  /\ todo \in Seq(GoodRules)
  /\ CircuitPaths

LEMMA FreePacket == Free \in Packet /\ Free.at = "free" /\ Free.type = 0
BY DEF Free, Packet

LEMMA GoodRulesAreRules == Seq(GoodRules) \subseteq Seq(Rule)
<1>1. GoodRules \subseteq Rule
  BY DEF GoodRules
<1> QED
  BY <1>1

(* What a blank or recycled packet becomes: one of the seed's path.        *)
LEMMA GeneratedType ==
  ASSUME TypeInv, NEW x \in Packet, NEW r \in Draws, NEW twin \in BOOLEAN,
         NEW s \in Selected(SeedNums, r), Hit("create", <<s>>)
  PROVE  /\ Generated(x, s, twin) \in Packet
         /\ Generated(x, s, twin).at = "egress"
         /\ Generated(x, s, twin).type = 0
         /\ Generated(x, s, twin).path \in Paths
<1>1. s \in Nat
  <2>1. SeedNums \subseteq Nat
    BY DEF SeedNums, TypeInv, GoodTable, GoodRules, TableNames
  <2>2. r \in Nat
    BY SeedAssumption DEF Byte
  <2> QED
    BY <2>1, <2>2 DEF Selected, Winners
<1>2. EntryAt("create", <<s>>).path \in Paths
  <2>1. EntryAt("create", <<s>>) \in table["create"]
    BY DEF Hit, EntryAt
  <2> QED
    BY <2>1 DEF TypeInv, GoodTable, GoodRules, TableNames
<1>3. Recycled(x) \in SUBSET Actions
  BY DEF Recycled, Packet
<1>4. Hit("fields", <<s>>) \in BOOLEAN
      /\ Hit("clones", <<EntryAt("create", <<s>>).path>>) \in BOOLEAN
  BY DEF Hit
<1> QED
  BY <1>1, <1>2, <1>3, <1>4 DEF Generated, Free, Packet

(* Touching the registers keeps their type.                                *)
LEMMA TouchType ==
  ASSUME TypeInv, NEW x \in Packet, TouchBloom(x)
  PROVE  /\ bloom1' \subseteq Positions /\ bloom2' \subseteq Positions
         /\ returned' \subseteq SUBSET Actions
<1>1. x.acts \in SUBSET Actions
  BY DEF Packet
<1>2. Hash1[x.acts] \in Positions /\ Hash2[x.acts] \in Positions
  BY <1>1, ProgramAssumption
<1> QED
  BY <1>1, <1>2 DEF TouchBloom, TypeInv, TypeOK

(* check_coverage_and_add_seed keeps the types of what it changes.         *)
LEMMA CoverageType ==
  ASSUME TypeInv, NEW a \in SUBSET Actions, NEW q \in Paths, NEW ty,
         NEW v \in SUBSET RuleIds, NEW nxt \in {"sut", "check"},
         CheckCoverage(a, q, ty, v, nxt)
  PROVE  /\ seen' \subseteq Actions
         /\ coverClock' \in {"unset", "running", "expired"}
         /\ pc' \in {"sut", "check", "stopped", "crashed"}
         /\ todo' \in Seq(GoodRules)
         /\ numSeeds' \in Nat
<1>1. numSeeds \in Nat /\ todo \in Seq(GoodRules)
  BY DEF TypeInv, TypeOK
<1>2. RulesOfSeed(numSeeds, q, v) \in Seq(GoodRules)
  BY <1>1, RulesOfSeedGood
<1>3. seen' \subseteq Actions /\ coverClock' \in {"unset", "running", "expired"}
  BY DEF CheckCoverage, Started, TypeInv, TypeOK
<1>4. \/ pc' \in {"stopped", "crashed", nxt} /\ numSeeds' = numSeeds /\ todo' = todo
      \/ /\ pc' = nxt /\ numSeeds' = numSeeds + 1
         /\ todo' = RulesOfSeed(numSeeds, q, v)
  BY DEF CheckCoverage
<1> QED
  BY <1>1, <1>2, <1>3, <1>4

LEMMA TypeInvInit == Init => TypeInv
<1> SUFFICES ASSUME Init PROVE TypeInv
  OBVIOUS
<1> USE DEF Init
<1>1. TypeOK
  <2>1. /\ cpuq \in Seq(Report) /\ Len(cpuq) = 0
        /\ sutq \in Seq(Datagram)
    OBVIOUS
  <2>2. todo \in Seq(Rule)
    BY InitialRulesGood, GoodRulesAreRules
  <2>3. packet \in [PktIds -> Packet]
    BY FreePacket
  <2> QED
    BY <2>1, <2>2, <2>3, SeedAssumption, CapacityAssumption DEF TypeOK
<1>2. GoodTable
  BY DEF GoodTable
<1>3. CircuitPaths
  BY FreePacket DEF CircuitPaths
<1> QED
  BY <1>1, <1>2, <1>3, InitialRulesGood DEF TypeInv

(* One step per action; the actions of a pipeline first.                   *)
LEMMA TypeInvPacketStep ==
  ASSUME TypeInv, NEW p \in PktIds, PacketStep(p)
  PROVE  TypeInv'
<1> USE DEF TypeInv
<1>1. packet[p] \in Packet /\ packet \in [PktIds -> Packet]
  BY DEF TypeOK
<1>2. UNCHANGED <<table, sutq, sent, controller>> => GoodTable' /\ todo' \in Seq(GoodRules)
  BY DEF controller, GoodTable
<1>3. CASE PktGenInject(p)
  <2> DEFINE y == [Free EXCEPT !.at = "ingress"]
  <2>1. y \in Packet /\ y.at = "ingress" /\ y.type = 0
    BY DEF Free, Packet
  <2> HIDE DEF y
  <2>2. packet' = [packet EXCEPT ![p] = y]
    BY <1>3 DEF PktGenInject, y
  <2>3. CircuitPaths'
    BY <1>1, <2>1, <2>2 DEF CircuitPaths
  <2> QED
    BY <1>1, <1>2, <1>3, <2>1, <2>2, <2>3
      DEF PktGenInject, TypeOK, controller, feedback, GoodTable
<1>4. CASE IngressReport(p)
  <2> DEFINE r == [acts |-> packet[p].acts, path |-> packet[p].path,
                   type |-> packet[p].type]
  <2>1. r \in Report
    BY <1>1, <1>4 DEF IngressReport, Reported, Traversed, Packet, Report, CircuitPaths
  <2> HIDE DEF r
  <2>2. /\ bloom1' \subseteq Positions /\ bloom2' \subseteq Positions
        /\ returned' \subseteq SUBSET Actions
    BY <1>1, <1>4, TouchType DEF IngressReport
  <2>3. packet' = [packet EXCEPT ![p] = Free]
    BY <1>4 DEF IngressReport
  <2>4. CircuitPaths'
    BY <1>1, <2>3, FreePacket DEF CircuitPaths
  <2>5. /\ cpuq' \in Seq(Report) /\ Len(cpuq') =< CpuQueueSize
        /\ lost' \subseteq SUBSET Actions
    <3>1. \/ Len(cpuq) < CpuQueueSize /\ cpuq' = Append(cpuq, r) /\ lost' = lost
          \/ lost' = lost \cup {packet[p].acts} /\ cpuq' = cpuq
      BY <1>4 DEF IngressReport, r
    <3>2. packet[p].acts \in SUBSET Actions
      BY <1>1 DEF Packet
    <3>3. /\ cpuq \in Seq(Report) /\ Len(cpuq) =< CpuQueueSize
          /\ lost \subseteq SUBSET Actions /\ CpuQueueSize \in Nat
      BY CapacityAssumption DEF TypeOK
    <3> QED
      BY <2>1, <3>1, <3>2, <3>3
  <2> QED
    BY <1>1, <1>2, <1>4, <2>2, <2>3, <2>4, <2>5, FreePacket
      DEF IngressReport, TypeOK, controller, feedback
<1>5. CASE IngressGenerate(p)
  <2>1. PICK r \in Draws, twin \in BOOLEAN : \E s \in Selected(SeedNums, r) :
           /\ Hit("create", <<s>>)
           /\ packet' = [packet EXCEPT ![p] = Generated(packet[p], s, twin)]
    BY <1>5 DEF IngressGenerate
  <2>2. PICK s \in Selected(SeedNums, r) :
           /\ Hit("create", <<s>>)
           /\ packet' = [packet EXCEPT ![p] = Generated(packet[p], s, twin)]
    BY <2>1
  <2> DEFINE y == Generated(packet[p], s, twin)
  <2>3. y \in Packet /\ y.at = "egress" /\ y.path \in Paths
    BY <1>1, <2>2, GeneratedType
  <2> HIDE DEF y
  <2>4. packet' = [packet EXCEPT ![p] = y]
    BY <2>2 DEF y
  <2>5. CircuitPaths'
    BY <1>1, <2>3, <2>4 DEF CircuitPaths
  <2>6. /\ bloom1' \subseteq Positions /\ bloom2' \subseteq Positions
        /\ returned' \subseteq SUBSET Actions
    BY <1>1, <1>5, TouchType DEF IngressGenerate
  <2>7. packet' \in [PktIds -> Packet]
    BY <1>1, <2>3, <2>4
  <2> QED
    BY <1>2, <1>5, <2>5, <2>6, <2>7
      DEF IngressGenerate, TypeOK, controller, feedback
<1>6. CASE IngressDrop(p)
  <2>1. packet' = [packet EXCEPT ![p] = Free]
    BY <1>6 DEF IngressDrop
  <2>2. CircuitPaths'
    BY <1>1, <2>1, FreePacket DEF CircuitPaths
  <2>3. /\ bloom1' \subseteq Positions /\ bloom2' \subseteq Positions
        /\ returned' \subseteq SUBSET Actions
    BY <1>1, <1>6, TouchType DEF IngressDrop
  <2>4. packet' \in [PktIds -> Packet]
    BY <1>1, <2>1, FreePacket
  <2> QED
    BY <1>2, <1>6, <2>2, <2>3, <2>4 DEF IngressDrop, TypeOK, controller, feedback
<1>7. CASE EgressSend(p)
  <2> DEFINE y == [packet[p] EXCEPT !.at = "sut"]
  <2>1. y \in Packet /\ y.at = "sut" /\ y.path \in Paths
    BY <1>1, <1>7 DEF EgressSend, Packet, CircuitPaths
  <2> HIDE DEF y
  <2>2. packet' = [packet EXCEPT ![p] = y]
    BY <1>1, <1>7 DEF EgressSend, y
  <2>3. packet' \in [PktIds -> Packet] /\ CircuitPaths'
    BY <1>1, <2>1, <2>2 DEF CircuitPaths
  <2> QED
    BY <1>2, <1>7, <2>3 DEF EgressSend, TypeOK, controller, feedback
<1>8. CASE EgressResubmit(p)
  <2> DEFINE x == [packet[p] EXCEPT !.at = "sut", !.type = 3]
             c == [x EXCEPT !.at = "egress", !.twin = FALSE]
  <2>1. /\ x \in Packet /\ x.path \in Paths
        /\ c \in Packet /\ c.path \in Paths
    BY <1>1, <1>8 DEF EgressResubmit, Packet, CircuitPaths
  <2> HIDE DEF x, c
  <2>2. \/ packet' = [packet EXCEPT ![p] = x]
        \/ \E q \in PktIds \ {p} : packet' = [packet EXCEPT ![p] = x, ![q] = c]
    BY <1>8 DEF EgressResubmit, x, c
  <2>3. packet' \in [PktIds -> Packet] /\ CircuitPaths'
    BY <1>1, <2>1, <2>2 DEF CircuitPaths
  <2> QED
    BY <1>2, <1>8, <2>3 DEF EgressResubmit, TypeOK, controller, feedback
<1>9. CASE SutProcess(p)
  <2>1. packet[p].path \in Paths
    BY <1>9 DEF SutProcess, CircuitPaths
  <2>2. PICK e \in Exec[packet[p].path] :
          /\ packet' = [packet EXCEPT ![p] =
               [Free EXCEPT !.at = "ingress", !.path = packet[p].path,
                            !.type = TypeAfterSut(packet[p]),
                            !.acts = packet[p].acts \cup e]]
          /\ UNCHANGED <<sutq, sent>> \/ Forward(packet[p], packet[p].acts \cup e)
    BY <1>9 DEF SutProcess
  <2>3. packet[p].acts \cup e \in SUBSET Actions
    BY <1>1, <2>1, ProgramAssumption DEF Packet
  <2>4. TypeAfterSut(packet[p]) \in {0, 1, 3}
    BY <1>1 DEF TypeAfterSut, Packet
  <2> DEFINE y == [Free EXCEPT !.at = "ingress", !.path = packet[p].path,
                               !.type = TypeAfterSut(packet[p]),
                               !.acts = packet[p].acts \cup e]
  <2>5. y \in Packet /\ y.path \in Paths
    BY <2>1, <2>3, <2>4 DEF Free, Packet
  <2> HIDE DEF y
  <2>6. packet' = [packet EXCEPT ![p] = y]
    BY <2>2 DEF y
  <2>7. packet' \in [PktIds -> Packet] /\ CircuitPaths'
    BY <1>1, <2>5, <2>6 DEF CircuitPaths
  <2>8. sutq' \in Seq(Datagram) /\ sent' \in 0 .. MaxDatagrams
    <3>1. CASE UNCHANGED <<sutq, sent>>
      BY <3>1 DEF TypeOK
    <3>2. CASE Forward(packet[p], packet[p].acts \cup e)
      <4>1. PICK m \in SUBSET (packet[p].acts \cup e), v \in SUBSET RuleIds,
                 k \in {"no", "packet", "rules"} :
              sutq' = Append(sutq, [acts |-> m, path |-> packet[p].path,
                                    type |-> TypeAfterSut(packet[p]),
                                    rules |-> v, cut |-> k])
        BY <3>2 DEF Forward
      <4>2. [acts |-> m, path |-> packet[p].path, type |-> TypeAfterSut(packet[p]),
             rules |-> v, cut |-> k] \in Datagram
        BY <2>1, <2>3, <2>4 DEF Datagram
      <4>3. sent' \in 0 .. MaxDatagrams
        BY <3>2, CapacityAssumption DEF Forward, TypeOK
      <4> QED
        BY <4>1, <4>2, <4>3 DEF TypeOK
    <3> QED
      BY <2>2, <3>1, <3>2
  <2> QED
    BY <1>9, <2>7, <2>8 DEF SutProcess, TypeOK, controller, feedback, GoodTable
<1>10. CASE LinkLoss(p)
  <2>1. packet' = [packet EXCEPT ![p] = Free]
    BY <1>10 DEF LinkLoss
  <2>2. packet' \in [PktIds -> Packet] /\ CircuitPaths'
    BY <1>1, <2>1, FreePacket DEF CircuitPaths
  <2> QED
    BY <1>2, <1>10, <2>2 DEF LinkLoss, TypeOK, controller, feedback
<1> QED
  BY <1>3, <1>4, <1>5, <1>6, <1>7, <1>8, <1>9, <1>10 DEF PacketStep

LEMMA HeadTail ==
  ASSUME NEW S, NEW q \in Seq(S), q # <<>>
  PROVE  Head(q) \in S /\ Tail(q) \in Seq(S) /\ Len(Tail(q)) =< Len(q)
OBVIOUS

(* Installing a well-formed rule leaves well-formed tables.                *)
LEMMA InstallType ==
  ASSUME TypeInv, InstallRule
  PROVE  table' \in [TableNames -> SUBSET Entry] /\ GoodTable' /\ todo' \in Seq(GoodRules)
<1> DEFINE r == Head(todo)
<1>1. r \in GoodRules /\ todo' \in Seq(GoodRules)
  BY HeadTail DEF InstallRule, TypeInv
<1>2. r.to \in TableNames /\ r.entry \in Entry /\ r = [to |-> r.to, entry |-> r.entry]
  BY <1>1 DEF GoodRules, Rule
<1>3. \/ table' = table
      \/ table' = [table EXCEPT ![r.to] = @ \cup {r.entry}]
  BY DEF InstallRule
<1> HIDE DEF r
<1>4. table \in [TableNames -> SUBSET Entry]
  BY DEF TypeInv, TypeOK
<1>5. table' \in [TableNames -> SUBSET Entry]
  BY <1>2, <1>3, <1>4
<1>6. GoodTable'
  <2> SUFFICES ASSUME NEW t \in TableNames, NEW e \in table'[t]
               PROVE  [to |-> t, entry |-> e] \in GoodRules
    BY DEF GoodTable
  <2>1. e \in table[t] \/ (t = r.to /\ e = r.entry)
    BY <1>2, <1>3, <1>4
  <2> QED
    BY <1>1, <1>2, <2>1 DEF TypeInv, GoodTable
<1> QED
  BY <1>1, <1>5, <1>6

(* What a report does: nothing to the feedback, or what it covers.         *)
LEMMA ReportCases ==
  ASSUME HandleReport
  PROVE  \E q \in Reparse[Head(cpuq).path] :
           \/ /\ pc' \in {"sut", "crashed"} /\ UNCHANGED <<todo, feedback, loopClock, handled>>
              /\ lost' = lost \cup {Head(cpuq).acts}
           \/ /\ ~Unread(q)
              /\ loopClock' = Started(loopClock) /\ UNCHANGED <<learnt, lost>>
              /\ handled' = handled \cup {Head(cpuq).acts}
              /\ CheckCoverage(Head(cpuq).acts, q, Head(cpuq).type, learnt, "sut")
<1> DEFINE r == Head(cpuq)
<1>1. PICK q \in Reparse[r.path] :
         IF Unread(q)
         THEN /\ lost' = lost \cup {r.acts}
              /\ pc' = AfterUnread(q, "sut")
              /\ UNCHANGED <<todo, feedback, loopClock, handled>>
         ELSE /\ loopClock' = Started(loopClock)
              /\ handled' = handled \cup {r.acts}
              /\ CheckCoverage(r.acts, q, r.type, learnt, "sut")
              /\ UNCHANGED <<learnt, lost>>
  BY DEF HandleReport
<1> HIDE DEF r
<1>2. AfterUnread(q, "sut") \in {"sut", "crashed"}
  BY DEF AfterUnread
<1> QED
  BY <1>1, <1>2 DEF r

(* What a datagram does: nothing to the feedback, or what a report does.   *)
LEMMA DatagramCases ==
  ASSUME HandleDatagram
  PROVE  \/ UNCHANGED <<todo, feedback>> /\ pc' \in {"check", "crashed"}
         \/ \E q \in Reparse[Head(sutq).path] :
              /\ ~Unread(q)
              /\ learnt' = learnt \cup Head(sutq).rules
              /\ CheckCoverage(Head(sutq).acts, q, Head(sutq).type, learnt', "check")
<1> DEFINE d == Head(sutq)
<1>1. CASE d.cut = "rules"
  BY <1>1, Zenon DEF HandleDatagram
<1>2. CASE d.cut = "packet" /\ d.cut # "rules"
  BY <1>2, Zenon DEF HandleDatagram
<1>3. CASE d.cut # "rules" /\ d.cut # "packet"
  <2>1. PICK q \in Reparse[d.path] :
          IF Unread(q) \/ ~SutStampsPreamble
          THEN pc' = AfterUnread(q, "check") /\ UNCHANGED <<todo, feedback>>
          ELSE /\ learnt' = learnt \cup d.rules
               /\ CheckCoverage(d.acts, q, d.type, learnt', "check")
    BY <1>3, Zenon DEF HandleDatagram
  <2>2. AfterUnread(q, "check") \in {"check", "crashed"}
    BY DEF AfterUnread
  <2> QED
    BY <2>1, <2>2
<1> QED
  BY <1>1, <1>2, <1>3

LEMMA TypeInvControllerStep ==
  ASSUME TypeInv, ControllerStep
  PROVE  TypeInv'
<1> USE DEF TypeInv
<1>1. UNCHANGED packet
  BY DEF ControllerStep, InstallRule, HandleReport, ReportTimeout,
         HandleDatagram, NoDatagram, CheckExit, dataplane
<1>2. CircuitPaths'
  BY <1>1 DEF CircuitPaths
<1>3. UNCHANGED table => GoodTable'
  BY DEF GoodTable
<1>4. \A q \in Seq(GoodRules) : q \in Seq(Rule)
  BY GoodRulesAreRules
<1>5. CASE InstallRule
  BY <1>2, <1>4, <1>5, InstallType
    DEF InstallRule, TypeOK, dataplane, feedback
<1>6. CASE HandleReport
  <2> DEFINE r == Head(cpuq)
  <2>1. r \in Report /\ cpuq' \in Seq(Report) /\ Len(cpuq') =< CpuQueueSize
    <3>1. cpuq \in Seq(Report) /\ cpuq # <<>> /\ Len(cpuq) =< CpuQueueSize
          /\ cpuq' = Tail(cpuq) /\ CpuQueueSize \in Nat
      BY <1>6, CapacityAssumption DEF HandleReport, TypeOK
    <3> QED
      BY <3>1
  <2> HIDE DEF r
  <2>2. r.acts \in SUBSET Actions /\ r.path \in Paths
    BY <2>1 DEF Report
  <2>3. PICK q \in Reparse[r.path] :
           \/ /\ pc' \in {"sut", "crashed"} /\ UNCHANGED <<todo, feedback, loopClock, handled>>
              /\ lost' = lost \cup {r.acts}
           \/ /\ ~Unread(q)
              /\ loopClock' = Started(loopClock) /\ UNCHANGED <<learnt, lost>>
              /\ handled' = handled \cup {r.acts}
              /\ CheckCoverage(r.acts, q, r.type, learnt, "sut")
    BY <1>6, ReportCases DEF r
  <2>4. UNCHANGED <<table, dataplane, sutq, sent>>
    BY <1>6 DEF HandleReport
  <2>5. CASE /\ pc' \in {"sut", "crashed"} /\ UNCHANGED <<todo, feedback, loopClock, handled>>
             /\ lost' = lost \cup {r.acts}
    BY <1>2, <1>3, <1>4, <2>1, <2>2, <2>4, <2>5 DEF TypeOK, dataplane, feedback
  <2>6. CASE /\ ~Unread(q)
             /\ loopClock' = Started(loopClock) /\ UNCHANGED <<learnt, lost>>
             /\ handled' = handled \cup {r.acts}
             /\ CheckCoverage(r.acts, q, r.type, learnt, "sut")
    <3>1. q \in Paths
      BY <2>2, <2>6, ProgramAssumption DEF Unread
    <3>2. CheckCoverage(r.acts, q, r.type, learnt, "sut")
      BY <2>6
    <3>3. /\ seen' \subseteq Actions
          /\ coverClock' \in {"unset", "running", "expired"}
          /\ pc' \in {"sut", "check", "stopped", "crashed"}
          /\ todo' \in Seq(GoodRules)
          /\ numSeeds' \in Nat
      <4>1. learnt \in SUBSET RuleIds /\ "sut" \in {"sut", "check"}
        BY DEF TypeOK
      <4> QED
        BY <2>2, <3>1, <3>2, <4>1, CoverageType
    <3>4. loopClock' \in {"unset", "running", "expired"}
      BY <2>6 DEF Started, TypeOK
    <3> QED
      BY <1>2, <1>3, <1>4, <2>1, <2>2, <2>4, <2>6, <3>3, <3>4
        DEF TypeOK, dataplane
  <2> QED
    BY <2>3, <2>5, <2>6
<1>7. CASE ReportTimeout
  BY <1>2, <1>3, <1>7 DEF ReportTimeout, TypeOK, dataplane, feedback
<1>8. CASE HandleDatagram
  <2> DEFINE d == Head(sutq)
  <2>1. d \in Datagram /\ sutq' \in Seq(Datagram)
    <3>1. sutq \in Seq(Datagram) /\ sutq # <<>> /\ sutq' = Tail(sutq)
      BY <1>8 DEF HandleDatagram, TypeOK
    <3> QED
      BY <3>1
  <2> HIDE DEF d
  <2>2. /\ d.acts \in SUBSET Actions /\ d.path \in Paths
        /\ d.rules \in SUBSET RuleIds
    BY <2>1 DEF Datagram
  <2>3. UNCHANGED <<table, dataplane, cpuq, sent, loopClock, handled, lost>>
    BY <1>8 DEF HandleDatagram
  <2>4. \/ pc' \in {"crashed", "check"} /\ UNCHANGED <<todo, feedback>>
        \/ \E q \in Reparse[d.path] :
             /\ ~Unread(q)
             /\ learnt' = learnt \cup d.rules
             /\ CheckCoverage(d.acts, q, d.type, learnt', "check")
    BY <1>8, DatagramCases DEF d
  <2>5. CASE pc' \in {"crashed", "check"} /\ UNCHANGED <<todo, feedback>>
    BY <1>2, <1>3, <2>1, <2>3, <2>5 DEF TypeOK, dataplane, feedback
  <2>6. ASSUME NEW q \in Reparse[d.path], ~Unread(q),
               learnt' = learnt \cup d.rules,
               CheckCoverage(d.acts, q, d.type, learnt', "check")
        PROVE  TypeInv'
    <3>1. q \in Paths
      BY <2>2, <2>6, ProgramAssumption DEF Unread
    <3>2. learnt' \in SUBSET RuleIds /\ "check" \in {"sut", "check"}
      BY <2>2, <2>6 DEF TypeOK
    <3>3. /\ seen' \subseteq Actions
          /\ coverClock' \in {"unset", "running", "expired"}
          /\ pc' \in {"sut", "check", "stopped", "crashed"}
          /\ todo' \in Seq(GoodRules)
          /\ numSeeds' \in Nat
      BY <2>2, <2>6, <3>1, <3>2, CoverageType
    <3> QED
      BY <1>2, <1>3, <1>4, <2>1, <2>3, <3>2, <3>3 DEF TypeOK, dataplane
  <2> QED
    BY <2>4, <2>5, <2>6
<1>9. CASE NoDatagram
  BY <1>2, <1>3, <1>9 DEF NoDatagram, TypeOK, dataplane, feedback
<1>10. CASE CheckExit
  BY <1>2, <1>3, <1>10 DEF CheckExit, TypeOK, dataplane, feedback
<1> QED
  BY <1>5, <1>6, <1>7, <1>8, <1>9, <1>10 DEF ControllerStep

LEMMA TypeInvNext == TypeInv /\ [Next]_vars => TypeInv'
<1> SUFFICES ASSUME TypeInv, [Next]_vars PROVE TypeInv'
  OBVIOUS
<1> USE DEF TypeInv
<1>1. CASE DatagramLoss
  <2>1. sutq' \in Seq(Datagram)
    <3>1. sutq \in Seq(Datagram) /\ sutq # <<>> /\ sutq' = Tail(sutq)
      BY <1>1 DEF DatagramLoss, TypeOK
    <3> QED
      BY <3>1
  <2> QED
    BY <1>1, <2>1
      DEF DatagramLoss, TypeOK, dataplane, controller, feedback, GoodTable, CircuitPaths
<1>2. CASE Tick
  BY <1>2 DEF Tick, TypeOK, dataplane, GoodTable, CircuitPaths
<1>3. CASE UNCHANGED vars
  BY <1>3 DEF vars, TypeOK, dataplane, controller, feedback, GoodTable, CircuitPaths
<1> QED
  BY <1>1, <1>2, <1>3, TypeInvControllerStep, TypeInvPacketStep DEF Next

(* Every reachable state is well-typed: in particular no report or         *)
(* datagram is without headers and pkt_type is 0, 1 or 3, for every        *)
(* program, with any number of packets and seeds.                          *)
THEOREM TypeCorrect == Spec => []TypeOK
<1>1. TypeInv => TypeOK
  BY DEF TypeInv
<1> QED
  BY <1>1, TypeInvInit, TypeInvNext, PTL DEF Spec

-----------------------------------------------------------------------------
(* The order of the initial rules: whatever is missing in ti_path_assertion *)
(* is at the head of the rules to come, and until it is there no packet    *)
(* has been built.                                                         *)

PathMissing == \E e \in PathEntries : ~Hit("path", e.key)

PathsPending ==
  \A e \in PathEntries :
     \/ Hit("path", e.key)
     \/ \E i \in 1 .. Len(todo) :
          /\ todo[i] = [to |-> "path", entry |-> e]
          /\ \A j \in 1 .. i : todo[j].to = "path"

NothingBuilt ==
  /\ table["create"] = {}
  /\ \A p \in PktIds : packet[p].at \in {"free", "ingress"} /\ packet[p].type = 0

BootInv == PathsPending /\ (PathMissing => NothingBuilt)

(* There is always room for the entries of ti_path_assertion.              *)
LEMMA PathRoom ==
  ASSUME TypeInv
  PROVE  table["path"] \subseteq PathEntries /\ Cardinality(table["path"]) < 4
<1>1. table["path"] \subseteq PathEntries
  BY DEF TypeInv, GoodTable, GoodRules, TableNames
<1>2. IsFiniteSet(PathEntries) /\ Cardinality(PathEntries) =< 3
  <2> DEFINE a == PathRules[1].entry
             b == PathRules[2].entry
             c == PathRules[3].entry
             two == {} \cup {a} \cup {b}
  <2>1. PathEntries = two \cup {c}
    <3>1. 1 .. 3 = {1, 2, 3}
      OBVIOUS
    <3> QED
      BY <3>1 DEF PathEntries
  <2> HIDE DEF a, b, c
  <2>2. \A S, x : IsFiniteSet(S) => /\ IsFiniteSet(S \cup {x})
                                    /\ Cardinality(S \cup {x}) =< Cardinality(S) + 1
                                    /\ Cardinality(S) \in Nat
    <3> SUFFICES ASSUME NEW S, NEW x, IsFiniteSet(S)
                 PROVE  /\ IsFiniteSet(S \cup {x})
                        /\ Cardinality(S \cup {x}) =< Cardinality(S) + 1
                        /\ Cardinality(S) \in Nat
      OBVIOUS
    <3>1. Cardinality(S) \in Nat
      BY FS_CardinalityType
    <3> QED
      BY <3>1, FS_AddElement
  <2>3. IsFiniteSet({}) /\ Cardinality({}) = 0
    BY FS_EmptySet
  <2>4. IsFiniteSet(two) /\ Cardinality(two) =< 2
    <3>1. IsFiniteSet({} \cup {a}) /\ Cardinality({} \cup {a}) =< 0 + 1
      BY <2>2, <2>3, Zenon
    <3> DEFINE one == {} \cup {a}
    <3>2. two = one \cup {b}
      OBVIOUS
    <3> HIDE DEF one, two
    <3>3. Cardinality(one) \in Nat /\ Cardinality(two) \in Nat
          /\ Cardinality(two) =< Cardinality(one) + 1 /\ IsFiniteSet(two)
      BY <2>2, <3>1, <3>2 DEF one
    <3> QED
      BY <3>1, <3>3 DEF one
  <2> HIDE DEF two
  <2>5. IsFiniteSet(two \cup {c}) /\ Cardinality(two \cup {c}) =< 3
    <3>1. /\ Cardinality(two) \in Nat /\ Cardinality(two \cup {c}) \in Nat
          /\ IsFiniteSet(two \cup {c})
          /\ Cardinality(two \cup {c}) =< Cardinality(two) + 1
      BY <2>2, <2>4
    <3> QED
      BY <2>4, <3>1
  <2> QED
    BY <2>1, <2>5
<1>3. Cardinality(table["path"]) =< Cardinality(PathEntries)
  BY <1>1, <1>2, FS_Subset
<1>4. Cardinality(table["path"]) \in Nat /\ Cardinality(PathEntries) \in Nat
  BY <1>1, <1>2, FS_Subset, FS_CardinalityType
<1> QED
  BY <1>1, <1>2, <1>3, <1>4

(* No step takes an entry out of a table.                                  *)
LEMMA TableGrows ==
  ASSUME TypeInv, [Next]_vars
  PROVE  \A t \in TableNames : table[t] \subseteq table'[t]
<1>1. CASE InstallRule
  <2>1. table \in [TableNames -> SUBSET Entry]
    BY DEF TypeInv, TypeOK
  <2>2. \/ table' = table
        \/ table' = [table EXCEPT ![Head(todo).to] = @ \cup {Head(todo).entry}]
    BY <1>1 DEF InstallRule
  <2> QED
    BY <2>1, <2>2
<1>2. CASE ~InstallRule
  <2>1. table' = table
    BY <1>2 DEF Next, vars, PacketStep, PktGenInject, IngressReport, IngressGenerate,
       IngressDrop, EgressSend, EgressResubmit, SutProcess, LinkLoss, DatagramLoss,
       ControllerStep, HandleReport, ReportTimeout, HandleDatagram, NoDatagram,
       CheckExit, Tick
  <2> QED
    BY <2>1
<1> QED
  BY <1>1, <1>2

LEMMA HitStays ==
  ASSUME TypeInv, [Next]_vars
  PROVE  /\ \A e \in PathEntries : Hit("path", e.key) => Hit("path", e.key)'
         /\ PathMissing' => PathMissing
<1>1. \A k : Hit("path", k) => Hit("path", k)'
  BY TableGrows DEF Hit, TableNames
<1> QED
  BY <1>1 DEF PathMissing, PathEntries

LEMMA BootInit == Init => BootInv
<1> SUFFICES ASSUME Init PROVE BootInv
  OBVIOUS
<1>1. PathsPending
  <2> SUFFICES ASSUME NEW k \in 1 .. 3
               PROVE  LET e == PathRules[k].entry
                      IN  \E i \in 1 .. Len(todo) :
                            /\ todo[i] = [to |-> "path", entry |-> e]
                            /\ \A j \in 1 .. i : todo[j].to = "path"
    BY DEF PathsPending, PathEntries
  <2>1. Len(todo) >= 3 /\ \A i \in 1 .. 3 : todo[i] = PathRules[i]
    <3> DEFINE f == PathRules
               g == RulesAfterPaths
    <3>1. f \in Seq(GoodRules) /\ g \in Seq(GoodRules) /\ Len(f) = 3 /\ todo = f \o g
      BY PathRulesGood, RulesAfterPathsGood DEF Init, InitialRules
    <3> HIDE DEF f, g
    <3>2. /\ Len(f \o g) = Len(f) + Len(g)
          /\ \A i \in 1 .. Len(f) + Len(g) :
                (f \o g)[i] = IF i <= Len(f) THEN f[i] ELSE g[i - Len(f)]
      BY <3>1, ConcatProperties, Zenon
    <3>3. Len(g) \in Nat
      BY <3>1
    <3>4. Len(f \o g) >= 3
      BY <3>1, <3>2, <3>3
    <3>5. ASSUME NEW i \in 1 .. 3
          PROVE  (f \o g)[i] = f[i]
      <4>1. i \in 1 .. Len(f) + Len(g) /\ i <= Len(f)
        BY <3>1, <3>3
      <4> QED
        BY <3>2, <4>1
    <3> QED
      BY <3>1, <3>4, <3>5, Zenon DEF f
  <2>2. \A i \in 1 .. 3 : /\ PathRules[i].to = "path"
                          /\ PathRules[i] = [to |-> "path", entry |-> PathRules[i].entry]
    BY DEF PathRules, NewRule
  <2>3. k \in 1 .. Len(todo) /\ todo[k] = [to |-> "path", entry |-> PathRules[k].entry]
    BY <2>1, <2>2, InitialRulesGood DEF Init
  <2>4. \A j \in 1 .. k : todo[j].to = "path"
    BY <2>1, <2>2
  <2> QED
    BY <2>3, <2>4
<1>2. NothingBuilt
  BY FreePacket DEF Init, NothingBuilt, TableNames
<1> QED
  BY <1>1, <1>2 DEF BootInv

(* The head of the rules, while ti_path_assertion is incomplete.           *)
LEMMA PathRuleFirst ==
  ASSUME TypeInv, BootInv, PathMissing
  PROVE  todo # <<>> /\ Head(todo).to = "path"
<1>1. PICK e \in PathEntries : ~Hit("path", e.key)
  BY DEF PathMissing
<1>2. PICK i \in 1 .. Len(todo) : \A j \in 1 .. i : todo[j].to = "path"
  BY <1>1 DEF BootInv, PathsPending
<1>3. 1 \in 1 .. i /\ todo \in Seq(GoodRules)
  BY <1>2 DEF TypeInv
<1> QED
  BY <1>2, <1>3

LEMMA PendingStep ==
  ASSUME TypeInv, BootInv, [Next]_vars
  PROVE  PathsPending'
<1> SUFFICES ASSUME NEW e \in PathEntries, ~Hit("path", e.key)'
             PROVE  \E i \in 1 .. Len(todo') :
                      /\ todo'[i] = [to |-> "path", entry |-> e]
                      /\ \A j \in 1 .. i : todo'[j].to = "path"
  BY DEF PathsPending, PathEntries
<1>1. ~Hit("path", e.key)
  BY HitStays
<1>2. PICK i \in 1 .. Len(todo) :
        /\ todo[i] = [to |-> "path", entry |-> e]
        /\ \A j \in 1 .. i : todo[j].to = "path"
  BY <1>1 DEF BootInv, PathsPending
<1>3. todo \in Seq(GoodRules) /\ todo # <<>>
  BY <1>2 DEF TypeInv
<1>4. CASE InstallRule
  <2>1. /\ Len(Tail(todo)) = Len(todo) - 1
        /\ \A j \in 1 .. Len(Tail(todo)) : Tail(todo)[j] = todo[j + 1]
    BY <1>3, HeadTailProperties, Zenon
  <2>2. todo' = Tail(todo) /\ Len(todo) \in Nat
    BY <1>3, <1>4 DEF InstallRule
  <2>3. i # 1
    <3> SUFFICES ASSUME i = 1 PROVE FALSE
      OBVIOUS
    <3>1. Head(todo) = [to |-> "path", entry |-> e]
      BY <1>2, <1>3
    <3>2. Cardinality(table["path"]) < Capacity("path")
      BY PathRoom DEF Capacity
    <3>3. table' = [table EXCEPT !["path"] = @ \cup {e}]
      <4> DEFINE r == Head(todo)
      <4>1. r.to = "path" /\ r.entry = e
        BY <3>1
      <4>2. ~Hit(r.to, r.entry.key) /\ Cardinality(table[r.to]) < Capacity(r.to)
        BY <1>1, <3>2, <4>1
      <4>3. table' = [table EXCEPT ![r.to] = @ \cup {r.entry}]
        BY <1>4, <4>2 DEF InstallRule
      <4> HIDE DEF r
      <4> QED
        BY <4>1, <4>3
    <3>4. e \in table'["path"]
      BY <3>3 DEF TypeInv, TypeOK, TableNames
    <3> QED
      BY <3>4 DEF Hit
  <2>4. i - 1 \in 1 .. Len(todo')
    BY <2>1, <2>2, <2>3
  <2>5. todo'[i - 1] = todo[i]
    BY <2>1, <2>2, <2>4
  <2>6. \A j \in 1 .. i - 1 : todo'[j] = todo[j + 1] /\ j + 1 \in 1 .. i
    BY <2>1, <2>2, <2>4
  <2> QED
    BY <1>2, <2>4, <2>5, <2>6
<1>5. CASE ~InstallRule
  <2>1. todo' = todo
    BY <1>3, <1>5 DEF Next, vars, PacketStep, PktGenInject, IngressReport,
       IngressGenerate, IngressDrop, EgressSend, EgressResubmit, SutProcess, LinkLoss,
       DatagramLoss, ControllerStep, HandleReport, ReportTimeout, HandleDatagram,
       NoDatagram, CheckExit, Tick, controller
  <2> QED
    BY <1>2, <2>1
<1> QED
  BY <1>4, <1>5

LEMMA NothingBuiltStep ==
  ASSUME TypeInv, BootInv, [Next]_vars, PathMissing'
  PROVE  NothingBuilt'
<1>1. PathMissing /\ NothingBuilt
  BY HitStays DEF BootInv
<1>2. packet \in [PktIds -> Packet]
  BY DEF TypeInv, TypeOK
<1>3. table'["create"] = {}
  <2>1. CASE InstallRule
    <3>1. Head(todo).to # "create"
      BY <1>1, PathRuleFirst
    <3>2. table'["create"] = table["create"]
      BY <2>1, <3>1 DEF InstallRule, TypeInv, TypeOK, TableNames
    <3> QED
      BY <1>1, <3>2 DEF NothingBuilt
  <2>2. CASE ~InstallRule
    <3>1. table' = table
      BY <2>2 DEF Next, vars, PacketStep, PktGenInject, IngressReport, IngressGenerate,
         IngressDrop, EgressSend, EgressResubmit, SutProcess, LinkLoss, DatagramLoss,
         ControllerStep, HandleReport, ReportTimeout, HandleDatagram, NoDatagram,
         CheckExit, Tick
    <3> QED
      BY <1>1, <3>1 DEF NothingBuilt
  <2> QED
    BY <2>1, <2>2
<1>4. \A p \in PktIds : packet'[p].at \in {"free", "ingress"} /\ packet'[p].type = 0
  <2>1. CASE \E p \in PktIds : PacketStep(p)
    <3>1. PICK p \in PktIds : PacketStep(p)
      BY <2>1
    <3>2. packet[p].at \in {"free", "ingress"}
      BY <1>1 DEF NothingBuilt
    <3>3. \A k : ~Hit("create", k)
      BY <1>1 DEF NothingBuilt, Hit
    <3>4. \/ packet' = [packet EXCEPT ![p] = Free]
          \/ packet' = [packet EXCEPT ![p] = [Free EXCEPT !.at = "ingress"]]
      BY <3>1, <3>2, <3>3 DEF PacketStep, PktGenInject, IngressReport,
         IngressGenerate, IngressDrop, EgressSend, EgressResubmit, SutProcess, LinkLoss
    <3>5. [Free EXCEPT !.at = "ingress"].at = "ingress"
          /\ [Free EXCEPT !.at = "ingress"].type = 0
      BY DEF Free
    <3> QED
      BY <1>1, <1>2, <3>4, <3>5, FreePacket DEF NothingBuilt
  <2>2. CASE ~ \E p \in PktIds : PacketStep(p)
    <3>1. packet' = packet
      BY <2>2 DEF Next, vars, DatagramLoss, ControllerStep, InstallRule, HandleReport,
         ReportTimeout, HandleDatagram, NoDatagram, CheckExit, Tick, dataplane
    <3> QED
      BY <1>1, <3>1 DEF NothingBuilt
  <2> QED
    BY <2>1, <2>2
<1> QED
  BY <1>3, <1>4 DEF NothingBuilt

LEMMA BootNext == TypeInv /\ BootInv /\ [Next]_vars => BootInv'
BY PendingStep, NothingBuiltStep DEF BootInv

(* A packet that has traversed the SUT meets a complete ti_path_assertion: *)
(* it is reported unless both of its positions are set.                    *)
LEMMA ReportedIfNew ==
  ASSUME TypeInv, BootInv, NEW p \in PktIds, Traversed(packet[p])
  PROVE  Reported(packet[p]) <=> \/ Hash1[packet[p].acts] \notin bloom1
                                 \/ Hash2[packet[p].acts] \notin bloom2
<1>1. ~PathMissing
  BY DEF BootInv, NothingBuilt, Traversed
<1>2. \A i \in 1 .. 3 : Hit("path", PathRules[i].entry.key)
  BY <1>1 DEF PathMissing, PathEntries
<1>3. /\ PathRules[1].entry.key = <<0, 0>>
      /\ PathRules[2].entry.key = <<0, 1>>
      /\ PathRules[3].entry.key = <<1, 0>>
  BY DEF PathRules, NewRule
<1>4. Hit("path", <<0, 0>>) /\ Hit("path", <<0, 1>>) /\ Hit("path", <<1, 0>>)
  BY <1>2, <1>3
<1>5. ~Hit("path", <<1, 1>>)
  <2>1. \A e \in PathEntries : e.key # <<1, 1>>
    <3>1. \A i \in 1 .. 3 : i = 1 \/ i = 2 \/ i = 3
      OBVIOUS
    <3>2. <<0, 0>> # <<1, 1>> /\ <<0, 1>> # <<1, 1>> /\ <<1, 0>> # <<1, 1>>
      OBVIOUS
    <3> QED
      BY <1>3, <3>1, <3>2 DEF PathEntries
  <2> QED
    BY <2>1, PathRoom DEF Hit
<1> QED
  BY <1>4, <1>5 DEF Reported, Lookup, Bit

-----------------------------------------------------------------------------
(* What the registers say is what was reported.                            *)

(* The positions of a mark set that has come back are set.                 *)
ReturnedKnown ==
  \A a \in returned : Hash1[a] \in bloom1 /\ Hash2[a] \in bloom2

BloomInv == BloomSound /\ ReportedOnce /\ ReturnedKnown

ActsOf(q) == {q[i].acts : i \in 1 .. Len(q)}

NoTwoAlike(q) == \A i, j \in 1 .. Len(q) : q[i].acts = q[j].acts => i = j

LEMMA ReportAppended ==
  ASSUME NEW q \in Seq(Report), NEW r \in Report
  PROVE  /\ ActsOf(Append(q, r)) = ActsOf(q) \cup {r.acts}
         /\ NoTwoAlike(q) /\ r.acts \notin ActsOf(q) => NoTwoAlike(Append(q, r))
<1>1. /\ Len(Append(q, r)) = Len(q) + 1 /\ Len(q) \in Nat
      /\ \A i \in 1 .. Len(q) : Append(q, r)[i] = q[i]
      /\ Append(q, r)[Len(q) + 1] = r
  OBVIOUS
<1> DEFINE t == Append(q, r)
<1> HIDE DEF t
<1>2. ActsOf(t) = ActsOf(q) \cup {r.acts}
  BY <1>1 DEF ActsOf, t
<1>3. ASSUME NoTwoAlike(q), r.acts \notin ActsOf(q), NEW i \in 1 .. Len(t),
             NEW j \in 1 .. Len(t), t[i].acts = t[j].acts
      PROVE  i = j
  BY <1>1, <1>3 DEF ActsOf, NoTwoAlike, t
<1> QED
  BY <1>2, <1>3 DEF NoTwoAlike, t

LEMMA ReportTaken ==
  ASSUME NEW q \in Seq(Report), q # <<>>
  PROVE  /\ ActsOf(q) = ActsOf(Tail(q)) \cup {Head(q).acts}
         /\ NoTwoAlike(q) => /\ NoTwoAlike(Tail(q))
                             /\ Head(q).acts \notin ActsOf(Tail(q))
<1> DEFINE t == Tail(q)
           n == Len(q)
<1>1. Len(t) = n - 1 /\ n \in Nat \ {0} /\ Head(q) = q[1]
      /\ \A i \in 1 .. Len(t) : t[i] = q[i + 1]
  <2>1. Len(t) = n - 1 /\ \A i \in 1 .. Len(t) : t[i] = q[i + 1]
    BY HeadTailProperties, Zenon
  <2> QED
    BY <2>1
<1> HIDE DEF t, n
<1>2. ActsOf(t) \cup {q[1].acts} \subseteq ActsOf(q)
  BY <1>1 DEF ActsOf, n
<1>3. ASSUME NEW i \in 1 .. n
      PROVE  q[i].acts \in ActsOf(t) \cup {q[1].acts}
  <2>1. CASE i = 1
    BY <2>1
  <2>2. CASE i # 1
    <3>1. i - 1 \in 1 .. Len(t) /\ t[i - 1] = q[i]
      BY <1>1, <2>2
    <3> QED
      BY <3>1 DEF ActsOf
  <2> QED
    BY <2>1, <2>2
<1>4. ASSUME NoTwoAlike(q)
      PROVE  NoTwoAlike(t) /\ q[1].acts \notin ActsOf(t)
  <2>1. \A i \in 1 .. Len(t) : i + 1 \in 1 .. Len(q) /\ 1 \in 1 .. Len(q)
    BY <1>1 DEF n
  <2>2. NoTwoAlike(t)
    <3> SUFFICES ASSUME NEW i \in 1 .. Len(t), NEW j \in 1 .. Len(t),
                        t[i].acts = t[j].acts
                 PROVE  i = j
      BY DEF NoTwoAlike
    <3>1. i + 1 = j + 1
      BY <1>1, <1>4, <2>1 DEF NoTwoAlike
    <3> QED
      BY <1>1, <3>1
  <2>3. \A i \in 1 .. Len(t) : q[1].acts # t[i].acts
    <3> SUFFICES ASSUME NEW i \in 1 .. Len(t), q[1].acts = t[i].acts PROVE FALSE
      OBVIOUS
    <3>1. 1 = i + 1
      BY <1>1, <1>4, <2>1 DEF NoTwoAlike
    <3> QED
      BY <1>1, <3>1
  <2> QED
    BY <2>2, <2>3 DEF ActsOf
<1> QED
  BY <1>1, <1>2, <1>3, <1>4 DEF ActsOf, t, n

LEMMA BloomInit == Init => BloomInv
<1> SUFFICES ASSUME Init PROVE BloomInv
  OBVIOUS
<1>1. Len(cpuq) = 0 /\ 1 .. 0 = {}
  BY DEF Init
<1>2. Accounted = {}
  BY <1>1 DEF Init, Accounted, Waiting
<1> QED
  BY <1>1, <1>2 DEF Init, BloomInv, BloomSound, ReportedOnce, ReturnedKnown, Waiting

(* A packet that is not reported changes no register.                      *)
LEMMA RecycledTouchesNothing ==
  ASSUME TypeInv, BootInv, BloomInv, NEW p \in PktIds,
         ~Reported(packet[p]), TouchBloom(packet[p])
  PROVE  bloom1' = bloom1 /\ bloom2' = bloom2 /\ ReturnedKnown'
<1>1. CASE Traversed(packet[p])
  BY <1>1, ReportedIfNew DEF TouchBloom, BloomInv, ReturnedKnown
<1>2. CASE ~Traversed(packet[p])
  BY <1>2 DEF TouchBloom, BloomInv, ReturnedKnown
<1> QED
  BY <1>1, <1>2

(* A report is of a mark set nobody has heard of.                          *)
LEMMA ReportStep ==
  ASSUME TypeInv, BootInv, BloomInv, NEW p \in PktIds, IngressReport(p)
  PROVE  BloomInv'
<1> DEFINE a == packet[p].acts
           r == [acts |-> a, path |-> packet[p].path, type |-> packet[p].type]
<1>1. packet[p] \in Packet
  BY DEF TypeInv, TypeOK
<1>2. Traversed(packet[p]) /\ Reported(packet[p])
  BY DEF IngressReport, Reported
<1>3. r \in Report
  BY <1>1, <1>2 DEF Traversed, Packet, Report, TypeInv, CircuitPaths
<1>4. Hash1[a] \notin bloom1 \/ Hash2[a] \notin bloom2
  BY <1>2, ReportedIfNew
<1>5. a \notin Accounted
  BY <1>4 DEF BloomInv, BloomSound
<1>6. \/ cpuq' = Append(cpuq, r) /\ lost' = lost
      \/ cpuq' = cpuq /\ lost' = lost \cup {a}
  BY DEF IngressReport
<1>7. /\ bloom1' = bloom1 \cup {Hash1[a]} /\ bloom2' = bloom2 \cup {Hash2[a]}
      /\ returned' = returned \cup {a}
  BY <1>2 DEF IngressReport, TouchBloom
<1>8. handled' = handled
  BY DEF IngressReport, controller
<1>9. cpuq \in Seq(Report)
  BY DEF TypeInv, TypeOK
<1>10. Waiting = ActsOf(cpuq) /\ Waiting' = ActsOf(cpuq')
  BY DEF Waiting, ActsOf
<1>11. ReportedOnce <=> NoTwoAlike(cpuq) /\ Waiting \cap (handled \cup lost) = {}
  BY DEF ReportedOnce, NoTwoAlike
<1>12. ReportedOnce' <=> NoTwoAlike(cpuq') /\ Waiting' \cap (handled' \cup lost') = {}
  BY DEF ReportedOnce, NoTwoAlike
<1>13. /\ ActsOf(Append(cpuq, r)) = ActsOf(cpuq) \cup {a}
       /\ NoTwoAlike(cpuq) /\ a \notin ActsOf(cpuq) => NoTwoAlike(Append(cpuq, r))
  BY <1>3, <1>9, ReportAppended
<1> HIDE DEF a, r
<1>14. Accounted' = Accounted \cup {a}
  BY <1>6, <1>8, <1>10, <1>13 DEF Accounted
<1>15. BloomSound'
  BY <1>7, <1>14 DEF BloomInv, BloomSound
<1>16. ReportedOnce'
  BY <1>5, <1>6, <1>8, <1>10, <1>11, <1>12, <1>13 DEF BloomInv, Accounted
<1>17. ReturnedKnown'
  BY <1>7 DEF BloomInv, ReturnedKnown
<1> QED
  BY <1>15, <1>16, <1>17 DEF BloomInv

(* The controller takes over the report it handles.                        *)
LEMMA HandleStep ==
  ASSUME TypeInv, BloomInv, HandleReport
  PROVE  BloomInv'
<1> DEFINE a == Head(cpuq).acts
<1>1. cpuq \in Seq(Report) /\ cpuq # <<>> /\ cpuq' = Tail(cpuq)
  BY DEF HandleReport, TypeInv, TypeOK
<1>2. UNCHANGED <<bloom1, bloom2, returned>>
  BY DEF HandleReport, dataplane
<1>3. \/ lost' = lost \cup {a} /\ handled' = handled
      \/ lost' = lost /\ handled' = handled \cup {a}
  BY ReportCases
<1>4. Waiting = ActsOf(cpuq) /\ Waiting' = ActsOf(cpuq')
  BY DEF Waiting, ActsOf
<1>5. ReportedOnce <=> NoTwoAlike(cpuq) /\ Waiting \cap (handled \cup lost) = {}
  BY DEF ReportedOnce, NoTwoAlike
<1>6. ReportedOnce' <=> NoTwoAlike(cpuq') /\ Waiting' \cap (handled' \cup lost') = {}
  BY DEF ReportedOnce, NoTwoAlike
<1>7. /\ ActsOf(cpuq) = ActsOf(Tail(cpuq)) \cup {a}
      /\ NoTwoAlike(cpuq) => NoTwoAlike(Tail(cpuq)) /\ a \notin ActsOf(Tail(cpuq))
  BY <1>1, ReportTaken
<1> HIDE DEF a
<1>8. Accounted' = Accounted
  BY <1>1, <1>3, <1>4, <1>7 DEF Accounted
<1>9. BloomSound'
  BY <1>2, <1>8 DEF BloomInv, BloomSound
<1>10. ReportedOnce'
  BY <1>1, <1>3, <1>4, <1>5, <1>6, <1>7 DEF BloomInv
<1>11. ReturnedKnown'
  BY <1>2 DEF BloomInv, ReturnedKnown
<1> QED
  BY <1>9, <1>10, <1>11 DEF BloomInv

LEMMA BloomNext == TypeInv /\ BootInv /\ BloomInv /\ [Next]_vars => BloomInv'
<1> SUFFICES ASSUME TypeInv, BootInv, BloomInv, [Next]_vars
             PROVE  BloomInv'
  OBVIOUS
<1>1. ASSUME NEW p \in PktIds, IngressReport(p)
      PROVE  BloomInv'
  BY <1>1, ReportStep
<1>2. CASE HandleReport
  BY <1>2, HandleStep
<1>3. UNCHANGED <<cpuq, handled, lost>> =>
        ReportedOnce' /\ (UNCHANGED <<bloom1, bloom2>> => BloomSound')
  BY DEF BloomInv, ReportedOnce, BloomSound, Accounted, Waiting
<1>4. ASSUME NEW p \in PktIds, IngressGenerate(p) \/ IngressDrop(p)
      PROVE  BloomInv'
  <2>1. /\ ~Reported(packet[p]) /\ TouchBloom(packet[p])
        /\ UNCHANGED <<cpuq, handled, lost>>
    BY <1>4 DEF IngressGenerate, IngressDrop, controller
  <2>2. bloom1' = bloom1 /\ bloom2' = bloom2 /\ ReturnedKnown'
    BY <2>1, RecycledTouchesNothing
  <2> QED
    BY <1>3, <2>1, <2>2 DEF BloomInv
<1>5. ASSUME UNCHANGED <<bloom1, bloom2, returned, cpuq, handled, lost>>
      PROVE  BloomInv'
  BY <1>3, <1>5 DEF BloomInv, ReturnedKnown
<1>6. \/ HandleReport
      \/ \E p \in PktIds : IngressReport(p) \/ IngressGenerate(p) \/ IngressDrop(p)
      \/ UNCHANGED <<bloom1, bloom2, returned, cpuq, handled, lost>>
  BY DEF Next, vars, PacketStep, PktGenInject, EgressSend, EgressResubmit, SutProcess,
     LinkLoss, DatagramLoss, ControllerStep, InstallRule, ReportTimeout,
     HandleDatagram, NoDatagram, CheckExit, Tick, controller, dataplane, feedback
<1> QED
  BY <1>1, <1>2, <1>4, <1>5, <1>6

-----------------------------------------------------------------------------
LoopInv == TypeInv /\ BootInv /\ BloomInv

(* The three groups together are inductive.                                *)
THEOREM LoopInvariant == Spec => []LoopInv
<1>1. Init => LoopInv
  BY TypeInvInit, BootInit, BloomInit DEF LoopInv
<1>2. LoopInv /\ [Next]_vars => LoopInv'
  BY TypeInvNext, BootNext, BloomNext DEF LoopInv
<1> QED
  BY <1>1, <1>2, PTL DEF Spec

(* A register position is set only for a mark set the controller has       *)
(* accounted for, that waits in its queue or that was lost on the way,     *)
(* although packets flow while the tables are being filled.                *)
THEOREM RegistersSound == Spec => []BloomSound
<1>1. LoopInv => BloomSound
  BY DEF LoopInv, BloomInv
<1> QED
  BY <1>1, LoopInvariant, PTL

(* The controller hears of a mark set at most once, whatever packets       *)
(* return with it.                                                         *)
THEOREM NoSecondReport == Spec => []ReportedOnce
<1>1. LoopInv => ReportedOnce
  BY DEF LoopInv, BloomInv
<1> QED
  BY <1>1, LoopInvariant, PTL

(* A mark set that came back unreported collides in both registers with    *)
(* other mark sets that were reported.                                     *)
THEOREM OnlyCollisionsHide == Spec => []MissedOnlyByCollision
<1>1. LoopInv => MissedOnlyByCollision
  <2> SUFFICES ASSUME LoopInv, NEW a \in returned \ Accounted
               PROVE  \E b, c \in Accounted \ {a} :
                         Hash1[a] = Hash1[b] /\ Hash2[a] = Hash2[c]
    BY DEF MissedOnlyByCollision
  <2>1. Hash1[a] \in bloom1 /\ Hash2[a] \in bloom2
    BY DEF LoopInv, BloomInv, ReturnedKnown
  <2>2. PICK b \in Accounted : Hash1[a] = Hash1[b]
    BY <2>1 DEF LoopInv, BloomInv, BloomSound
  <2>3. PICK c \in Accounted : Hash2[a] = Hash2[c]
    BY <2>1 DEF LoopInv, BloomInv, BloomSound
  <2> QED
    BY <2>2, <2>3
<1> QED
  BY <1>1, LoopInvariant, PTL

-----------------------------------------------------------------------------
(* A packet carries marks from the SUT to the ingress of the SDT and       *)
(* nowhere else; there its type tells whether it has been to the SUT.      *)
MarksOfOneRun(x) ==
  IF x.at = "ingress"
  THEN \/ x.type = 0 /\ x.acts = {}
       \/ x.type = 1 /\ x.acts \in Exec[x.path]
  ELSE x.acts = {}

ExecInv ==
  /\ \A p \in PktIds : MarksOfOneRun(packet[p])
  /\ ReportsAreExecutions

LEMMA ExecInit == Init => ExecInv
<1> SUFFICES ASSUME Init PROVE ExecInv
  OBVIOUS
<1>1. Free.at = "free" /\ Free.acts = {}
  BY DEF Free
<1>2. Len(cpuq) = 0 /\ 1 .. 0 = {}
  BY DEF Init
<1> QED
  BY <1>1, <1>2 DEF Init, ExecInv, MarksOfOneRun, ReportsAreExecutions

(* A recycled packet starts without marks, whatever it came with.          *)
LEMMA RecycledClean ==
  ASSUME NEW x, x.at = "ingress", MarksOfOneRun(x)
  PROVE  Recycled(x) = {}
BY DEF MarksOfOneRun, Recycled, Traversed

LEMMA ExecPacketStep ==
  ASSUME SutHasEgress, TypeInv, ExecInv, NEW p \in PktIds, PacketStep(p)
  PROVE  \A q \in PktIds : MarksOfOneRun(packet'[q])
<1>1. packet \in [PktIds -> Packet] /\ packet[p] \in Packet
  BY DEF TypeInv, TypeOK
<1>2. \A q \in PktIds : MarksOfOneRun(packet[q])
  BY DEF ExecInv
<1>3. /\ Free.at = "free" /\ Free.acts = {} /\ Free.type = 0
      /\ MarksOfOneRun(Free) /\ MarksOfOneRun([Free EXCEPT !.at = "ingress"])
  BY DEF Free, MarksOfOneRun
<1>4. ASSUME NEW y, packet' = [packet EXCEPT ![p] = y], MarksOfOneRun(y)
      PROVE  \A q \in PktIds : MarksOfOneRun(packet'[q])
  BY <1>1, <1>2, <1>4
<1>5. CASE PktGenInject(p)
  BY <1>3, <1>4, <1>5 DEF PktGenInject
<1>6. CASE IngressReport(p) \/ IngressDrop(p) \/ LinkLoss(p)
  <2>1. packet' = [packet EXCEPT ![p] = Free]
    BY <1>6 DEF IngressReport, IngressDrop, LinkLoss
  <2> QED
    BY <1>3, <1>4, <2>1
<1>7. CASE IngressGenerate(p)
  <2>1. PICK s, twin : packet' = [packet EXCEPT ![p] = Generated(packet[p], s, twin)]
    BY <1>7 DEF IngressGenerate
  <2>2. Recycled(packet[p]) = {}
    BY <1>2, <1>7, RecycledClean DEF IngressGenerate
  <2>3. MarksOfOneRun(Generated(packet[p], s, twin))
    BY <2>2 DEF MarksOfOneRun, Generated, Free
  <2> QED
    BY <1>4, <2>1, <2>3
<1>8. CASE EgressSend(p)
  <2> DEFINE y == [packet[p] EXCEPT !.at = "sut"]
  <2>1. packet' = [packet EXCEPT ![p] = y] /\ packet[p].at = "egress"
    BY <1>8 DEF EgressSend
  <2>2. MarksOfOneRun(y)
    BY <1>1, <1>2, <2>1 DEF MarksOfOneRun, Packet
  <2> QED
    BY <1>4, <2>1, <2>2
<1>9. CASE EgressResubmit(p)
  <2> DEFINE y == [packet[p] EXCEPT !.at = "sut", !.type = 3]
             c == [y EXCEPT !.at = "egress", !.twin = FALSE]
  <2>1. /\ packet[p].at = "egress"
        /\ \/ packet' = [packet EXCEPT ![p] = y]
           \/ \E q \in PktIds \ {p} : packet' = [packet EXCEPT ![p] = y, ![q] = c]
    BY <1>9 DEF EgressResubmit
  <2>2. packet[p].acts = {}
    BY <1>2, <2>1 DEF MarksOfOneRun
  <2>3. y.at = "sut" /\ y.acts = {} /\ c.at = "egress" /\ c.acts = {}
    BY <1>1, <2>2 DEF Packet
  <2> HIDE DEF y, c
  <2>4. MarksOfOneRun(y) /\ MarksOfOneRun(c)
    BY <2>3 DEF MarksOfOneRun
  <2> QED
    BY <1>1, <1>2, <2>1, <2>4
<1>10. CASE SutProcess(p)
  <2>1. packet[p].at = "sut" /\ packet[p].acts = {}
    BY <1>2, <1>10 DEF SutProcess, MarksOfOneRun
  <2>2. PICK e \in Exec[packet[p].path] :
          packet' = [packet EXCEPT ![p] =
             [Free EXCEPT !.at = "ingress", !.path = packet[p].path,
                          !.type = TypeAfterSut(packet[p]),
                          !.acts = packet[p].acts \cup e]]
    BY <1>10 DEF SutProcess
  <2> DEFINE y == [Free EXCEPT !.at = "ingress", !.path = packet[p].path,
                               !.type = TypeAfterSut(packet[p]),
                               !.acts = packet[p].acts \cup e]
  <2>3. y.at = "ingress" /\ y.type = 1 /\ y.acts = e /\ y.path = packet[p].path
    BY <2>1 DEF Free, TypeAfterSut
  <2> HIDE DEF y
  <2>4. MarksOfOneRun(y)
    BY <2>3 DEF MarksOfOneRun
  <2> QED
    BY <1>4, <2>2, <2>4 DEF y
<1> QED
  BY <1>5, <1>6, <1>7, <1>8, <1>9, <1>10 DEF PacketStep

LEMMA ExecNext ==
  ASSUME SutHasEgress
  PROVE  TypeInv /\ ExecInv /\ [Next]_vars => ExecInv'
<1> SUFFICES ASSUME TypeInv, ExecInv, [Next]_vars PROVE ExecInv'
  OBVIOUS
<1>1. \A p \in PktIds : MarksOfOneRun(packet'[p])
  <2>1. CASE \E p \in PktIds : PacketStep(p)
    BY <2>1, ExecPacketStep
  <2>2. CASE UNCHANGED packet
    BY <2>2 DEF ExecInv
  <2> QED
    BY <2>1, <2>2 DEF Next, vars, DatagramLoss, ControllerStep, InstallRule,
       HandleReport, ReportTimeout, HandleDatagram, NoDatagram, CheckExit, Tick, dataplane
<1>2. cpuq \in Seq(Report)
  BY DEF TypeInv, TypeOK
<1>3. ReportsAreExecutions'
  <2>1. CASE UNCHANGED cpuq
    BY <2>1 DEF ExecInv, ReportsAreExecutions
  <2>2. ASSUME NEW p \in PktIds, IngressReport(p), ~UNCHANGED cpuq
        PROVE  ReportsAreExecutions'
    <3> DEFINE r == [acts |-> packet[p].acts, path |-> packet[p].path,
                     type |-> packet[p].type]
    <3>1. cpuq' = Append(cpuq, r)
      BY <2>2 DEF IngressReport
    <3>2. packet[p].acts \in Exec[packet[p].path]
      BY <2>2 DEF IngressReport, Reported, Traversed, ExecInv, MarksOfOneRun
    <3>3. /\ Len(cpuq') = Len(cpuq) + 1 /\ Len(cpuq) \in Nat
          /\ \A i \in 1 .. Len(cpuq) : cpuq'[i] = cpuq[i]
          /\ cpuq'[Len(cpuq) + 1] = r
      BY <1>2, <3>1
    <3>4. r.acts \in Exec[r.path]
      BY <3>2
    <3> HIDE DEF r
    <3> QED
      BY <3>3, <3>4 DEF ExecInv, ReportsAreExecutions
  <2>3. CASE HandleReport
    <3>1. cpuq # <<>> /\ cpuq' = Tail(cpuq)
      BY <2>3 DEF HandleReport
    <3>2. Len(cpuq') = Len(cpuq) - 1 /\ \A i \in 1 .. Len(cpuq') : cpuq'[i] = cpuq[i + 1]
      BY <1>2, <3>1, HeadTailProperties, Zenon
    <3>3. Len(cpuq) \in Nat
      BY <1>2
    <3> QED
      BY <3>2, <3>3 DEF ExecInv, ReportsAreExecutions
  <2> QED
    BY <2>1, <2>2, <2>3 DEF Next, vars, PacketStep, PktGenInject, IngressGenerate,
       IngressDrop, EgressSend, EgressResubmit, SutProcess, LinkLoss, DatagramLoss,
       ControllerStep, InstallRule, ReportTimeout, HandleDatagram, NoDatagram,
       CheckExit, Tick
<1> QED
  BY <1>1, <1>3 DEF ExecInv

(* With a control egress in the SUT program, a report is of one run of it  *)
(* on one packet: marks do not survive the stripping of a recycled packet, *)
(* nor a trip through the tester's egress, resubmitted or not.             *)
THEOREM ReportsAreOfOneRun ==
  ASSUME SutHasEgress
  PROVE  Spec => []ReportsAreExecutions
<1>1. Init => ExecInv
  BY ExecInit
<1>2. TypeInv /\ ExecInv /\ [Next]_vars => ExecInv'
  BY ExecNext
<1>3. ExecInv => ReportsAreExecutions
  BY DEF ExecInv
<1>4. LoopInv => TypeInv
  BY DEF LoopInv
<1> QED
  BY <1>1, <1>2, <1>3, <1>4, LoopInvariant, PTL DEF Spec

-----------------------------------------------------------------------------
(* What a seed costs: a register position or a datagram, spent when the    *)
(* message that may yield the seed is sent.                                *)
BudgetInv ==
  /\ IsFiniteSet(bloom1) /\ IsFiniteSet(bloom2)
  /\ numSeeds + Len(cpuq) + Len(sutq)
       =< N0 + Cardinality(bloom1) + Cardinality(bloom2) + sent

LEMMA BudgetInit == Init => BudgetInv
<1> SUFFICES ASSUME Init PROVE BudgetInv
  OBVIOUS
<1>1. /\ bloom1 = {} /\ bloom2 = {} /\ numSeeds = N0 /\ sent = 0
      /\ Len(cpuq) = 0 /\ Len(sutq) = 0
  BY DEF Init
<1>2. IsFiniteSet({}) /\ Cardinality({}) = 0
  BY FS_EmptySet
<1> QED
  BY <1>1, <1>2, SeedAssumption DEF BudgetInv

LEMMA AppendLength ==
  ASSUME NEW S, NEW q \in Seq(S), NEW d
  PROVE  Len(Append(q, d)) = Len(q) + 1 /\ Len(q) \in Nat
<1>1. q \in Seq(S \cup {d}) /\ d \in S \cup {d}
  OBVIOUS
<1> QED
  BY <1>1

LEMMA TailLength ==
  ASSUME NEW S, NEW q \in Seq(S), q # <<>>
  PROVE  Len(Tail(q)) = Len(q) - 1 /\ Len(q) \in Nat \ {0}
OBVIOUS

(* Adding a position never makes a register smaller, a new one larger.     *)
LEMMA PositionAdded ==
  ASSUME NEW S, IsFiniteSet(S), NEW h
  PROVE  /\ IsFiniteSet(S \cup {h})
         /\ Cardinality(S) \in Nat /\ Cardinality(S \cup {h}) \in Nat
         /\ Cardinality(S) =< Cardinality(S \cup {h})
         /\ h \notin S => Cardinality(S \cup {h}) = Cardinality(S) + 1
<1>1. IsFiniteSet(S \cup {h})
      /\ Cardinality(S \cup {h}) = IF h \in S THEN Cardinality(S) ELSE Cardinality(S) + 1
  BY FS_AddElement, Zenon
<1>2. Cardinality(S) \in Nat
  BY FS_CardinalityType
<1> QED
  BY <1>1, <1>2

(* A report pays for its place in the queue with a new position.           *)
LEMMA ReportBudget ==
  ASSUME LoopInv, BudgetInv, NEW p \in PktIds, IngressReport(p)
  PROVE  BudgetInv'
<1> DEFINE a == packet[p].acts
<1>1. Traversed(packet[p]) /\ Reported(packet[p])
  BY DEF IngressReport, Reported
<1>2. Hash1[a] \notin bloom1 \/ Hash2[a] \notin bloom2
  BY <1>1, ReportedIfNew DEF LoopInv
<1>3. bloom1' = bloom1 \cup {Hash1[a]} /\ bloom2' = bloom2 \cup {Hash2[a]}
  BY <1>1 DEF IngressReport, TouchBloom
<1>4. UNCHANGED <<numSeeds, sutq, sent>>
  BY DEF IngressReport, controller, feedback
<1>5. cpuq \in Seq(Report) /\ sutq \in Seq(Datagram) /\ numSeeds \in Nat /\ sent \in Nat
  BY CapacityAssumption DEF LoopInv, TypeInv, TypeOK
<1>6. Len(cpuq') =< Len(cpuq) + 1 /\ Len(cpuq') \in Nat /\ Len(cpuq) \in Nat /\ Len(sutq) \in Nat
  <2>1. Len(cpuq) \in Nat /\ Len(sutq) \in Nat
    BY <1>5
  <2>2. cpuq' = cpuq \/ \E r : cpuq' = Append(cpuq, r)
    BY DEF IngressReport
  <2> QED
    BY <1>5, <2>1, <2>2, AppendLength
<1> HIDE DEF a
<1>7. IsFiniteSet(bloom1) /\ IsFiniteSet(bloom2)
  BY DEF BudgetInv
<1>8. IsFiniteSet(bloom1') /\ IsFiniteSet(bloom2')
  BY <1>3, <1>7, PositionAdded
<1>9. /\ Cardinality(bloom1) \in Nat /\ Cardinality(bloom1') \in Nat
      /\ Cardinality(bloom2) \in Nat /\ Cardinality(bloom2') \in Nat
      /\ Cardinality(bloom1') + Cardinality(bloom2')
           >= Cardinality(bloom1) + Cardinality(bloom2) + 1
  <2>1. /\ Cardinality(bloom1) \in Nat /\ Cardinality(bloom1') \in Nat
        /\ Cardinality(bloom1) =< Cardinality(bloom1')
        /\ Hash1[a] \notin bloom1 => Cardinality(bloom1') = Cardinality(bloom1) + 1
    BY <1>3, <1>7, PositionAdded
  <2>2. /\ Cardinality(bloom2) \in Nat /\ Cardinality(bloom2') \in Nat
        /\ Cardinality(bloom2) =< Cardinality(bloom2')
        /\ Hash2[a] \notin bloom2 => Cardinality(bloom2') = Cardinality(bloom2) + 1
    BY <1>3, <1>7, PositionAdded
  <2> QED
    BY <1>2, <2>1, <2>2
<1>10. numSeeds + Len(cpuq) + Len(sutq)
         =< N0 + Cardinality(bloom1) + Cardinality(bloom2) + sent
  BY DEF BudgetInv
<1>11. N0 \in Nat
  BY SeedAssumption
<1>12. numSeeds' + Len(cpuq') + Len(sutq')
         =< N0 + Cardinality(bloom1') + Cardinality(bloom2') + sent'
  BY <1>4, <1>5, <1>6, <1>9, <1>10, <1>11
<1> QED
  BY <1>8, <1>12 DEF BudgetInv

(* check_coverage_and_add_seed counts at most one seed.                    *)
LEMMA OneSeedAtMost ==
  ASSUME NEW a, NEW q, NEW ty, NEW v, NEW nxt, CheckCoverage(a, q, ty, v, nxt)
  PROVE  numSeeds' = numSeeds \/ numSeeds' = numSeeds + 1
BY DEF CheckCoverage

LEMMA BudgetNext == LoopInv /\ BudgetInv /\ [Next]_vars => BudgetInv'
<1> SUFFICES ASSUME LoopInv, BudgetInv, [Next]_vars PROVE BudgetInv'
  OBVIOUS
<1>1. /\ cpuq \in Seq(Report) /\ sutq \in Seq(Datagram)
      /\ numSeeds \in Nat /\ sent \in Nat /\ N0 \in Nat
  BY SeedAssumption, CapacityAssumption DEF LoopInv, TypeInv, TypeOK
<1>2. /\ Len(cpuq) \in Nat /\ Len(sutq) \in Nat
      /\ Cardinality(bloom1) \in Nat /\ Cardinality(bloom2) \in Nat
  BY <1>1, FS_CardinalityType DEF BudgetInv
<1>3. CASE \E p \in PktIds : IngressReport(p)
  BY <1>3, ReportBudget
<1>4. CASE HandleReport
  <2>1. Len(cpuq') = Len(cpuq) - 1
    BY <1>1, <1>4, TailLength DEF HandleReport
  <2>2. UNCHANGED <<bloom1, bloom2, sutq, sent>>
    BY <1>4 DEF HandleReport, dataplane
  <2>3. numSeeds' = numSeeds \/ numSeeds' = numSeeds + 1
    <3>1. PICK q \in Reparse[Head(cpuq).path] :
            \/ UNCHANGED feedback
            \/ CheckCoverage(Head(cpuq).acts, q, Head(cpuq).type, learnt, "sut")
      BY <1>4, ReportCases
    <3> QED
      BY <3>1, OneSeedAtMost DEF feedback
  <2> QED
    BY <1>1, <1>2, <2>1, <2>2, <2>3 DEF BudgetInv
<1>5. CASE HandleDatagram
  <2>1. Len(sutq') = Len(sutq) - 1
    BY <1>1, <1>5, TailLength DEF HandleDatagram
  <2>2. UNCHANGED <<bloom1, bloom2, cpuq, sent>>
    BY <1>5 DEF HandleDatagram, dataplane
  <2>3. numSeeds' = numSeeds \/ numSeeds' = numSeeds + 1
    <3> DEFINE d == Head(sutq)
    <3>1. \/ UNCHANGED feedback
          \/ \E q \in Reparse[d.path] : CheckCoverage(d.acts, q, d.type, learnt', "check")
      BY <1>5, DatagramCases
    <3> QED
      BY <3>1, OneSeedAtMost DEF feedback
  <2> QED
    BY <1>1, <1>2, <2>1, <2>2, <2>3 DEF BudgetInv
<1>6. CASE \E p \in PktIds : SutProcess(p)
  <2>1. PICK p \in PktIds : SutProcess(p)
    BY <1>6
  <2>2. UNCHANGED <<bloom1, bloom2, cpuq, numSeeds>>
    BY <2>1 DEF SutProcess, controller, feedback
  <2>3. \/ UNCHANGED <<sutq, sent>>
        \/ sent' = sent + 1 /\ \E d : sutq' = Append(sutq, d)
    BY <2>1 DEF SutProcess, Forward
  <2>4. \/ UNCHANGED <<sutq, sent>>
        \/ sent' = sent + 1 /\ Len(sutq') = Len(sutq) + 1
    BY <1>1, <2>3, AppendLength
  <2> QED
    BY <1>1, <1>2, <2>2, <2>4 DEF BudgetInv
<1>7. CASE DatagramLoss
  <2>1. Len(sutq') = Len(sutq) - 1
    BY <1>1, <1>7, TailLength DEF DatagramLoss
  <2>2. UNCHANGED <<bloom1, bloom2, cpuq, numSeeds, sent>>
    BY <1>7 DEF DatagramLoss, dataplane, controller, feedback
  <2> QED
    BY <1>1, <1>2, <2>1, <2>2 DEF BudgetInv
<1>8. ASSUME UNCHANGED <<bloom1, bloom2, cpuq, sutq, sent, numSeeds>>
      PROVE  BudgetInv'
  BY <1>8 DEF BudgetInv
<1>9. CASE \E p \in PktIds : IngressGenerate(p) \/ IngressDrop(p)
  <2>1. PICK p \in PktIds : IngressGenerate(p) \/ IngressDrop(p)
    BY <1>9
  <2>2. /\ ~Reported(packet[p]) /\ TouchBloom(packet[p])
        /\ UNCHANGED <<cpuq, sutq, sent, numSeeds>>
    BY <2>1 DEF IngressGenerate, IngressDrop, controller, feedback
  <2> QED
    BY <1>8, <2>2, RecycledTouchesNothing DEF LoopInv
<1>10. CASE \/ InstallRule \/ ReportTimeout \/ NoDatagram \/ CheckExit \/ Tick
            \/ UNCHANGED vars
            \/ \E p \in PktIds : \/ PktGenInject(p) \/ EgressSend(p)
                                 \/ EgressResubmit(p) \/ LinkLoss(p)
  BY <1>8, <1>10 DEF vars, InstallRule, ReportTimeout, NoDatagram, CheckExit, Tick,
     PktGenInject, EgressSend, EgressResubmit, LinkLoss, dataplane, controller, feedback
<1> QED
  BY <1>3, <1>4, <1>5, <1>6, <1>7, <1>9, <1>10 DEF Next, ControllerStep, PacketStep

(* However packets and messages interleave, the number of seeds is bounded *)
(* by the positions of the registers and the datagrams of the SUT's        *)
(* controller: a report that yields a seed set a position nobody had set.  *)
THEOREM SeedsArePaidFor == Spec => []SeedsBounded
<1>1. Init => BudgetInv
  BY BudgetInit
<1>2. LoopInv /\ BudgetInv /\ [Next]_vars => BudgetInv'
  BY BudgetNext
<1>3. LoopInv /\ BudgetInv => SeedsBounded
  <2> SUFFICES ASSUME LoopInv, BudgetInv PROVE SeedsBounded
    OBVIOUS
  <2>1. /\ cpuq \in Seq(Report) /\ sutq \in Seq(Datagram)
        /\ numSeeds \in Nat /\ sent \in Nat /\ N0 \in Nat
    BY SeedAssumption, CapacityAssumption DEF LoopInv, TypeInv, TypeOK
  <2>2. /\ Len(cpuq) \in Nat /\ Len(sutq) \in Nat
        /\ Cardinality(bloom1) \in Nat /\ Cardinality(bloom2) \in Nat
    BY <2>1, FS_CardinalityType DEF BudgetInv
  <2> QED
    BY <2>1, <2>2 DEF BudgetInv, SeedsBounded
<1> QED
  BY <1>1, <1>2, <1>3, LoopInvariant, PTL DEF Spec
-----------------------------------------------------------------------------
(***************************************************************************)
(* What the tables of the tester hold while add_entries fills them one     *)
(* rule at a time, and what follows from it: no draw finds a seed without  *)
(* its packet, no packet sees half a seed, and the loop implements the     *)
(* abstract CoverageFeedback.  The tables that have one entry per seed     *)
(* always hold the first few seeds, in order; the next ones are in todo,   *)
(* unless the table is full.                                               *)
(***************************************************************************)
(* Sequences of rules.                                                     *)

(* The tables with an entry per seed, under the number of the seed.        *)
Numbered == {"seed", "create", "fields", "mutate"}

(* The keys of the rules that q has for table t, and their order.          *)
Keys(q, t) == {q[i].entry.key : i \in {j \in 1 .. Len(q) : q[j].to = t}}

Ordered(q, t) ==
  \A i, j \in 1 .. Len(q) :
     i < j /\ q[i].to = t /\ q[j].to = t => q[i].entry.key[1] < q[j].entry.key[1]

(* The keys of the seeds from a to b - 1.                                  *)
Numbers(a, b) == {<<m>> : m \in a .. b - 1}

LEMMA InNumbers ==
  ASSUME NEW a \in Int, NEW b \in Int, NEW m
  PROVE  <<m>> \in Numbers(a, b) <=> m \in a .. b - 1
BY DEF Numbers

LEMMA InKeys ==
  ASSUME NEW q, NEW t, NEW k
  PROVE  k \in Keys(q, t) <=>
           \E i \in 1 .. Len(q) : q[i].to = t /\ q[i].entry.key = k
BY DEF Keys

(* What installing the first rule leaves to do.                            *)
LEMMA KeysOfTail ==
  ASSUME NEW q \in Seq(GoodRules), q # <<>>, NEW t
  PROVE  /\ Keys(Tail(q), t) \subseteq Keys(q, t)
         /\ Head(q).to = t => /\ Head(q).entry.key \in Keys(q, t)
                              /\ Keys(q, t) \subseteq Keys(Tail(q), t)
                                                       \cup {Head(q).entry.key}
         /\ Head(q).to # t => Keys(Tail(q), t) = Keys(q, t)
         /\ Ordered(q, t) => Ordered(Tail(q), t)
         /\ Ordered(q, t) /\ Head(q).to = t =>
              \A k \in Keys(Tail(q), t) : Head(q).entry.key[1] < k[1]
<1> DEFINE r == Tail(q)
           n == Len(q)
<1>1. Len(r) = n - 1 /\ n \in Nat \ {0} /\ Head(q) = q[1]
      /\ \A i \in 1 .. Len(r) : r[i] = q[i + 1]
  <2>1. Len(r) = n - 1 /\ \A i \in 1 .. Len(r) : r[i] = q[i + 1]
    BY HeadTailProperties, Zenon
  <2> QED
    BY <2>1
<1> HIDE DEF r
<1>2. ASSUME NEW i \in 1 .. n
      PROVE  i = 1 \/ (i - 1 \in 1 .. Len(r) /\ r[i - 1] = q[i])
  BY <1>1
<1>3. ASSUME NEW i \in 1 .. Len(r)
      PROVE  i + 1 \in 1 .. n /\ r[i] = q[i + 1] /\ 1 < i + 1
  BY <1>1
<1>4. 1 \in 1 .. n
  BY <1>1
<1>5. Keys(r, t) \subseteq Keys(q, t)
  BY <1>3, InKeys
<1>6. Keys(q, t) \subseteq Keys(r, t) \cup (IF q[1].to = t THEN {q[1].entry.key} ELSE {})
  BY <1>2, InKeys
<1>7. q[1].to = t => q[1].entry.key \in Keys(q, t)
  BY <1>4, InKeys
<1>8. ASSUME Ordered(q, t) PROVE Ordered(r, t)
  <2> SUFFICES ASSUME NEW i \in 1 .. Len(r), NEW j \in 1 .. Len(r), i < j,
                      r[i].to = t, r[j].to = t
               PROVE  r[i].entry.key[1] < r[j].entry.key[1]
    BY DEF Ordered
  <2>1. i + 1 < j + 1
    OBVIOUS
  <2> QED
    BY <1>3, <1>8, <2>1 DEF Ordered
<1>9. ASSUME Ordered(q, t), q[1].to = t, NEW k \in Keys(r, t)
      PROVE  q[1].entry.key[1] < k[1]
  <2>1. PICK i \in 1 .. Len(r) : r[i].to = t /\ r[i].entry.key = k
    BY <1>9, InKeys
  <2> QED
    BY <1>3, <1>4, <1>9, <2>1 DEF Ordered
<1> QED
  BY <1>1, <1>5, <1>6, <1>7, <1>8, <1>9 DEF r

LEMMA KeysOfConcat ==
  ASSUME NEW f \in Seq(GoodRules), NEW g \in Seq(GoodRules), NEW t
  PROVE  /\ Keys(f \o g, t) = Keys(f, t) \cup Keys(g, t)
         /\ /\ Ordered(f, t) /\ Ordered(g, t)
            /\ Keys(f, t) = {} \/ Keys(g, t) = {}
            => Ordered(f \o g, t)
<1> DEFINE h == f \o g
           m == Len(f)
           n == Len(g)
<1>1. /\ Len(h) = m + n /\ m \in Nat /\ n \in Nat
      /\ \A i \in 1 .. m + n : h[i] = IF i <= m THEN f[i] ELSE g[i - m]
  <2>1. m \in Nat /\ n \in Nat
    OBVIOUS
  <2> QED
    BY <2>1, ConcatProperties, Zenon
<1> HIDE DEF h
<1>2. ASSUME NEW i \in 1 .. Len(h)
      PROVE  \/ i \in 1 .. m /\ h[i] = f[i]
             \/ i - m \in 1 .. n /\ h[i] = g[i - m] /\ i > m
  BY <1>1
<1>3. \A i \in 1 .. m : i \in 1 .. Len(h) /\ h[i] = f[i]
  BY <1>1
<1>4. \A i \in 1 .. n : i + m \in 1 .. Len(h) /\ h[i + m] = g[i]
  BY <1>1
<1>5. Keys(h, t) \subseteq Keys(f, t) \cup Keys(g, t)
  BY <1>2, InKeys
<1>6. Keys(f, t) \subseteq Keys(h, t) /\ Keys(g, t) \subseteq Keys(h, t)
  <2>1. ASSUME NEW i \in 1 .. m, f[i].to = t
        PROVE  f[i].entry.key \in Keys(h, t)
    BY <1>3, <2>1, InKeys
  <2>2. ASSUME NEW i \in 1 .. n, g[i].to = t
        PROVE  g[i].entry.key \in Keys(h, t)
    BY <1>4, <2>2, InKeys
  <2> QED
    BY <2>1, <2>2, InKeys
<1>7. ASSUME Ordered(f, t), Ordered(g, t), Keys(f, t) = {} \/ Keys(g, t) = {}
      PROVE  Ordered(h, t)
  <2> SUFFICES ASSUME NEW i \in 1 .. Len(h), NEW j \in 1 .. Len(h), i < j,
                      h[i].to = t, h[j].to = t
               PROVE  h[i].entry.key[1] < h[j].entry.key[1]
    BY DEF Ordered
  <2>1. CASE Keys(f, t) = {}
    <3>1. \A k \in 1 .. m : f[k].to # t
      BY <2>1, InKeys
    <3>2. /\ i - m \in 1 .. n /\ h[i] = g[i - m]
          /\ j - m \in 1 .. n /\ h[j] = g[j - m] /\ i - m < j - m
      BY <1>1, <1>2, <3>1
    <3> QED
      BY <1>7, <3>2 DEF Ordered
  <2>2. CASE Keys(g, t) = {}
    <3>1. \A k \in 1 .. n : g[k].to # t
      BY <2>2, InKeys
    <3>2. i \in 1 .. m /\ h[i] = f[i] /\ j \in 1 .. m /\ h[j] = f[j]
      BY <1>2, <3>1
    <3> QED
      BY <1>7, <3>2 DEF Ordered
  <2> QED
    BY <1>7, <2>1, <2>2
<1> QED
  BY <1>5, <1>6, <1>7 DEF h

LEMMA NoRules ==
  ASSUME NEW t
  PROVE  Keys(<<>>, t) = {} /\ Ordered(<<>>, t)
BY DEF Keys, Ordered

(* A sequence without rules for a table is ordered for it.                 *)
LEMMA NoneOrdered ==
  ASSUME NEW q, NEW t, Keys(q, t) = {}
  PROVE  Ordered(q, t)
BY InKeys DEF Ordered

(* The last rule of q is the only one for table t.                         *)
OnlyLast(q, t) ==
  /\ q # <<>>
  /\ \A i \in 1 .. Len(q) : q[i].to = t <=> i = Len(q)

LEMMA LastOfConcat ==
  ASSUME NEW f \in Seq(GoodRules), NEW g \in Seq(GoodRules), NEW t,
         Keys(f, t) = {}, OnlyLast(g, t)
  PROVE  OnlyLast(f \o g, t) /\ (f \o g)[Len(f \o g)] = g[Len(g)]
<1> DEFINE h == f \o g
           m == Len(f)
           n == Len(g)
<1>1. /\ Len(h) = m + n /\ m \in Nat /\ n \in Nat \ {0} /\ h \in Seq(GoodRules)
      /\ \A i \in 1 .. m + n : h[i] = IF i <= m THEN f[i] ELSE g[i - m]
  <2>1. m \in Nat /\ n \in Nat \ {0}
    BY DEF OnlyLast
  <2> QED
    BY <2>1, ConcatProperties, Zenon
<1> HIDE DEF h
<1>2. \A i \in 1 .. m : f[i].to # t
  BY InKeys
<1>3. \A i \in 1 .. n : g[i].to = t <=> i = n
  BY DEF OnlyLast
<1>4. h # <<>> /\ h[Len(h)] = g[n]
  BY <1>1
<1>5. ASSUME NEW i \in 1 .. Len(h)
      PROVE  h[i].to = t <=> i = Len(h)
  <2>1. CASE i <= m
    BY <1>1, <1>2, <2>1
  <2>2. CASE i > m
    <3>1. i - m \in 1 .. n /\ h[i] = g[i - m] /\ (i - m = n <=> i = Len(h))
      BY <1>1, <2>2
    <3> QED
      BY <1>3, <3>1
  <2> QED
    BY <1>1, <2>1, <2>2
<1> QED
  BY <1>4, <1>5 DEF h, OnlyLast

LEMMA LastOfTail ==
  ASSUME NEW q \in Seq(GoodRules), NEW t, OnlyLast(q, t)
  PROVE  /\ Head(q).to = t => Tail(q) = <<>> /\ Head(q) = q[Len(q)]
         /\ Head(q).to # t => OnlyLast(Tail(q), t) /\ Tail(q)[Len(Tail(q))] = q[Len(q)]
<1> DEFINE r == Tail(q)
           n == Len(q)
<1>1. q # <<>>
  BY DEF OnlyLast
<1>2. Len(r) = n - 1 /\ n \in Nat \ {0} /\ Head(q) = q[1] /\ r \in Seq(GoodRules)
      /\ \A i \in 1 .. Len(r) : r[i] = q[i + 1]
  <2>1. Len(r) = n - 1 /\ r \in Seq(GoodRules) /\ \A i \in 1 .. Len(r) : r[i] = q[i + 1]
    BY <1>1, HeadTailProperties, Zenon
  <2> QED
    BY <1>1, <2>1
<1> HIDE DEF r
<1>3. \A i \in 1 .. n : q[i].to = t <=> i = n
  BY DEF OnlyLast
<1>4. ASSUME q[1].to = t PROVE r = <<>> /\ q[1] = q[n]
  <2>1. n = 1
    BY <1>2, <1>3, <1>4
  <2> QED
    BY <1>2, <2>1
<1>5. ASSUME q[1].to # t PROVE OnlyLast(r, t) /\ r[Len(r)] = q[n]
  <2>1. n # 1
    BY <1>2, <1>3, <1>5
  <2>2. r # <<>> /\ Len(r) \in 1 .. Len(r)
    BY <1>2, <2>1
  <2>3. r[Len(r)] = q[n]
    BY <1>2, <2>2
  <2>4. ASSUME NEW i \in 1 .. Len(r)
        PROVE  r[i].to = t <=> i = Len(r)
    <3>1. i + 1 \in 1 .. n /\ (i + 1 = n <=> i = Len(r)) /\ r[i] = q[i + 1]
      BY <1>2
    <3> QED
      BY <1>3, <3>1
  <2> QED
    BY <2>2, <2>3, <2>4 DEF OnlyLast
<1> QED
  BY <1>2, <1>4, <1>5 DEF r

-----------------------------------------------------------------------------
(* The rules add_entries starts with, part by part.                        *)

(* A part that has the initial seeds for the tables ts, and no other table *)
(* than those in rest besides.                                             *)
SeedsFor(q, ts, rest) ==
  /\ q \in Seq(GoodRules)
  /\ \A t \in ts : Keys(q, t) = Numbers(0, N0) /\ Ordered(q, t)
  /\ \A t : t \notin ts \cup rest => Keys(q, t) = {}

LEMMA RuleFields ==
  ASSUME NEW s, NEW p
  PROVE  /\ SeedRule(s).to = "seed" /\ SeedRule(s).entry.key = <<s>>
         /\ CreateRule(s, p).to = "create" /\ CreateRule(s, p).entry.key = <<s>>
         /\ FieldsRule(s, p).to = "fields" /\ FieldsRule(s, p).entry.key = <<s>>
         /\ ClonesRule(p).to = "clones" /\ ClonesRule(p).entry.key = <<p>>
BY DEF SeedRule, CreateRule, FieldsRule, ClonesRule, NewRule

LEMMA PathPart == SeedsFor(PathRules, {}, {"path"})
<1>1. \A i \in 1 .. 3 : PathRules[i].to = "path"
  BY DEF PathRules, NewRule
<1> QED
  BY <1>1, PathRulesGood, InKeys DEF SeedsFor

LEMMA SeedPart == SeedsFor([s \in 1 .. N0 |-> SeedRule(s - 1)], {"seed"}, {})
<1> DEFINE q == [s \in 1 .. N0 |-> SeedRule(s - 1)]
<1>1. N0 \in Nat
  BY SeedAssumption
<1>2. \A i \in 1 .. N0 : i - 1 \in Nat /\ SeedRule(i - 1) \in GoodRules
  <2>1. \E p : p \in Paths
    BY SeedAssumption
  <2> QED
    BY <1>1, <2>1, SeedRulesGood
<1>3. q \in Seq(GoodRules) /\ Len(q) = N0
  BY <1>1, <1>2
<1>4. \A i \in 1 .. N0 : q[i].to = "seed" /\ q[i].entry.key = <<i - 1>>
  BY RuleFields
<1> HIDE DEF q
<1>5. Keys(q, "seed") = Numbers(0, N0)
  <2>1. ASSUME NEW i \in 1 .. N0 PROVE q[i].entry.key \in Numbers(0, N0)
    <3>1. i - 1 \in 0 .. N0 - 1
      BY <1>1
    <3> QED
      BY <1>4, <3>1 DEF Numbers
  <2>2. ASSUME NEW m \in 0 .. N0 - 1 PROVE <<m>> \in Keys(q, "seed")
    <3>1. m + 1 \in 1 .. Len(q) /\ q[m + 1].to = "seed" /\ q[m + 1].entry.key = <<m + 1 - 1>>
      BY <1>1, <1>3, <1>4
    <3>2. m + 1 - 1 = m
      BY <1>1
    <3> QED
      BY <3>1, <3>2, InKeys
  <2> QED
    BY <1>3, <2>1, <2>2, InKeys DEF Numbers
<1>6. Ordered(q, "seed")
  <2> SUFFICES ASSUME NEW i \in 1 .. N0, NEW j \in 1 .. N0, i < j
               PROVE  q[i].entry.key[1] < q[j].entry.key[1]
    BY <1>3 DEF Ordered
  <2>1. q[i].entry.key = <<i - 1>> /\ q[j].entry.key = <<j - 1>>
    BY <1>4
  <2> QED
    BY <1>1, <2>1
<1>7. \A t : t # "seed" => Keys(q, t) = {}
  BY <1>3, <1>4, InKeys
<1> QED
  BY <1>3, <1>5, <1>6, <1>7 DEF SeedsFor, q

(* The rules of ti_create_packet and ti_add_fields alternate.              *)
LEMMA PacketPart == SeedsFor(PacketRules, {"create", "fields"}, {})
<1> DEFINE q == PacketRules
           num(i) == (i - 1) \div 2
<1>1. N0 \in Nat
  BY SeedAssumption
<1>2. Len(q) = 2 * N0
  BY <1>1 DEF PacketRules
<1>3. q \in Seq(GoodRules)
  <2>1. \A k \in 1 .. 2 * N0 : (k - 1) \div 2 \in 0 .. N0 - 1
    BY <1>1
  <2>2. \A s \in 0 .. N0 - 1 : /\ CreateRule(s, InitPath[s]) \in GoodRules
                               /\ FieldsRule(s, InitPath[s]) \in GoodRules
    BY <1>1, SeedRulesGood, SeedAssumption
  <2> QED
    BY <1>1, <2>1, <2>2 DEF PacketRules
<1>4. \A i \in 1 .. 2 * N0 : /\ q[i].to = IF i % 2 = 1 THEN "create" ELSE "fields"
                             /\ q[i].entry.key = <<num(i)>>
  BY RuleFields DEF PacketRules
<1>5. \A i \in 1 .. 2 * N0 : num(i) \in 0 .. N0 - 1
  BY <1>1
<1>6. \A i, j \in 1 .. 2 * N0 : i < j /\ i % 2 = j % 2 => num(i) < num(j)
  BY <1>1
<1>7. \A m \in 0 .. N0 - 1 : /\ 2 * m + 1 \in 1 .. 2 * N0 /\ 2 * m + 2 \in 1 .. 2 * N0
                             /\ num(2 * m + 1) = m /\ num(2 * m + 2) = m
                             /\ (2 * m + 1) % 2 = 1 /\ (2 * m + 2) % 2 = 0
  BY <1>1
<1> HIDE DEF q, num
<1>8. ASSUME NEW t \in {"create", "fields"}
      PROVE  Keys(q, t) = Numbers(0, N0) /\ Ordered(q, t)
  <2>1. Keys(q, t) \subseteq Numbers(0, N0)
    <3>1. \A i \in 1 .. 2 * N0 : q[i].entry.key \in Numbers(0, N0)
      BY <1>4, <1>5 DEF Numbers
    <3> QED
      BY <1>2, <3>1, InKeys
  <2>2. ASSUME NEW m \in 0 .. N0 - 1 PROVE <<m>> \in Keys(q, t)
    <3>1. CASE t = "create"
      <4>1. /\ 2 * m + 1 \in 1 .. 2 * N0 /\ q[2 * m + 1].to = "create"
            /\ q[2 * m + 1].entry.key = <<m>>
        BY <1>4, <1>7
      <4> QED
        BY <1>2, <3>1, <4>1, InKeys
    <3>2. CASE t = "fields"
      <4>1. /\ 2 * m + 2 \in 1 .. 2 * N0 /\ q[2 * m + 2].to = "fields"
            /\ q[2 * m + 2].entry.key = <<m>>
        <5>1. (2 * m + 2) % 2 # 1
          BY <1>7
        <5> QED
          BY <1>4, <1>7, <5>1
      <4> QED
        BY <1>2, <3>2, <4>1, InKeys
    <3> QED
      BY <3>1, <3>2
  <2>3. Ordered(q, t)
    <3> SUFFICES ASSUME NEW i \in 1 .. 2 * N0, NEW j \in 1 .. 2 * N0, i < j,
                        q[i].to = t, q[j].to = t
                 PROVE  q[i].entry.key[1] < q[j].entry.key[1]
      BY <1>2 DEF Ordered
    <3>1. i % 2 = j % 2
      <4>1. i % 2 \in {0, 1} /\ j % 2 \in {0, 1}
        BY <1>1
      <4> QED
        BY <1>4, <4>1
    <3>2. num(i) < num(j)
      BY <1>6, <3>1
    <3> QED
      BY <1>4, <3>2
  <2> QED
    BY <2>1, <2>2, <2>3 DEF Numbers
<1>9. \A t : t \notin {"create", "fields"} => Keys(q, t) = {}
  BY <1>2, <1>4, InKeys
<1> QED
  BY <1>3, <1>8, <1>9 DEF SeedsFor, q

LEMMA ClonesPart ==
  LET q == [s \in 1 .. N0 |-> ClonesRule(InitPath[s - 1])]
  IN  /\ SeedsFor(q, {}, {"clones"})
      /\ \A p \in KnownPaths : <<p>> \in Keys(q, "clones")
<1> DEFINE q == [s \in 1 .. N0 |-> ClonesRule(InitPath[s - 1])]
<1>1. N0 \in Nat /\ \A i \in 1 .. N0 : InitPath[i - 1] \in Paths
  BY SeedAssumption
<1>2. q \in Seq(GoodRules) /\ Len(q) = N0
  <2>1. \A i \in 1 .. N0 : ClonesRule(InitPath[i - 1]) \in GoodRules
    BY <1>1, SeedRulesGood, 0 \in Nat
  <2> QED
    BY <1>1, <2>1
<1>3. \A i \in 1 .. N0 : q[i].to = "clones" /\ q[i].entry.key = <<InitPath[i - 1]>>
  BY RuleFields
<1> HIDE DEF q
<1>4. ASSUME NEW p \in KnownPaths PROVE <<p>> \in Keys(q, "clones")
  <2>1. PICK s \in 0 .. N0 - 1 : p = InitPath[s]
    BY SeedAssumption
  <2>2. s + 1 \in 1 .. Len(q) /\ (s + 1) - 1 = s
    BY <1>1, <1>2
  <2>3. q[s + 1].to = "clones" /\ q[s + 1].entry.key = <<p>>
    BY <1>2, <1>3, <2>1, <2>2
  <2> QED
    BY <2>2, <2>3, InKeys
<1>5. \A t : t # "clones" => Keys(q, t) = {}
  BY <1>2, <1>3, InKeys
<1> QED
  BY <1>2, <1>4, <1>5 DEF SeedsFor, q

(* One rule of te_set_table_seed per seed, with or without learnt values.  *)
LEMMA MutationPart == SeedsFor(InitialMutations, {"mutate"}, {"fixval"})
<1> DEFINE q == InitialMutations
           m == Len(MutationRules(0, InitFields))
<1>1. N0 \in Nat /\ InitFields \in SUBSET RuleIds
  BY SeedAssumption, CapacityAssumption
<1>2. m = IF InitFields = {} THEN 1 ELSE 2
  BY <1>1, MutationRulesGood, 0 \in Nat
<1>3. q \in Seq(GoodRules)
  BY InitialMutationsGood
<1>4. Len(q) = m * N0 /\ \A i \in 1 .. m * N0 :
         q[i] = MutationRules((i - 1) \div m, InitFields)[((i - 1) % m) + 1]
  <2>1. m * N0 \in Nat
    BY <1>1, <1>2
  <2> QED
    BY <2>1 DEF InitialMutations
<1>5. \A s : /\ MutationRules(s, InitFields)[1].to = "mutate"
             /\ MutationRules(s, InitFields)[1].entry.key = <<s>>
             /\ m = 2 => MutationRules(s, InitFields)[2].to = "fixval"
  BY <1>2 DEF MutationRules, NewRule
<1> HIDE DEF q, m
<1>6. \A i \in 1 .. m * N0 : i % m = 1 % m =>
         /\ (i - 1) \div m \in 0 .. N0 - 1 /\ (i - 1) % m = 0
         /\ q[i].to = "mutate" /\ q[i].entry.key = <<(i - 1) \div m>>
  <2>1. \A i \in 1 .. m * N0 : i % m = 1 % m =>
           (i - 1) \div m \in 0 .. N0 - 1 /\ (i - 1) % m = 0
    <3>1. CASE m = 1
      BY <1>1, <3>1
    <3>2. CASE m = 2
      BY <1>1, <3>2
    <3> QED
      BY <1>2, <3>1, <3>2
  <2>2. 0 + 1 = 1
    OBVIOUS
  <2> QED
    BY <1>4, <1>5, <2>1, <2>2
<1>7. \A i \in 1 .. m * N0 : i % m # 1 % m => q[i].to = "fixval"
  <2>1. CASE m = 1
    BY <1>1, <2>1
  <2>2. CASE m = 2
    <3>1. \A i \in 1 .. 2 * N0 : i % 2 # 1 % 2 => ((i - 1) % 2) + 1 = 2
      BY <1>1
    <3> QED
      BY <1>4, <1>5, <2>2, <3>1
  <2> QED
    BY <1>2, <2>1, <2>2
<1>8. Keys(q, "mutate") = Numbers(0, N0)
  <2>1. \A i \in 1 .. m * N0 : q[i].to = "mutate" => q[i].entry.key \in Numbers(0, N0)
    BY <1>6, <1>7 DEF Numbers
  <2>2. ASSUME NEW s \in 0 .. N0 - 1 PROVE <<s>> \in Keys(q, "mutate")
    <3> DEFINE i == m * s + 1
    <3>1. i \in 1 .. m * N0 /\ i % m = 1 % m /\ (i - 1) \div m = s
      <4>1. CASE m = 1
        BY <1>1, <4>1
      <4>2. CASE m = 2
        BY <1>1, <4>2
      <4> QED
        BY <1>2, <4>1, <4>2
    <3> HIDE DEF i
    <3>2. q[i].to = "mutate" /\ q[i].entry.key = <<s>>
      BY <1>6, <3>1
    <3> QED
      BY <1>4, <3>1, <3>2, InKeys
  <2>3. Keys(q, "mutate") \subseteq Numbers(0, N0)
    BY <1>4, <2>1, InKeys
  <2> QED
    BY <2>2, <2>3 DEF Numbers
<1>9. Ordered(q, "mutate")
  <2> SUFFICES ASSUME NEW i \in 1 .. m * N0, NEW j \in 1 .. m * N0, i < j,
                      q[i].to = "mutate", q[j].to = "mutate"
               PROVE  q[i].entry.key[1] < q[j].entry.key[1]
    BY <1>4 DEF Ordered
  <2>1. i % m = 1 % m /\ j % m = 1 % m
    BY <1>7
  <2>2. (i - 1) \div m < (j - 1) \div m
    <3>1. CASE m = 1
      BY <1>1, <2>1, <3>1
    <3>2. CASE m = 2
      BY <1>1, <2>1, <3>2
    <3> QED
      BY <1>2, <3>1, <3>2
  <2>3. q[i].entry.key = <<(i - 1) \div m>> /\ q[j].entry.key = <<(j - 1) \div m>>
    BY <1>6, <2>1
  <2> QED
    BY <2>2, <2>3
<1>10. \A t : t \notin {"mutate", "fixval"} => Keys(q, t) = {}
  BY <1>4, <1>6, <1>7, InKeys
<1> QED
  BY <1>3, <1>8, <1>9, <1>10 DEF SeedsFor, q

ResubmitRule == NewRule("do_resubmit", <<1>>, NoPath, {})

LEMMA LastPart ==
  /\ SeedsFor(<<ResubmitRule>>, {}, {"do_resubmit"})
  /\ OnlyLast(<<ResubmitRule>>, "do_resubmit")
<1>1. ResubmitRule \in GoodRules /\ ResubmitRule.to = "do_resubmit"
  <2>1. NewRule("do_resubmit", <<1>>, NoPath, {}) \in GoodRules
    BY SingletonKeys, NewRuleGood DEF TableNames
  <2> QED
    BY <2>1 DEF ResubmitRule, NewRule
<1> DEFINE q == <<ResubmitRule>>
<1>2. q \in Seq(GoodRules) /\ Len(q) = 1 /\ q[1] = ResubmitRule /\ q # <<>>
  BY <1>1
<1> HIDE DEF q
<1>3. \A i \in 1 .. Len(q) : i = 1
  BY <1>2
<1> QED
  BY <1>1, <1>2, <1>3, InKeys DEF q, SeedsFor, OnlyLast

(* Two parts without a common table make one part.                         *)
LEMMA JoinParts ==
  ASSUME NEW f, NEW g, NEW tf, NEW tg, NEW rf, NEW rg,
         SeedsFor(f, tf, rf), SeedsFor(g, tg, rg),
         (tf \cup rf) \cap (tg \cup rg) = {}
  PROVE  SeedsFor(f \o g, tf \cup tg, rf \cup rg)
<1>1. f \in Seq(GoodRules) /\ g \in Seq(GoodRules)
  BY DEF SeedsFor
<1>2. f \o g \in Seq(GoodRules)
  BY <1>1
<1>3. ASSUME NEW t \in tf
      PROVE  Keys(f \o g, t) = Numbers(0, N0) /\ Ordered(f \o g, t)
  <2>1. Keys(f, t) = Numbers(0, N0) /\ Ordered(f, t) /\ Keys(g, t) = {}
    BY DEF SeedsFor
  <2>2. Ordered(g, t)
    BY <2>1, NoneOrdered
  <2>3. Keys(f \o g, t) = Keys(f, t) \cup Keys(g, t)
    BY <1>1, KeysOfConcat
  <2>4. Ordered(f \o g, t)
    BY <1>1, <2>1, <2>2, KeysOfConcat
  <2> QED
    BY <2>1, <2>3, <2>4
<1>4. ASSUME NEW t \in tg
      PROVE  Keys(f \o g, t) = Numbers(0, N0) /\ Ordered(f \o g, t)
  <2>1. Keys(g, t) = Numbers(0, N0) /\ Ordered(g, t) /\ Keys(f, t) = {}
    BY DEF SeedsFor
  <2>2. Ordered(f, t)
    BY <2>1, NoneOrdered
  <2>3. Keys(f \o g, t) = Keys(f, t) \cup Keys(g, t)
    BY <1>1, KeysOfConcat
  <2>4. Ordered(f \o g, t)
    BY <1>1, <2>1, <2>2, KeysOfConcat
  <2> QED
    BY <2>1, <2>3, <2>4
<1>5. ASSUME NEW t, t \notin (tf \cup tg) \cup (rf \cup rg)
      PROVE  Keys(f \o g, t) = {}
  <2>1. Keys(g, t) = {} /\ Keys(f, t) = {}
    BY <1>5 DEF SeedsFor
  <2> QED
    BY <1>1, <2>1, KeysOfConcat
<1> QED
  BY <1>2, <1>3, <1>4, <1>5 DEF SeedsFor

LEMMA ClonesKept ==
  ASSUME NEW f \in Seq(GoodRules), NEW g \in Seq(GoodRules),
         \A p \in KnownPaths : <<p>> \in Keys(f, "clones") \cup Keys(g, "clones")
  PROVE  \A p \in KnownPaths : <<p>> \in Keys(f \o g, "clones")
<1>1. Keys(f \o g, "clones") = Keys(f, "clones") \cup Keys(g, "clones")
  BY KeysOfConcat
<1> QED
  BY <1>1

(* The rules of the first seeds, in the tables' order; last of all, and    *)
(* only there, the rule of te_do_resubmit.                                 *)
LEMMA InitialKeys ==
  /\ \A t \in Numbered : Keys(InitialRules, t) = Numbers(0, N0) /\ Ordered(InitialRules, t)
  /\ \A p \in KnownPaths : <<p>> \in Keys(InitialRules, "clones")
  /\ OnlyLast(InitialRules, "do_resubmit")
  /\ InitialRules[Len(InitialRules)] = ResubmitRule
<1> DEFINE b == [s \in 1 .. N0 |-> SeedRule(s - 1)]
           d == [s \in 1 .. N0 |-> ClonesRule(InitPath[s - 1])]
           bc == b \o PacketRules
           bcd == bc \o d
           body == bcd \o InitialMutations
           rest == body \o <<ResubmitRule>>
<1>1. InitialRules = PathRules \o rest
  BY DEF InitialRules, RulesAfterPaths, ResubmitRule
<1>2. SeedsFor(bc, {"seed"} \cup {"create", "fields"}, {} \cup {})
  BY SeedPart, PacketPart, JoinParts
<1>3. SeedsFor(d, {}, {"clones"}) /\ \A p \in KnownPaths : <<p>> \in Keys(d, "clones")
  BY ClonesPart
<1> HIDE DEF b, d, bc
<1>4. SeedsFor(bcd, {"seed"} \cup {"create", "fields"} \cup {}, {} \cup {} \cup {"clones"})
  BY <1>2, <1>3, JoinParts
<1>5. \A p \in KnownPaths : <<p>> \in Keys(bcd, "clones")
  <2>1. bc \in Seq(GoodRules) /\ d \in Seq(GoodRules)
    BY <1>2, <1>3 DEF SeedsFor
  <2> QED
    BY <1>3, <2>1, ClonesKept
<1> HIDE DEF bcd
<1>6. SeedsFor(body, {"seed"} \cup {"create", "fields"} \cup {} \cup {"mutate"},
                     {} \cup {} \cup {"clones"} \cup {"fixval"})
  BY <1>4, MutationPart, JoinParts
<1>7. \A p \in KnownPaths : <<p>> \in Keys(body, "clones")
  <2>1. bcd \in Seq(GoodRules) /\ InitialMutations \in Seq(GoodRules)
    BY <1>4, MutationPart DEF SeedsFor
  <2> QED
    BY <1>5, <2>1, ClonesKept
<1> HIDE DEF body
<1>8. SeedsFor(body, Numbered, {"clones", "fixval"})
  <2>1. {"seed"} \cup {"create", "fields"} \cup {} \cup {"mutate"} = Numbered
    BY DEF Numbered
  <2>2. {} \cup {} \cup {"clones"} \cup {"fixval"} = {"clones", "fixval"}
    OBVIOUS
  <2> QED
    BY <1>6, <2>1, <2>2
<1>9. SeedsFor(rest, Numbered \cup {}, {"clones", "fixval"} \cup {"do_resubmit"})
  BY <1>8, LastPart, JoinParts DEF Numbered
<1>10. \A p \in KnownPaths : <<p>> \in Keys(rest, "clones")
  <2>1. body \in Seq(GoodRules) /\ <<ResubmitRule>> \in Seq(GoodRules)
    BY <1>8, LastPart DEF SeedsFor
  <2> QED
    BY <1>7, <2>1, ClonesKept
<1>11. OnlyLast(rest, "do_resubmit") /\ rest[Len(rest)] = ResubmitRule
  <2>1. Keys(body, "do_resubmit") = {}
    BY <1>8 DEF SeedsFor, Numbered
  <2>2. /\ OnlyLast(rest, "do_resubmit")
        /\ rest[Len(rest)] = <<ResubmitRule>>[Len(<<ResubmitRule>>)]
    BY <1>8, <2>1, LastPart, LastOfConcat DEF SeedsFor
  <2> QED
    BY <2>2
<1> HIDE DEF rest
<1>12. SeedsFor(PathRules \o rest, {} \cup (Numbered \cup {}),
                {"path"} \cup ({"clones", "fixval"} \cup {"do_resubmit"}))
  BY <1>9, PathPart, JoinParts DEF Numbered
<1>13. \A p \in KnownPaths : <<p>> \in Keys(PathRules \o rest, "clones")
  <2>1. PathRules \in Seq(GoodRules) /\ rest \in Seq(GoodRules)
    BY <1>9, PathPart DEF SeedsFor
  <2> QED
    BY <1>10, <2>1, ClonesKept
<1>14. /\ OnlyLast(PathRules \o rest, "do_resubmit")
       /\ (PathRules \o rest)[Len(PathRules \o rest)] = ResubmitRule
  <2>1. Keys(PathRules, "do_resubmit") = {}
    BY PathPart DEF SeedsFor
  <2> QED
    BY <1>9, <1>11, <2>1, PathPart, LastOfConcat DEF SeedsFor
<1> QED
  BY <1>1, <1>12, <1>13, <1>14 DEF SeedsFor

(* The rules of a new seed: one per numbered table, that of ti_set_seed_num *)
(* last.                                                                   *)
LEMMA SeedKeys ==
  ASSUME NEW s \in Nat, NEW p \in Paths, NEW v \in SUBSET RuleIds
  PROVE  LET q == RulesOfSeed(s, p, v)
         IN  /\ q \in Seq(GoodRules)
             /\ \A t \in Numbered : Keys(q, t) = {<<s>>} /\ Ordered(q, t)
             /\ Keys(q, "clones") = {}
             /\ OnlyLast(q, "seed") /\ q[Len(q)].entry.key = <<s>>
<1> DEFINE q == RulesOfSeed(s, p, v)
           n == IF v = {} THEN 4 ELSE 5
<1>1. q \in Seq(GoodRules)
  BY RulesOfSeedGood
<1>2. /\ Len(q) = n
      /\ q[1] = CreateRule(s, p) /\ q[2] = FieldsRule(s, p)
      /\ q[3] = NewRule("mutate", <<s>>, NoPath, {})
      /\ v # {} => q[4] = NewRule("fixval", <<s>>, NoPath, v)
      /\ q[n] = SeedRule(s)
  <2> DEFINE a == CreateRule(s, p)
             b == FieldsRule(s, p)
             c == NewRule("mutate", <<s>>, NoPath, {})
             d == NewRule("fixval", <<s>>, NoPath, v)
             e == SeedRule(s)
  <2>1. q = <<a, b>> \o (IF v = {} THEN <<c>> ELSE <<c, d>>) \o <<e>>
    BY DEF RulesOfSeed, MutationRules
  <2> HIDE DEF a, b, c, d, e, q
  <2>2. CASE v = {}
    <3>1. q = <<a, b>> \o <<c>> \o <<e>>
      BY <2>1, <2>2
    <3>2. Len(q) = 4 /\ q[1] = a /\ q[2] = b /\ q[3] = c /\ q[4] = e
      BY <3>1
    <3> QED
      BY <2>2, <3>2 DEF a, b, c, e
  <2>3. CASE v # {}
    <3>1. q = <<a, b>> \o <<c, d>> \o <<e>>
      BY <2>1, <2>3
    <3>2. Len(q) = 5 /\ q[1] = a /\ q[2] = b /\ q[3] = c /\ q[4] = d /\ q[5] = e
      BY <3>1
    <3> QED
      BY <2>3, <3>2 DEF a, b, c, d, e
  <2> QED
    BY <2>2, <2>3
<1>3. /\ q[1].to = "create" /\ q[1].entry.key = <<s>>
      /\ q[2].to = "fields" /\ q[2].entry.key = <<s>>
      /\ q[3].to = "mutate" /\ q[3].entry.key = <<s>>
      /\ v # {} => q[4].to = "fixval"
      /\ q[n].to = "seed" /\ q[n].entry.key = <<s>>
  BY <1>2, RuleFields DEF NewRule
<1>4. \A i \in 1 .. n : i \in {1, 2, 3, n} \/ (v # {} /\ i = 4)
  OBVIOUS
<1>5. 1 \in 1 .. n /\ 2 \in 1 .. n /\ 3 \in 1 .. n /\ n \in 1 .. n /\ n \notin {1, 2, 3}
  OBVIOUS
<1> HIDE DEF q, n
<1>6. ASSUME NEW t \in Numbered
      PROVE  \E k \in 1 .. n : \A i \in 1 .. n : /\ q[i].to = t <=> i = k
                                                 /\ q[k].entry.key = <<s>>
  <2>1. CASE t = "create"
    <3>1. \A i \in 1 .. n : (q[i].to = t <=> i = 1) /\ q[1].entry.key = <<s>>
      BY <1>3, <1>4, <1>5, <2>1
    <3> QED
      BY <1>5, <3>1
  <2>2. CASE t = "fields"
    <3>1. \A i \in 1 .. n : (q[i].to = t <=> i = 2) /\ q[2].entry.key = <<s>>
      BY <1>3, <1>4, <1>5, <2>2
    <3> QED
      BY <1>5, <3>1
  <2>3. CASE t = "mutate"
    <3>1. \A i \in 1 .. n : (q[i].to = t <=> i = 3) /\ q[3].entry.key = <<s>>
      BY <1>3, <1>4, <1>5, <2>3
    <3> QED
      BY <1>5, <3>1
  <2>4. CASE t = "seed"
    <3>1. \A i \in 1 .. n : (q[i].to = t <=> i = n) /\ q[n].entry.key = <<s>>
      BY <1>3, <1>4, <1>5, <2>4
    <3> QED
      BY <1>5, <3>1
  <2> QED
    BY <2>1, <2>2, <2>3, <2>4 DEF Numbered
<1>7. ASSUME NEW t \in Numbered PROVE Keys(q, t) = {<<s>>}
  <2>1. PICK k \in 1 .. n : \A i \in 1 .. n : /\ q[i].to = t <=> i = k
                                              /\ q[k].entry.key = <<s>>
    BY <1>6
  <2>2. <<s>> \in Keys(q, t)
    BY <1>2, <2>1, InKeys
  <2>3. \A x \in Keys(q, t) : x = <<s>>
    BY <1>2, <2>1, InKeys
  <2> QED
    BY <2>2, <2>3
<1>8. ASSUME NEW t \in Numbered PROVE Ordered(q, t)
  <2>1. PICK k \in 1 .. n : \A i \in 1 .. n : q[i].to = t <=> i = k
    BY <1>6
  <2>2. \A i, j \in 1 .. n : ~(i < j /\ i = k /\ j = k)
    BY DEF n
  <2> QED
    BY <1>2, <2>1, <2>2 DEF Ordered, n
<1>9. Keys(q, "clones") = {}
  BY <1>2, <1>3, <1>4, InKeys DEF n
<1>10. OnlyLast(q, "seed") /\ q[Len(q)].entry.key = <<s>>
  <2>1. \A i \in 1 .. n : q[i].to = "seed" <=> i = n
    BY <1>3, <1>4, <1>5
  <2>2. q # <<>> /\ Len(q) = n
    BY <1>1, <1>2 DEF n
  <2> QED
    BY <1>3, <2>1, <2>2 DEF OnlyLast
<1> QED
  BY <1>1, <1>7, <1>8, <1>9, <1>10 DEF q

-----------------------------------------------------------------------------
(* What the numbered tables hold and what is still to come.                *)

Stored(t) == Cardinality(table[t])

NumberedTable(t) ==
  /\ IsFiniteSet(table[t])
  /\ Stored(t) =< Capacity(t) /\ Stored(t) =< numSeeds
  /\ {e.key : e \in table[t]} = Numbers(0, Stored(t))
  /\ Keys(todo, t) \subseteq Numbers(Stored(t), numSeeds)
  /\ Stored(t) < Capacity(t) => Numbers(Stored(t), numSeeds) \subseteq Keys(todo, t)
  /\ Ordered(todo, t)

NumberedInv == \A t \in Numbered : NumberedTable(t)

(* The two lists add_entries is ever given: the initial rules, which end   *)
(* with that of te_do_resubmit, and those of one new seed.                 *)
PhaseInv ==
  /\ numSeeds >= N0
  /\ ~Booted => /\ numSeeds = N0 /\ table["do_resubmit"] = {}
                /\ OnlyLast(todo, "do_resubmit")
                /\ todo[Len(todo)] = ResubmitRule
  /\ Booted /\ todo # <<>> =>
       /\ numSeeds > N0
       /\ OnlyLast(todo, "seed") /\ todo[Len(todo)].entry.key = <<numSeeds - 1>>
       /\ Keys(todo, "clones") = {}
       /\ \A t \in Numbered : Keys(todo, t) \subseteq {<<numSeeds - 1>>}

(* ti_add_clones knows each path some seed may have, unless it is full.    *)
ClonesInv ==
  /\ IsFiniteSet(table["clones"]) /\ Stored("clones") =< CloneCapacity
  /\ Stored("clones") < CloneCapacity =>
       \A p \in KnownPaths : Hit("clones", <<p>>) \/ <<p>> \in Keys(todo, "clones")

LEMMA NumberedRoom ==
  /\ \A t \in Numbered : t \in TableNames /\ Capacity(t) \in Nat
  /\ Capacity("seed") = SeedCapacity /\ Capacity("create") = SeedCapacity
  /\ Capacity("fields") = SeedCapacity /\ Capacity("mutate") = MutateCapacity
  /\ Capacity("clones") = CloneCapacity /\ Capacity("do_resubmit") = 256
BY CapacityAssumption DEF Numbered, TableNames, Capacity

LEMMA TablesInit == Init => NumberedInv /\ PhaseInv /\ ClonesInv
<1> SUFFICES ASSUME Init PROVE NumberedInv /\ PhaseInv /\ ClonesInv
  OBVIOUS
<1>1. /\ \A t \in TableNames : table[t] = {}
      /\ todo = InitialRules /\ numSeeds = N0 /\ N0 \in Nat
  BY SeedAssumption DEF Init
<1>2. \A t \in TableNames : IsFiniteSet(table[t]) /\ Stored(t) = 0
  BY <1>1, FS_EmptySet DEF Stored
<1>3. Numbers(0, 0) = {}
  <2>1. 0 .. 0 - 1 = {}
    OBVIOUS
  <2> QED
    BY <2>1 DEF Numbers
<1>4. NumberedInv
  <2> SUFFICES ASSUME NEW t \in Numbered PROVE NumberedTable(t)
    BY DEF NumberedInv
  <2>1. t \in TableNames /\ Capacity(t) \in Nat
    BY NumberedRoom
  <2>2. Keys(todo, t) = Numbers(0, N0) /\ Ordered(todo, t)
    BY <1>1, InitialKeys
  <2>3. {e.key : e \in table[t]} = {}
    BY <1>1, <2>1
  <2> QED
    BY <1>1, <1>2, <1>3, <2>1, <2>2, <2>3 DEF NumberedTable
<1>5. ~Booted /\ table["do_resubmit"] = {}
  BY <1>1 DEF Booted, Hit, TableNames
<1>6. PhaseInv
  BY <1>1, <1>5, InitialKeys DEF PhaseInv
<1>7. ClonesInv
  BY <1>1, <1>2, InitialKeys, CapacityAssumption DEF ClonesInv, TableNames
<1> QED
  BY <1>4, <1>6, <1>7

-----------------------------------------------------------------------------
(* The three things a step may do to the rules and tables.                 *)

SeedAdded ==
  /\ todo = <<>> /\ UNCHANGED table
  /\ numSeeds' = numSeeds + 1
  /\ \E q \in KnownPaths, v \in SUBSET RuleIds : todo' = RulesOfSeed(numSeeds, q, v)

LEMMA CoverageSteps ==
  ASSUME NEW a, NEW q, NEW ty, NEW v, NEW nxt, CheckCoverage(a, q, ty, v, nxt)
  PROVE  /\ seen' = seen \cup a
         /\ \/ UNCHANGED <<todo, numSeeds>> /\ pc' \in {nxt, "stopped", "crashed"}
            \/ /\ q \in KnownPaths /\ a # {} /\ pc' = nxt
               /\ numSeeds' = numSeeds + 1 /\ todo' = RulesOfSeed(numSeeds, q, v)
BY DEF CheckCoverage, YieldsNothing

LEMMA RuleSteps ==
  ASSUME TypeInv, [Next]_vars
  PROVE  InstallRule \/ SeedAdded \/ UNCHANGED <<table, todo, numSeeds>>
<1>1. learnt \in SUBSET RuleIds /\ cpuq \in Seq(Report) /\ sutq \in Seq(Datagram)
  BY DEF TypeInv, TypeOK
<1>2. CASE HandleReport
  <2>1. todo = <<>> /\ UNCHANGED table
    BY <1>2 DEF HandleReport
  <2>2. \/ UNCHANGED <<todo, feedback>>
        \/ \E q : CheckCoverage(Head(cpuq).acts, q, Head(cpuq).type, learnt, "sut")
    BY <1>2, ReportCases
  <2>3. \/ UNCHANGED <<todo, numSeeds>>
        \/ \E q \in KnownPaths : /\ numSeeds' = numSeeds + 1
                                 /\ todo' = RulesOfSeed(numSeeds, q, learnt)
    BY <2>2, CoverageSteps DEF feedback
  <2> QED
    BY <1>1, <2>1, <2>3 DEF SeedAdded
<1>3. CASE HandleDatagram
  <2>1. todo = <<>> /\ UNCHANGED table /\ sutq # <<>>
    BY <1>3 DEF HandleDatagram
  <2>2. Head(sutq).rules \in SUBSET RuleIds
    <3>1. Head(sutq) \in Datagram
      BY <1>1, <2>1
    <3> QED
      BY <3>1 DEF Datagram
  <2>3. \/ UNCHANGED <<todo, numSeeds>>
        \/ /\ learnt' = learnt \cup Head(sutq).rules
           /\ \E q \in KnownPaths : /\ numSeeds' = numSeeds + 1
                                    /\ todo' = RulesOfSeed(numSeeds, q, learnt')
    BY <1>3, DatagramCases, CoverageSteps DEF feedback
  <2>4. learnt \cup Head(sutq).rules \in SUBSET RuleIds
    BY <1>1, <2>2
  <2> QED
    BY <2>1, <2>3, <2>4 DEF SeedAdded
<1>4. CASE ~HandleReport /\ ~HandleDatagram /\ ~InstallRule
  BY <1>4 DEF Next, vars, PacketStep, PktGenInject, IngressReport, IngressGenerate,
     IngressDrop, EgressSend, EgressResubmit, SutProcess, LinkLoss, DatagramLoss,
     ControllerStep, ReportTimeout, NoDatagram, CheckExit, Tick, controller, feedback
<1> QED
  BY <1>2, <1>3, <1>4

-----------------------------------------------------------------------------
(* The numbered tables.                                                    *)

(* The table the rule is not for.                                          *)
LEMMA InstallElsewhere ==
  ASSUME TypeInv, InstallRule, NEW t \in TableNames, Head(todo).to # t
  PROVE  /\ table'[t] = table[t]
         /\ Keys(todo', t) = Keys(todo, t)
         /\ Ordered(todo, t) => Ordered(todo', t)
<1>1. todo \in Seq(GoodRules) /\ todo # <<>> /\ todo' = Tail(todo)
  BY DEF InstallRule, TypeInv
<1>2. /\ Keys(todo', t) = Keys(todo, t)
      /\ Ordered(todo, t) => Ordered(todo', t)
  BY <1>1, KeysOfTail
<1>3. table \in [TableNames -> SUBSET Entry]
  BY DEF TypeInv, TypeOK
<1>4. \/ table' = table
      \/ table' = [table EXCEPT ![Head(todo).to] = @ \cup {Head(todo).entry}]
  BY DEF InstallRule
<1> QED
  BY <1>2, <1>3, <1>4

(* The table it is for: what the driver makes of it.                       *)
LEMMA InstallHere ==
  ASSUME TypeInv, InstallRule, NEW t \in TableNames, Head(todo).to = t
  PROVE  LET e == Head(todo).entry
         IN  IF ~Hit(t, e.key) /\ Cardinality(table[t]) < Capacity(t)
             THEN table'[t] = table[t] \cup {e}
             ELSE table' = table
<1>1. table \in [TableNames -> SUBSET Entry]
  BY DEF TypeInv, TypeOK
<1> QED
  BY <1>1 DEF InstallRule

(* A rule that is accepted has the number of the next seed.                *)
LEMMA InstallInOrder ==
  ASSUME TypeInv, NEW t \in Numbered, NumberedTable(t), InstallRule, Head(todo).to = t
  PROVE  LET e == Head(todo).entry
             n == Stored(t)
         IN  IF n < Capacity(t)
             THEN /\ n < numSeeds /\ e.key = <<n>> /\ e \notin table[t]
                  /\ table'[t] = table[t] \cup {e} /\ Stored(t)' = n + 1
             ELSE table' = table
<1> DEFINE e == Head(todo).entry
           n == Stored(t)
<1>1. /\ todo \in Seq(GoodRules) /\ todo # <<>> /\ todo' = Tail(todo)
      /\ numSeeds \in Nat
  BY DEF InstallRule, TypeInv, TypeOK
<1>2. t \in TableNames /\ Capacity(t) \in Nat
  BY NumberedRoom
<1>3. IsFiniteSet(table[t]) /\ n \in Nat
  BY FS_CardinalityType DEF NumberedTable, Stored
<1>4. /\ e.key \in Keys(todo, t)
      /\ Keys(todo, t) \subseteq Keys(todo', t) \cup {e.key}
      /\ \A k \in Keys(todo', t) : e.key[1] < k[1]
  BY <1>1, KeysOfTail DEF NumberedTable
<1>5. PICK m \in n .. numSeeds - 1 : e.key = <<m>>
  <2>1. e.key \in Numbers(n, numSeeds)
    BY <1>4 DEF NumberedTable
  <2> QED
    BY <2>1 DEF Numbers
<1>6. ~Hit(t, e.key)
  <2>1. \A f \in table[t] : f.key \in Numbers(0, n)
    BY DEF NumberedTable
  <2>2. <<m>> \notin Numbers(0, n)
    BY <1>3, InNumbers
  <2> QED
    BY <1>5, <2>1, <2>2 DEF Hit
<1>7. CASE n < Capacity(t)
  <2>1. table'[t] = table[t] \cup {e}
    BY <1>2, <1>6, <1>7, InstallHere DEF Stored
  <2>2. e \notin table[t]
    BY <1>6 DEF Hit
  <2>3. Stored(t)' = n + 1
    BY <1>3, <2>1, <2>2, FS_AddElement DEF Stored
  <2>4. m = n
    <3>1. n \in n .. numSeeds - 1
      BY <1>1, <1>3
    <3>2. <<n>> \in Numbers(n, numSeeds)
      BY <3>1 DEF Numbers
    <3>3. <<n>> \in Keys(todo', t) \cup {<<m>>}
      BY <1>4, <1>5, <1>7, <3>2 DEF NumberedTable
    <3>4. ~(m < <<n>>[1])
      BY <1>1, <1>3
    <3>5. <<n>> = <<m>>
      BY <1>4, <1>5, <3>3, <3>4
    <3> QED
      BY <3>5
  <2>5. n < numSeeds
    BY <1>1, <1>3, <2>4
  <2> QED
    BY <1>5, <1>7, <2>1, <2>2, <2>3, <2>4, <2>5
<1>8. CASE ~(n < Capacity(t))
  BY <1>2, <1>8, InstallHere DEF Stored
<1> QED
  BY <1>7, <1>8

LEMMA InstallNumbered ==
  ASSUME TypeInv, NEW t \in Numbered, NumberedTable(t), InstallRule
  PROVE  NumberedTable(t)'
<1> DEFINE r == Head(todo)
           n == Stored(t)
<1>1. /\ todo \in Seq(GoodRules) /\ todo # <<>> /\ todo' = Tail(todo)
      /\ numSeeds' = numSeeds /\ numSeeds \in Nat
  BY DEF InstallRule, TypeInv, TypeOK, feedback
<1>2. t \in TableNames /\ Capacity(t) \in Nat
  BY NumberedRoom
<1>3. IsFiniteSet(table[t]) /\ n \in Nat
  BY FS_CardinalityType DEF NumberedTable, Stored
<1>4. CASE r.to # t
  <2>1. /\ table'[t] = table[t] /\ Keys(todo', t) = Keys(todo, t)
        /\ Ordered(todo, t) => Ordered(todo', t)
    BY <1>2, <1>4, InstallElsewhere
  <2> QED
    BY <1>1, <2>1 DEF NumberedTable, Stored
<1>5. CASE r.to = t
  <2>1. /\ Keys(todo', t) \subseteq Keys(todo, t)
        /\ Keys(todo, t) \subseteq Keys(todo', t) \cup {r.entry.key}
        /\ Ordered(todo', t)
        /\ \A k \in Keys(todo', t) : r.entry.key[1] < k[1]
    BY <1>1, <1>5, KeysOfTail DEF NumberedTable
  <2>2. CASE n < Capacity(t)
    <3>1. /\ n < numSeeds /\ r.entry.key = <<n>>
          /\ table'[t] = table[t] \cup {r.entry} /\ Stored(t)' = n + 1
      BY <1>5, <2>2, InstallInOrder
    <3>2. IsFiniteSet(table'[t])
      BY <1>3, <3>1, FS_AddElement
    <3>3. \A k \in Keys(todo', t) : n < k[1]
      BY <2>1, <3>1
    <3>4. {e.key : e \in table'[t]} = Numbers(0, n + 1)
      <4>1. {e.key : e \in table'[t]} = Numbers(0, n) \cup {<<n>>}
        BY <3>1 DEF NumberedTable
      <4>2. 0 .. (n + 1) - 1 = (0 .. n - 1) \cup {n}
        BY <1>3
      <4> QED
        BY <4>1, <4>2 DEF Numbers
    <3>5. Keys(todo', t) \subseteq Numbers(n + 1, numSeeds)
      <4> SUFFICES ASSUME NEW k \in Keys(todo', t) PROVE k \in Numbers(n + 1, numSeeds)
        OBVIOUS
      <4>1. k \in Numbers(n, numSeeds)
        BY <2>1 DEF NumberedTable
      <4>2. PICK x \in n .. numSeeds - 1 : k = <<x>>
        BY <4>1 DEF Numbers
      <4>3. n < x
        BY <3>3, <4>2
      <4>4. x \in n + 1 .. numSeeds - 1
        BY <1>1, <1>3, <4>3
      <4> QED
        BY <4>2, <4>4 DEF Numbers
    <3>6. Numbers(n + 1, numSeeds) \subseteq Keys(todo', t)
      <4> SUFFICES ASSUME NEW x \in n + 1 .. numSeeds - 1 PROVE <<x>> \in Keys(todo', t)
        BY DEF Numbers
      <4>1. x \in n .. numSeeds - 1 /\ x # n
        BY <1>1, <1>3
      <4>2. <<x>> \in Numbers(n, numSeeds)
        BY <4>1 DEF Numbers
      <4>3. <<x>> \in Keys(todo', t) \cup {<<n>>}
        BY <2>1, <2>2, <3>1, <4>2 DEF NumberedTable
      <4> QED
        BY <4>1, <4>3
    <3>7. n + 1 =< numSeeds /\ n + 1 =< Capacity(t)
      BY <1>1, <1>2, <1>3, <2>2, <3>1
    <3> QED
      BY <1>1, <2>1, <3>1, <3>2, <3>4, <3>5, <3>6, <3>7 DEF NumberedTable
  <2>3. CASE ~(n < Capacity(t))
    <3>1. table' = table
      BY <1>5, <2>3, InstallInOrder
    <3> QED
      BY <1>1, <2>1, <2>3, <3>1 DEF NumberedTable, Stored
  <2> QED
    BY <2>2, <2>3
<1> QED
  BY <1>4, <1>5

LEMMA SeedAddedKeys ==
  ASSUME TypeInv, SeedAdded
  PROVE  /\ \A t \in Numbered : Keys(todo', t) = {<<numSeeds>>} /\ Ordered(todo', t)
         /\ Keys(todo', "clones") = {}
         /\ OnlyLast(todo', "seed") /\ todo'[Len(todo')].entry.key = <<numSeeds>>
<1>1. numSeeds \in Nat
  BY DEF TypeInv, TypeOK
<1>2. KnownPaths \subseteq Paths
  BY SeedAssumption
<1>3. PICK q \in KnownPaths, v \in SUBSET RuleIds : todo' = RulesOfSeed(numSeeds, q, v)
  BY DEF SeedAdded
<1>4. q \in Paths
  BY <1>2
<1> HIDE DEF SeedAdded
<1> QED
  BY <1>1, <1>3, <1>4, SeedKeys

LEMMA SeedAddedNumbered ==
  ASSUME TypeInv, NEW t \in Numbered, NumberedTable(t), SeedAdded
  PROVE  NumberedTable(t)'
<1> DEFINE n == Stored(t)
<1>1. /\ todo = <<>> /\ table' = table
      /\ numSeeds' = numSeeds + 1 /\ numSeeds \in Nat
  BY DEF SeedAdded, TypeInv, TypeOK
<1>2. n \in Nat /\ Capacity(t) \in Nat /\ n' = n
  BY <1>1, NumberedRoom, FS_CardinalityType DEF NumberedTable, Stored
<1>3. Keys(todo', t) = {<<numSeeds>>} /\ Ordered(todo', t)
  BY SeedAddedKeys
<1>4. Keys(todo, t) = {}
  BY <1>1, NoRules
<1>5. n < Capacity(t) => n = numSeeds
  <2>1. n < Capacity(t) => Numbers(n, numSeeds) = {}
    BY <1>4 DEF NumberedTable
  <2>2. n < numSeeds => <<n>> \in Numbers(n, numSeeds)
    BY <1>1, <1>2, InNumbers
  <2>3. n =< numSeeds
    BY DEF NumberedTable
  <2> QED
    BY <1>1, <1>2, <2>1, <2>2, <2>3
<1>6. {<<numSeeds>>} \subseteq Numbers(n, numSeeds + 1)
  <2>1. numSeeds \in n .. (numSeeds + 1) - 1
    BY <1>1, <1>2 DEF NumberedTable
  <2> QED
    BY <2>1 DEF Numbers
<1>7. n < Capacity(t) => Numbers(n, numSeeds + 1) \subseteq {<<numSeeds>>}
  <2>1. numSeeds .. (numSeeds + 1) - 1 = {numSeeds}
    BY <1>1
  <2> QED
    BY <1>5, <2>1 DEF Numbers
<1>8. n =< numSeeds + 1
  BY <1>1, <1>2 DEF NumberedTable
<1>9. IsFiniteSet(table[t]) /\ n =< Capacity(t) /\ {e.key : e \in table[t]} = Numbers(0, n)
  BY DEF NumberedTable
<1> HIDE DEF n
<1>10. n = Stored(t) /\ Stored(t)' = n
  BY <1>1 DEF n, Stored
<1> QED
  BY <1>1, <1>3, <1>6, <1>7, <1>8, <1>9, <1>10 DEF NumberedTable

LEMMA NumberedNext == TypeInv /\ NumberedInv /\ [Next]_vars => NumberedInv'
<1> SUFFICES ASSUME TypeInv, NumberedInv, [Next]_vars, NEW t \in Numbered
             PROVE  NumberedTable(t)'
  BY DEF NumberedInv
<1>1. NumberedTable(t)
  BY DEF NumberedInv
<1>2. CASE UNCHANGED <<table, todo, numSeeds>>
  BY <1>1, <1>2 DEF NumberedTable, Stored
<1> QED
  BY <1>1, <1>2, RuleSteps, InstallNumbered, SeedAddedNumbered

-----------------------------------------------------------------------------
(* The phases of add_entries.                                              *)

LEMMA InstallPhase ==
  ASSUME TypeInv, NumberedInv, PhaseInv, InstallRule
  PROVE  PhaseInv'
<1> DEFINE r == Head(todo)
<1>1. /\ todo \in Seq(GoodRules) /\ todo # <<>> /\ todo' = Tail(todo)
      /\ numSeeds' = numSeeds /\ numSeeds \in Nat
  BY DEF InstallRule, TypeInv, TypeOK, feedback
<1>2. CASE ~Booted
  <2>1. /\ numSeeds = N0 /\ table["do_resubmit"] = {}
        /\ OnlyLast(todo, "do_resubmit") /\ todo[Len(todo)] = ResubmitRule
        /\ numSeeds >= N0
    BY <1>2 DEF PhaseInv
  <2>2. CASE r.to = "do_resubmit"
    <3>1. todo' = <<>> /\ r = ResubmitRule
      BY <1>1, <2>1, <2>2, LastOfTail
    <3>2. r.entry.key = <<1>>
      BY <3>1 DEF ResubmitRule, NewRule
    <3>3. Cardinality(table["do_resubmit"]) < Capacity("do_resubmit")
      BY <2>1, FS_EmptySet, NumberedRoom
    <3>4. table'["do_resubmit"] = table["do_resubmit"] \cup {r.entry}
      BY <1>2, <2>2, <3>2, <3>3, InstallHere DEF Booted, TableNames
    <3>5. Booted'
      BY <3>2, <3>4 DEF Booted, Hit
    <3> QED
      BY <1>1, <2>1, <3>1, <3>5 DEF PhaseInv
  <2>3. CASE r.to # "do_resubmit"
    <3>1. OnlyLast(todo', "do_resubmit") /\ todo'[Len(todo')] = ResubmitRule
      BY <1>1, <2>1, <2>3, LastOfTail
    <3>2. table'["do_resubmit"] = {}
      BY <2>1, <2>3, InstallElsewhere DEF TableNames
    <3>3. ~Booted'
      BY <3>2 DEF Booted, Hit
    <3> QED
      BY <1>1, <2>1, <3>1, <3>2, <3>3 DEF PhaseInv
  <2> QED
    BY <2>2, <2>3
<1>3. CASE Booted
  <2>1. /\ numSeeds >= N0 /\ numSeeds > N0
        /\ OnlyLast(todo, "seed") /\ todo[Len(todo)].entry.key = <<numSeeds - 1>>
        /\ Keys(todo, "clones") = {}
        /\ \A t \in Numbered : Keys(todo, t) \subseteq {<<numSeeds - 1>>}
    BY <1>1, <1>3 DEF PhaseInv
  <2>2. Booted'
    <3>1. table["do_resubmit"] \subseteq table'["do_resubmit"]
      BY TableGrows DEF Next, ControllerStep, TableNames
    <3> QED
      BY <1>3, <3>1 DEF Booted, Hit
  <2>3. CASE r.to = "seed"
    <3>1. todo' = <<>>
      BY <1>1, <2>1, <2>3, LastOfTail
    <3> QED
      BY <1>1, <2>1, <2>2, <3>1 DEF PhaseInv
  <2>4. CASE r.to # "seed"
    <3>1. OnlyLast(todo', "seed") /\ todo'[Len(todo')].entry.key = <<numSeeds - 1>>
      BY <1>1, <2>1, <2>4, LastOfTail
    <3>2. \A t : Keys(todo', t) \subseteq Keys(todo, t)
      BY <1>1, KeysOfTail
    <3> QED
      BY <1>1, <2>1, <2>2, <3>1, <3>2 DEF PhaseInv
  <2> QED
    BY <2>3, <2>4
<1> QED
  BY <1>2, <1>3

LEMMA PhaseNext == TypeInv /\ NumberedInv /\ PhaseInv /\ [Next]_vars => PhaseInv'
<1> SUFFICES ASSUME TypeInv, NumberedInv, PhaseInv, [Next]_vars PROVE PhaseInv'
  OBVIOUS
<1>1. CASE UNCHANGED <<table, todo, numSeeds>>
  BY <1>1 DEF PhaseInv, Booted, Hit
<1>2. CASE SeedAdded
  <2>1. /\ todo = <<>> /\ table' = table /\ numSeeds' = numSeeds + 1
        /\ numSeeds \in Nat /\ N0 \in Nat
    BY <1>2, SeedAssumption DEF SeedAdded, TypeInv, TypeOK
  <2>2. Booted
    BY <2>1 DEF PhaseInv, OnlyLast
  <2>3. Booted'
    BY <2>1, <2>2 DEF Booted, Hit
  <2>4. numSeeds' >= N0 /\ numSeeds' > N0 /\ numSeeds' - 1 = numSeeds
    BY <2>1 DEF PhaseInv
  <2>5. /\ \A t \in Numbered : Keys(todo', t) = {<<numSeeds>>}
        /\ Keys(todo', "clones") = {}
        /\ OnlyLast(todo', "seed") /\ todo'[Len(todo')].entry.key = <<numSeeds>>
    BY <1>2, SeedAddedKeys
  <2> QED
    BY <2>3, <2>4, <2>5 DEF PhaseInv
<1> QED
  BY <1>1, <1>2, RuleSteps, InstallPhase

LEMMA ClonesNext == TypeInv /\ ClonesInv /\ PhaseInv /\ [Next]_vars => ClonesInv'
<1> SUFFICES ASSUME TypeInv, ClonesInv, PhaseInv, [Next]_vars PROVE ClonesInv'
  OBVIOUS
<1>1. CASE UNCHANGED <<table, todo, numSeeds>>
  BY <1>1 DEF ClonesInv, Stored, Hit
<1>2. CASE SeedAdded
  <2>1. todo = <<>> /\ table' = table
    BY <1>2 DEF SeedAdded
  <2>2. Keys(todo, "clones") = {}
    BY <2>1, NoRules
  <2> QED
    BY <2>1, <2>2 DEF ClonesInv, Stored, Hit
<1>3. CASE InstallRule
  <2> DEFINE r == Head(todo)
             n == Stored("clones")
  <2>1. /\ todo \in Seq(GoodRules) /\ todo # <<>> /\ todo' = Tail(todo)
        /\ "clones" \in TableNames /\ CloneCapacity \in Nat
        /\ Capacity("clones") = CloneCapacity
    BY <1>3, CapacityAssumption, NumberedRoom DEF InstallRule, TypeInv, TableNames
  <2>2. CASE r.to # "clones"
    <3>1. table'["clones"] = table["clones"] /\ Keys(todo', "clones") = Keys(todo, "clones")
      BY <1>3, <2>1, <2>2, InstallElsewhere
    <3> QED
      BY <3>1 DEF ClonesInv, Stored, Hit
  <2>3. CASE r.to = "clones"
    <3>1. Keys(todo, "clones") \subseteq Keys(todo', "clones") \cup {r.entry.key}
      BY <2>1, <2>3, KeysOfTail
    <3>2. IsFiniteSet(table["clones"]) /\ n \in Nat
      BY FS_CardinalityType DEF ClonesInv, Stored
    <3>3. CASE ~Hit("clones", r.entry.key) /\ n < CloneCapacity
      <4>1. table'["clones"] = table["clones"] \cup {r.entry}
        BY <1>3, <2>1, <2>3, <3>3, InstallHere DEF Stored
      <4>2. r.entry \notin table["clones"]
        BY <3>3 DEF Hit
      <4>3. IsFiniteSet(table'["clones"]) /\ Stored("clones")' = n + 1
        BY <3>2, <4>1, <4>2, FS_AddElement DEF Stored
      <4>4. \A k : Hit("clones", k) \/ k = r.entry.key => Hit("clones", k)'
        BY <4>1 DEF Hit
      <4>5. n + 1 =< CloneCapacity
        BY <2>1, <3>2, <3>3
      <4> QED
        BY <3>1, <3>3, <4>3, <4>4, <4>5 DEF ClonesInv
    <3>4. CASE ~(~Hit("clones", r.entry.key) /\ n < CloneCapacity)
      <4>1. table' = table
        BY <1>3, <2>1, <2>3, <3>4, InstallHere DEF Stored
      <4> QED
        BY <3>1, <3>4, <4>1 DEF ClonesInv, Stored, Hit
    <3> QED
      BY <3>3, <3>4
  <2> QED
    BY <2>2, <2>3
<1> QED
  BY <1>1, <1>2, <1>3, RuleSteps

TableInv == NumberedInv /\ PhaseInv /\ ClonesInv

(* The tables are filled in the order of the seeds, whatever the packets   *)
(* do meanwhile and whatever the driver refuses.                           *)
THEOREM TablesInOrder == Spec => []TableInv
<1>1. Init => TableInv
  BY TablesInit DEF TableInv
<1>2. TypeInv /\ TableInv /\ [Next]_vars => TableInv'
  BY NumberedNext, PhaseNext, ClonesNext DEF TableInv
<1>3. LoopInv => TypeInv
  BY DEF LoopInv
<1> QED
  BY <1>1, <1>2, <1>3, LoopInvariant, PTL DEF Spec

-----------------------------------------------------------------------------
(* What a packet may draw.                                                 *)

SeedRoom == 2 =< N0 /\ N0 =< SeedCapacity

LEMMA BootedSeeds ==
  ASSUME TypeInv, TableInv, Booted, SeedRoom
  PROVE  N0 =< Stored("seed")
<1> DEFINE n == Stored("seed")
<1>1. n \in Nat /\ numSeeds \in Nat /\ N0 \in Nat /\ numSeeds >= N0 /\ "seed" \in Numbered
  BY FS_CardinalityType, SeedAssumption
     DEF TableInv, NumberedInv, NumberedTable, PhaseInv, Stored, Numbered, TypeInv, TypeOK
<1> SUFFICES ASSUME n < N0 PROVE FALSE
  BY <1>1
<1>2. <<n>> \in Keys(todo, "seed")
  <2>1. n < Capacity("seed")
    BY <1>1, NumberedRoom, CapacityAssumption DEF SeedRoom
  <2>2. Numbers(n, numSeeds) \subseteq Keys(todo, "seed")
    BY <1>1, <2>1 DEF TableInv, NumberedInv, NumberedTable
  <2> QED
    BY <1>1, <2>2, InNumbers
<1>3. todo # <<>>
  BY <1>2, NoRules
<1>4. <<n>> = <<numSeeds - 1>> /\ numSeeds > N0
  BY <1>1, <1>2, <1>3 DEF TableInv, PhaseInv
<1> QED
  BY <1>1, <1>4

(* A draw that finds no entry of ti_set_seed_num is not possible any more. *)
LEMMA DrawIsSeed ==
  ASSUME TypeInv, TableInv, Booted, SeedRoom, NEW r \in Draws,
         NEW s \in Selected(SeedNums, r)
  PROVE  s \in SeedNums
<1> DEFINE n == Stored("seed")
<1>1. n \in Nat /\ n >= 2
  BY BootedSeeds, SeedAssumption, FS_CardinalityType
     DEF SeedRoom, TableInv, NumberedInv, NumberedTable, Stored, Numbered
<1>2. {e.key : e \in table["seed"]} = Numbers(0, n)
  BY DEF TableInv, NumberedInv, NumberedTable, Numbered
<1>3. ASSUME NEW i \in {0, 1} PROVE i \in SeedNums
  <2>1. <<i>> \in Numbers(0, n)
    BY <1>1, InNumbers
  <2>2. PICK e \in table["seed"] : e.key = <<i>>
    BY <1>2, <2>1
  <2>3. e.key[1] = i
    BY <2>2
  <2> QED
    BY <2>3 DEF SeedNums
<1>4. Matches(0, r) \/ Matches(1, r)
  <2>1. r \in Nat
    BY SeedAssumption DEF Byte
  <2> QED
    BY <2>1 DEF Matches, Modulus
<1>5. \E i \in SeedNums : Matches(i, r)
  BY <1>3, <1>4
<1> QED
  BY <1>5 DEF Selected, Winners

(* By then the other tables have an entry for it, or are full.             *)
LEMMA SeedIsComplete ==
  ASSUME TypeInv, TableInv, Booted, NEW s \in SeedNums, NEW t \in Numbered \ {"seed"}
  PROVE  s \in 0 .. Stored("seed") - 1 /\ (Hit(t, <<s>>) \/ Stored(t) = Capacity(t))
<1> DEFINE n == Stored("seed")
           m == Stored(t)
<1>1. NumberedTable("seed") /\ NumberedTable(t)
  BY DEF TableInv, NumberedInv, Numbered
<1>2. n \in Nat /\ m \in Nat /\ numSeeds \in Nat /\ Capacity(t) \in Nat
  BY <1>1, FS_CardinalityType, NumberedRoom DEF NumberedTable, Stored, TypeInv, TypeOK
<1>3. s \in 0 .. n - 1
  <2>1. PICK e \in table["seed"] : s = e.key[1]
    BY DEF SeedNums
  <2>2. e.key \in Numbers(0, n)
    BY <1>1, <2>1 DEF NumberedTable
  <2>3. PICK i \in 0 .. n - 1 : e.key = <<i>>
    BY <2>2 DEF Numbers
  <2> QED
    BY <2>1, <2>3
<1>4. s \in 0 .. numSeeds - 1
  BY <1>1, <1>2, <1>3 DEF NumberedTable
<1>5. <<s>> \notin Keys(todo, t)
  <2>1. CASE todo = <<>>
    BY <2>1, NoRules
  <2>2. CASE todo # <<>>
    <3>1. /\ OnlyLast(todo, "seed") /\ todo[Len(todo)].entry.key = <<numSeeds - 1>>
          /\ Keys(todo, t) \subseteq {<<numSeeds - 1>>}
      BY <2>2 DEF TableInv, PhaseInv
    <3>2. Len(todo) \in 1 .. Len(todo)
      BY <2>2 DEF TypeInv
    <3>3. <<numSeeds - 1>> \in Keys(todo, "seed")
      BY <3>1, <3>2, InKeys DEF OnlyLast
    <3>4. <<numSeeds - 1>> \in Numbers(n, numSeeds)
      BY <1>1, <3>3 DEF NumberedTable
    <3>5. n =< numSeeds - 1
      BY <1>2, <3>4, InNumbers
    <3>6. s # numSeeds - 1
      BY <1>2, <1>3, <3>5
    <3> QED
      BY <3>1, <3>6
  <2> QED
    BY <2>1, <2>2
<1>6. CASE m = Capacity(t)
  BY <1>3, <1>6
<1>7. CASE m # Capacity(t)
  <2>1. m < Capacity(t)
    BY <1>1, <1>2, <1>7 DEF NumberedTable
  <2>2. <<s>> \notin Numbers(m, numSeeds)
    BY <1>1, <1>5, <2>1 DEF NumberedTable
  <2>3. s \in 0 .. m - 1
    BY <1>2, <1>4, <2>2, InNumbers
  <2>4. <<s>> \in Numbers(0, m)
    BY <2>3 DEF Numbers
  <2>5. \E e \in table[t] : e.key = <<s>>
    BY <1>1, <2>4 DEF NumberedTable
  <2> QED
    BY <1>3, <2>5 DEF Hit
<1> QED
  BY <1>6, <1>7

(* The tables with room for a seed like ti_set_seed_num do have it.        *)
LEMMA SeedIsBuildable ==
  ASSUME TypeInv, TableInv, Booted, NEW s \in SeedNums, NEW t \in {"create", "fields"}
  PROVE  Hit(t, <<s>>)
<1>1. t \in Numbered \ {"seed"} /\ Capacity(t) = SeedCapacity /\ Capacity("seed") = SeedCapacity
  BY NumberedRoom DEF Numbered
<1>2. s \in 0 .. Stored("seed") - 1 /\ (Hit(t, <<s>>) \/ Stored(t) = Capacity(t))
  BY <1>1, SeedIsComplete
<1>3. NumberedTable("seed") /\ NumberedTable(t)
  BY <1>1 DEF TableInv, NumberedInv, Numbered
<1>4. Stored("seed") \in Nat /\ Stored(t) \in Nat /\ SeedCapacity \in Nat
  BY <1>3, FS_CardinalityType, CapacityAssumption DEF NumberedTable, Stored
<1>5. Stored("seed") =< SeedCapacity
  BY <1>1, <1>3 DEF NumberedTable
<1>6. CASE Stored(t) = Capacity(t)
  <2>1. s \in 0 .. Stored(t) - 1
    BY <1>1, <1>2, <1>4, <1>5, <1>6
  <2>2. <<s>> \in Numbers(0, Stored(t))
    BY <2>1 DEF Numbers
  <2> QED
    BY <1>3, <2>2 DEF NumberedTable, Hit
<1> QED
  BY <1>2, <1>6

(* Once the loop has started, no draw makes the tester drop a packet, also *)
(* while a new seed is half installed and when the tables are full, if     *)
(* there are two initial seeds and room for them.                          *)
THEOREM NothingDropped ==
  ASSUME SeedRoom
  PROVE  Spec => []NoDropOnceBooted
<1>1. TypeInv /\ TableInv => NoDropOnceBooted
  BY DrawIsSeed, SeedIsBuildable DEF NoDropOnceBooted
<1>2. LoopInv => TypeInv
  BY DEF LoopInv
<1> QED
  BY <1>1, <1>2, LoopInvariant, TablesInOrder, PTL

-----------------------------------------------------------------------------
(* What a packet built from a seed of the controller carries.              *)

(* The packet x of a new seed has its header values; its clone headers and *)
(* its mutation entry are missing only if their tables are full.           *)
WholeSeed(x) ==
  x.at = "egress" /\ x.seed >= N0 =>
    /\ x.filled
    /\ x.cloned \/ x.path \notin KnownPaths \/ Stored("clones") = CloneCapacity
    /\ Hit("mutate", <<x.seed>>) \/ Stored("mutate") = MutateCapacity

LEMMA FullStays ==
  ASSUME TypeInv, TableInv, [Next]_vars, NEW t \in {"mutate", "clones"},
         Stored(t) = Capacity(t)
  PROVE  Stored(t)' = Capacity(t)
<1>1. TableInv'
  BY NumberedNext, PhaseNext, ClonesNext DEF TableInv
<1>2. IsFiniteSet(table[t]) /\ IsFiniteSet(table'[t]) /\ Stored(t)' =< Capacity(t)
  BY <1>1, NumberedRoom
     DEF TableInv, NumberedInv, NumberedTable, ClonesInv, Numbered, Stored
<1>3. table[t] \subseteq table'[t]
  BY TableGrows DEF TableNames
<1>4. Cardinality(table[t]) =< Cardinality(table'[t])
  BY <1>2, <1>3, FS_Subset
<1>5. Cardinality(table[t]) \in Nat /\ Cardinality(table'[t]) \in Nat
  BY <1>2, FS_CardinalityType
<1> QED
  BY <1>2, <1>4, <1>5 DEF Stored

(* A whole packet stays whole while it waits.                              *)
LEMMA WholeStays ==
  ASSUME TypeInv, TableInv, [Next]_vars, NEW x, WholeSeed(x)
  PROVE  x.at = "egress" /\ x.seed >= N0 =>
           /\ x.filled
           /\ x.cloned \/ x.path \notin KnownPaths \/ Stored("clones")' = CloneCapacity
           /\ Hit("mutate", <<x.seed>>)' \/ Stored("mutate")' = MutateCapacity
<1>1. \A k : Hit("mutate", k) => Hit("mutate", k)'
  BY TableGrows DEF Hit, TableNames
<1>2. Stored("mutate") = MutateCapacity => Stored("mutate")' = MutateCapacity
  BY FullStays, NumberedRoom
<1>3. Stored("clones") = CloneCapacity => Stored("clones")' = CloneCapacity
  BY FullStays, NumberedRoom
<1> QED
  BY <1>1, <1>2, <1>3 DEF WholeSeed

(* The packet a new seed yields is whole from the start.                   *)
LEMMA GeneratedWhole ==
  ASSUME TypeInv, TableInv, SeedRoom, NEW x \in Packet, NEW r \in Draws,
         NEW twin \in BOOLEAN, NEW s \in Selected(SeedNums, r), Hit("create", <<s>>)
  PROVE  WholeSeed(Generated(x, s, twin))
<1> DEFINE y == Generated(x, s, twin)
           p == EntryAt("create", <<s>>).path
<1>1. /\ y.seed = s /\ y.filled = Hit("fields", <<s>>) /\ y.path = p
      /\ y.cloned = Hit("clones", <<p>>)
  BY DEF Generated, Free
<1> HIDE DEF y
<1> SUFFICES ASSUME s >= N0 PROVE WholeSeed(y)
  BY <1>1 DEF WholeSeed, y
<1>2. Booted
  <2>1. NumberedTable("create") /\ Stored("create") \in Nat /\ numSeeds \in Nat
    BY FS_CardinalityType
       DEF TableInv, NumberedInv, NumberedTable, Numbered, Stored, TypeInv, TypeOK
  <2>2. PICK e \in table["create"] : e.key = <<s>>
    BY DEF Hit
  <2>3. <<s>> \in Numbers(0, Stored("create"))
    BY <2>1, <2>2 DEF NumberedTable
  <2>4. s \in 0 .. Stored("create") - 1
    BY <2>1, <2>3, InNumbers
  <2>5. Stored("create") =< numSeeds
    BY <2>1 DEF NumberedTable
  <2>6. numSeeds # N0
    BY <2>1, <2>4, <2>5, SeedAssumption
  <2> QED
    BY <2>6 DEF TableInv, PhaseInv
<1>3. s \in SeedNums
  BY <1>2, DrawIsSeed
<1>4. Hit("fields", <<s>>)
  BY <1>2, <1>3, SeedIsBuildable
<1>5. Hit("mutate", <<s>>) \/ Stored("mutate") = MutateCapacity
  BY <1>2, <1>3, SeedIsComplete, NumberedRoom DEF Numbered
<1>6. \/ p \notin KnownPaths \/ Hit("clones", <<p>>)
      \/ Stored("clones") = CloneCapacity
  <2>1. Keys(todo, "clones") = {}
    BY <1>2, NoRules DEF TableInv, PhaseInv
  <2>2. Stored("clones") \in Nat /\ Stored("clones") =< CloneCapacity /\ CloneCapacity \in Nat
    BY FS_CardinalityType, CapacityAssumption DEF TableInv, ClonesInv, Stored
  <2> QED
    BY <2>1, <2>2 DEF TableInv, ClonesInv
<1> QED
  BY <1>1, <1>4, <1>5, <1>6 DEF WholeSeed

WholeInv == \A p \in PktIds : WholeSeed(packet[p])

LEMMA WholeInit == Init => WholeInv
<1>1. Free.at = "free"
  BY DEF Free
<1> QED
  BY <1>1 DEF Init, WholeInv, WholeSeed

LEMMA WholeNext ==
  ASSUME SeedRoom
  PROVE  TypeInv /\ TableInv /\ WholeInv /\ [Next]_vars => WholeInv'
<1> SUFFICES ASSUME TypeInv, TableInv, WholeInv, [Next]_vars,
                    NEW q \in PktIds
             PROVE  WholeSeed(packet[q])'
  BY DEF WholeInv
<1>1. packet \in [PktIds -> Packet] /\ packet[q] \in Packet
  BY DEF TypeInv, TypeOK
<1>2. ASSUME NEW x, WholeSeed(x), packet'[q] = x
      PROVE  WholeSeed(packet[q])'
  BY <1>2, WholeStays DEF WholeSeed
<1>3. ASSUME packet'[q].at # "egress"
      PROVE  WholeSeed(packet[q])'
  BY <1>3 DEF WholeSeed
<1>4. CASE packet'[q] = packet[q]
  BY <1>2, <1>4 DEF WholeInv
<1>5. ASSUME NEW p \in PktIds, PacketStep(p), packet'[q] # packet[q]
      PROVE  WholeSeed(packet[q])'
  <2>1. CASE IngressGenerate(p)
    <3>1. PICK r \in Draws, twin \in BOOLEAN : \E s \in Selected(SeedNums, r) :
             /\ Hit("create", <<s>>)
             /\ packet' = [packet EXCEPT ![p] = Generated(packet[p], s, twin)]
      BY <2>1 DEF IngressGenerate
    <3>2. PICK s \in Selected(SeedNums, r) :
             /\ Hit("create", <<s>>)
             /\ packet' = [packet EXCEPT ![p] = Generated(packet[p], s, twin)]
      BY <3>1
    <3>3. packet'[q] = Generated(packet[p], s, twin)
      BY <1>1, <1>5, <3>2
    <3>4. packet[p] \in Packet
      BY <1>1
    <3>5. WholeSeed(Generated(packet[p], s, twin))
      BY <3>2, <3>4, GeneratedWhole
    <3> QED
      BY <1>2, <3>3, <3>5
  <2>2. CASE EgressResubmit(p)
    <3> DEFINE x == [packet[p] EXCEPT !.at = "sut", !.type = 3]
               c == [x EXCEPT !.at = "egress", !.twin = FALSE]
    <3>1. /\ packet[p].at = "egress"
          /\ \/ packet' = [packet EXCEPT ![p] = x]
             \/ \E k \in PktIds \ {p} : packet' = [packet EXCEPT ![p] = x, ![k] = c]
      BY <2>2 DEF EgressResubmit
    <3>2. packet[p] \in Packet /\ WholeSeed(packet[p])
      BY <1>1 DEF WholeInv
    <3>3. /\ x.at = "sut" /\ c.seed = packet[p].seed /\ c.filled = packet[p].filled
          /\ c.cloned = packet[p].cloned /\ c.path = packet[p].path
      BY <3>2 DEF Packet
    <3>4. packet'[q] = x \/ packet'[q] = c
      BY <1>1, <1>5, <3>1
    <3> HIDE DEF x, c
    <3>5. WholeSeed(c)
      BY <3>1, <3>2, <3>3 DEF WholeSeed
    <3>6. CASE packet'[q] = x
      BY <1>3, <3>3, <3>6
    <3>7. CASE packet'[q] = c
      BY <1>2, <3>5, <3>7
    <3> QED
      BY <3>4, <3>6, <3>7
  <2>3. CASE EgressSend(p)
    <3>1. packet'[q].at = "sut"
      BY <1>1, <1>5, <2>3 DEF EgressSend, Packet
    <3> QED
      BY <1>3, <3>1
  <2>4. CASE PktGenInject(p) \/ IngressReport(p) \/ IngressDrop(p) \/ LinkLoss(p)
             \/ SutProcess(p)
    <3>1. ASSUME PktGenInject(p)
          PROVE  packet'[q].at = "ingress"
      <4>1. packet'[q] = [Free EXCEPT !.at = "ingress"]
        BY <1>1, <1>5, <3>1 DEF PktGenInject
      <4> QED
        BY <4>1 DEF Free
    <3>2. ASSUME IngressReport(p) \/ IngressDrop(p) \/ LinkLoss(p)
          PROVE  packet'[q].at = "free"
      <4>1. packet'[q] = Free
        BY <1>1, <1>5, <3>2 DEF IngressReport, IngressDrop, LinkLoss
      <4> QED
        BY <4>1, FreePacket
    <3>3. ASSUME SutProcess(p)
          PROVE  packet'[q].at = "ingress"
      <4>1. PICK e : packet' = [packet EXCEPT ![p] =
               [Free EXCEPT !.at = "ingress", !.path = packet[p].path,
                            !.type = TypeAfterSut(packet[p]),
                            !.acts = packet[p].acts \cup e]]
        BY <3>3 DEF SutProcess
      <4>2. packet'[q] = [Free EXCEPT !.at = "ingress", !.path = packet[p].path,
                                      !.type = TypeAfterSut(packet[p]),
                                      !.acts = packet[p].acts \cup e]
        BY <1>1, <1>5, <4>1
      <4> QED
        BY <4>2 DEF Free
    <3>4. packet'[q].at # "egress"
      <4>1. (PktGenInject(p) \/ SutProcess(p)) => packet'[q].at = "ingress"
        BY <3>1, <3>3
      <4> QED
        BY <2>4, <3>2, <4>1
    <3> QED
      BY <1>3, <3>4
  <2> QED
    BY <1>5, <2>1, <2>2, <2>3, <2>4 DEF PacketStep
<1>6. (\E p \in PktIds : PacketStep(p)) \/ UNCHANGED packet
  BY DEF Next, vars, DatagramLoss, ControllerStep, InstallRule, HandleReport,
     ReportTimeout, HandleDatagram, NoDatagram, CheckExit, Tick, dataplane
<1> QED
  BY <1>4, <1>5, <1>6

(* A packet of a seed that the controller added finds the rules of that    *)
(* seed installed, although they are installed one by one: the rule that   *)
(* makes the seed selectable comes last.                                   *)
THEOREM NoHalfSeeds ==
  ASSUME SeedRoom
  PROVE  Spec => []SeedPacketsComplete
<1>1. Init => WholeInv
  BY WholeInit
<1>2. TypeInv /\ TableInv /\ WholeInv /\ [Next]_vars => WholeInv'
  BY WholeNext
<1>3. WholeInv => SeedPacketsComplete
  BY DEF WholeInv, WholeSeed, SeedPacketsComplete, Stored
<1>4. LoopInv => TypeInv
  BY DEF LoopInv
<1> QED
  BY <1>1, <1>2, <1>3, <1>4, LoopInvariant, TablesInOrder, PTL DEF Spec

-----------------------------------------------------------------------------
(* The loop implements CoverageFeedback.                                   *)

Corpus == {<<e.key[1], e.path>> : e \in table["create"]}

LEMMA FeedbackStart == Init => Feedback!Init
<1> SUFFICES ASSUME Init PROVE Feedback!Init
  OBVIOUS
<1>1. table["create"] = {} /\ seen = {} /\ numSeeds = N0 /\ pc = "cpu"
  BY DEF Init, TableNames
<1>2. Corpus = {}
  BY <1>1 DEF Corpus
<1> QED
  BY <1>1, <1>2 DEF Feedback!Init, Running, Corpus

(* An accepted rule of ti_create_packet publishes the next seed.           *)
LEMMA PublishStep ==
  ASSUME TypeInv, TableInv, InstallRule
  PROVE  Corpus' = Corpus \/ \E path \in Paths : Feedback!Publish(path)
<1> DEFINE e == Head(todo).entry
           n == Stored("create")
<1>1. /\ NumberedTable("create") /\ "create" \in Numbered /\ "create" \in TableNames
      /\ n \in Nat /\ numSeeds \in Nat
  BY FS_CardinalityType
     DEF TableInv, NumberedInv, NumberedTable, Stored, Numbered, TableNames, TypeInv, TypeOK
<1>2. table'["create"] = table["create"] => Corpus' = Corpus
  BY DEF Corpus
<1>3. CASE Head(todo).to = "create" /\ n < Capacity("create")
  <2>1. /\ n < numSeeds /\ e.key = <<n>>
        /\ table'["create"] = table["create"] \cup {e}
    BY <1>1, <1>3, InstallInOrder
  <2>2. e.path \in Paths
    <3>1. Head(todo) \in GoodRules
      BY HeadTail DEF InstallRule, TypeInv
    <3> QED
      BY <1>3, <3>1 DEF GoodRules
  <2>3. Corpus' = Corpus \cup {<<n, e.path>>}
    BY <2>1 DEF Corpus
  <2>4. {c[1] : c \in Corpus} = 0 .. n - 1
    <3>1. {f.key : f \in table["create"]} = {<<i>> : i \in 0 .. n - 1}
      BY <1>1 DEF NumberedTable, Numbers
    <3>2. ASSUME NEW c \in Corpus PROVE c[1] \in 0 .. n - 1
      <4>1. PICK f \in table["create"] : c = <<f.key[1], f.path>>
        BY DEF Corpus
      <4>2. PICK i \in 0 .. n - 1 : f.key = <<i>>
        BY <3>1
      <4> QED
        BY <4>1, <4>2
    <3>3. ASSUME NEW i \in 0 .. n - 1 PROVE \E c \in Corpus : c[1] = i
      <4>1. PICK f \in table["create"] : f.key = <<i>>
        BY <3>1
      <4>2. <<f.key[1], f.path>> \in Corpus
        BY DEF Corpus
      <4>3. <<f.key[1], f.path>>[1] = i
        BY <4>1
      <4> QED
        BY <4>2, <4>3
    <3> HIDE DEF n
    <3> QED
      BY <3>2, <3>3
  <2>5. Running /\ Running' /\ UNCHANGED <<seen, numSeeds>>
    BY DEF InstallRule, Running, feedback
  <2>6. n \in 0 .. numSeeds - 1
    BY <1>1, <2>1
  <2> HIDE DEF e, n
  <2>7. \E path \in Paths :
           /\ {c[1] : c \in Corpus} = 0 .. n - 1
           /\ Corpus' = Corpus \cup {<<n, path>>}
    BY <2>2, <2>3, <2>4
  <2>8. \E path \in Paths : Feedback!Publish(path)
    BY <2>5, <2>6, <2>7 DEF Feedback!Publish, Corpus
  <2> QED
    BY <2>8
<1>4. CASE Head(todo).to = "create" /\ ~(n < Capacity("create"))
  BY <1>1, <1>2, <1>4, InstallInOrder
<1>5. CASE Head(todo).to # "create"
  BY <1>1, <1>2, <1>5, InstallElsewhere
<1> QED
  BY <1>3, <1>4, <1>5

(* What check_coverage_and_add_seed does to the feedback.                  *)
LEMMA LearnStep ==
  ASSUME NEW a \in SUBSET Actions, NEW q, NEW ty, NEW v, NEW nxt \in {"sut", "check"},
         Running, UNCHANGED table, CheckCoverage(a, q, ty, v, nxt)
  PROVE  Feedback!Learn(a) \/ Feedback!End(a)
<1>1. Corpus' = Corpus
  BY DEF Corpus
<1>2. seen' = seen \cup a
  BY CoverageSteps
<1>3. CASE UNCHANGED numSeeds /\ pc' \in {nxt, "stopped", "crashed"}
  <2>1. CASE pc' = nxt
    <3>1. Running'
      BY <2>1 DEF Running
    <3> QED
      BY <1>1, <1>2, <1>3, <3>1 DEF Feedback!Learn, Corpus
  <2>2. CASE pc' \in {"stopped", "crashed"}
    <3>1. ~Running'
      BY <2>2 DEF Running
    <3> QED
      BY <1>1, <1>2, <1>3, <3>1 DEF Feedback!End, Corpus
  <2> QED
    BY <1>3, <2>1, <2>2
<1>4. CASE a # {} /\ pc' = nxt /\ numSeeds' = numSeeds + 1
  <2>1. Running'
    BY <1>4 DEF Running
  <2>2. numSeeds' \in {numSeeds + 1 : act \in a}
    BY <1>4
  <2> QED
    BY <1>1, <1>2, <2>1, <2>2 DEF Feedback!Learn, Corpus
<1> QED
  BY <1>3, <1>4, CoverageSteps

(* What a raise of parsePacket or of an assertion does to the feedback.    *)
LEMMA CrashStep ==
  ASSUME Running, UNCHANGED <<table, feedback>>, pc' = "crashed"
  PROVE  Feedback!End({})
<1>1. ~Running' /\ Corpus' = Corpus
  BY DEF Running, Corpus
<1> QED
  BY <1>1 DEF Feedback!End, feedback, Corpus

LEMMA FeedbackStep ==
  ASSUME TypeInv, TableInv, [Next]_vars
  PROVE  [Feedback!Next]_(Feedback!vars)
<1>1. cpuq \in Seq(Report) /\ sutq \in Seq(Datagram)
  BY DEF TypeInv, TypeOK
<1>2. UNCHANGED table => Corpus' = Corpus
  BY DEF Corpus
<1>3. ASSUME UNCHANGED <<table, seen, numSeeds>>, Running' <=> Running
      PROVE  UNCHANGED Feedback!vars
  BY <1>2, <1>3 DEF Feedback!vars, Corpus
<1>4. CASE InstallRule
  <2>1. CASE Corpus' = Corpus
    <3>1. UNCHANGED <<seen, numSeeds, pc>>
      BY <1>4 DEF InstallRule, feedback
    <3>2. UNCHANGED Feedback!vars
      BY <2>1, <3>1 DEF Feedback!vars, Corpus, Running
    <3> QED
      BY <1>4, <3>2, PublishStep
  <2>2. CASE \E path \in Paths : Feedback!Publish(path)
    BY <1>4, <2>2, PublishStep DEF Feedback!Next
  <2> QED
    BY <1>4, <2>1, <2>2, PublishStep
<1>5. CASE HandleReport
  <2>1. cpuq # <<>> /\ UNCHANGED table /\ Running
    BY <1>5 DEF HandleReport, Running
  <2>2. Head(cpuq).acts \in SUBSET Actions
    <3>1. Head(cpuq) \in Report
      BY <1>1, <2>1
    <3> QED
      BY <3>1 DEF Report
  <2>3. \/ pc' = "sut" /\ UNCHANGED feedback
        \/ pc' = "crashed" /\ UNCHANGED feedback
        \/ \E q : CheckCoverage(Head(cpuq).acts, q, Head(cpuq).type, learnt, "sut")
    BY <1>5, ReportCases
  <2>4. CASE pc' = "sut" /\ UNCHANGED feedback
    <3>1. Running'
      BY <2>4 DEF Running
    <3> QED
      BY <1>3, <2>1, <2>4, <3>1 DEF feedback
  <2>5. CASE pc' = "crashed" /\ UNCHANGED feedback
    BY <1>2, <2>1, <2>5, CrashStep DEF Feedback!Next
  <2>6. CASE \E q : CheckCoverage(Head(cpuq).acts, q, Head(cpuq).type, learnt, "sut")
    <3>1. Feedback!Learn(Head(cpuq).acts) \/ Feedback!End(Head(cpuq).acts)
      BY <2>1, <2>2, <2>6, LearnStep
    <3> QED
      BY <1>2, <2>1, <2>2, <3>1 DEF Feedback!Next
  <2> QED
    BY <2>3, <2>4, <2>5, <2>6
<1>6. CASE HandleDatagram
  <2>1. sutq # <<>> /\ UNCHANGED table /\ Running
    BY <1>6 DEF HandleDatagram, Running
  <2>2. Head(sutq).acts \in SUBSET Actions
    <3>1. Head(sutq) \in Datagram
      BY <1>1, <2>1
    <3> QED
      BY <3>1 DEF Datagram
  <2>3. \/ pc' = "check" /\ UNCHANGED feedback
        \/ pc' = "crashed" /\ UNCHANGED feedback
        \/ \E q : CheckCoverage(Head(sutq).acts, q, Head(sutq).type, learnt', "check")
    BY <1>6, DatagramCases
  <2>4. CASE pc' = "check" /\ UNCHANGED feedback
    <3>1. Running'
      BY <2>4 DEF Running
    <3> QED
      BY <1>3, <2>1, <2>4, <3>1 DEF feedback
  <2>5. CASE pc' = "crashed" /\ UNCHANGED feedback
    BY <1>2, <2>1, <2>5, CrashStep DEF Feedback!Next
  <2>6. CASE \E q : CheckCoverage(Head(sutq).acts, q, Head(sutq).type, learnt', "check")
    <3>1. Feedback!Learn(Head(sutq).acts) \/ Feedback!End(Head(sutq).acts)
      BY <2>1, <2>2, <2>6, LearnStep
    <3> QED
      BY <1>2, <2>1, <2>2, <3>1 DEF Feedback!Next
  <2> QED
    BY <2>3, <2>4, <2>5, <2>6
<1>7. CASE CheckExit
  <2>1. Running /\ UNCHANGED <<table, seen, numSeeds>> /\ pc' \in {"cpu", "stopped"}
    BY <1>7 DEF CheckExit, Running, feedback
  <2>2. CASE pc' = "cpu"
    BY <1>3, <2>1, <2>2 DEF Running
  <2>3. CASE pc' = "stopped"
    <3>1. Feedback!End({})
      <4>1. ~Running'
        BY <2>3 DEF Running
      <4> QED
        BY <1>2, <2>1, <4>1 DEF Feedback!End, Corpus
    <3> QED
      BY <1>2, <2>1, <3>1 DEF Feedback!Next
  <2> QED
    BY <2>1, <2>2, <2>3
<1>8. CASE ReportTimeout \/ NoDatagram
  <2>1. UNCHANGED <<table, seen, numSeeds>> /\ Running /\ Running'
    BY <1>8 DEF ReportTimeout, NoDatagram, Running, feedback
  <2> QED
    BY <1>3, <2>1
<1>9. CASE DatagramLoss \/ Tick \/ UNCHANGED vars \/ \E p \in PktIds : PacketStep(p)
  <2>1. UNCHANGED <<table, seen, numSeeds, pc>>
    BY <1>9 DEF vars, DatagramLoss, Tick, PacketStep, PktGenInject, IngressReport,
       IngressGenerate, IngressDrop, EgressSend, EgressResubmit, SutProcess, LinkLoss,
       controller, feedback
  <2> QED
    BY <1>3, <2>1 DEF Running
<1> QED
  BY <1>4, <1>5, <1>6, <1>7, <1>8, <1>9 DEF Next, ControllerStep

(* The loop implements the abstract feedback: whatever happens in queues,  *)
(* tables and clocks, every step of it is one of the abstract                *)
(* specification or changes nothing there.                                 *)
THEOREM LoopImplementsFeedback == Spec => ImplementsFeedback
<1>1. Init => Feedback!Init
  BY FeedbackStart
<1>2. TypeInv /\ TableInv /\ [Next]_vars => [Feedback!Next]_(Feedback!vars)
  BY FeedbackStep
<1>3. LoopInv => TypeInv
  BY DEF LoopInv
<1> QED
  BY <1>1, <1>2, <1>3, LoopInvariant, TablesInOrder, PTL
     DEF Spec, ImplementsFeedback, Feedback!Spec
=============================================================================
