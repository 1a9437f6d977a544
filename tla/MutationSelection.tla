-------------------------- MODULE MutationSelection --------------------------
(***************************************************************************)
(* How a packet of the fuzzing switch is mutated on its way out.  Egress   *)
(* draws table_seed, lets te_set_table_seed turn it into one of the SUT's  *)
(* tables whose keys the packet carries, and te_move_back_fields write the *)
(* key fields of that table: with random values, or, for the rare draws    *)
(* that keep fixed_header_seed, with values learnt from the SUT's rules.   *)
(* The controller (coverageDetector.py: add_mutation_rules,                *)
(* add_fixed_rules) installs the entries of both tables, seed by seed and  *)
(* one by one, with as many fixed entries as there are combinations of     *)
(* learnt values.  te_move_fields is left out: te_apply_mutations writes   *)
(* every field it fills before anybody reads it.                           *)
(***************************************************************************)
EXTENDS SeedSelection, Sequences, FiniteSets

CONSTANTS
  Fields,          \* header fields that tables of the SUT program match
  HeaderOf,        \* the header of each
  Values,          \* values of fields in table rules
  AnyValue,        \* a random value
  TableOrder,      \* the tables of the program, in the order of its file
  KeysOf,          \* the fields each of them matches
  InitialPaths,    \* the headers of the seeds installed at start
  NewPaths,        \* the headers that reported packets may carry
  InitialLearnt,   \* fixed values and rules given to the fuzzer at start
  NewRules,        \* table rules that the SUT's controller may forward
  TopTable,        \* 15: highest value of table_seed, lowest priority's entry
  TopCombination,  \* 255: the same for fixed_header_seed
  SetTableSize,    \* 256: size of te_set_table_seed
  MoveBackSize,    \* 2048: size of te_move_back_fields
  MaxSeeds,        \* bounds the seeds
  MaxRules         \* bounds the rules learnt

Tables == {TableOrder[i] : i \in DOMAIN TableOrder}
KeySet(t) == {KeysOf[t][k] : k \in DOMAIN KeysOf[t]}

ASSUME MutationAssumption ==
  /\ AnyValue \notin Values
  /\ KeysOf \in [Tables -> Seq(Fields)]
  /\ InitialLearnt \in [Fields -> Seq(Values)]
  /\ TopTable \in 0 .. 15 /\ TopCombination \in Byte
  /\ {SetTableSize, MoveBackSize, MaxSeeds, MaxRules} \subseteq Nat
  /\ TableOrder \in Seq(Tables)
  /\ InitialPaths \in Seq({InitialPaths[n] : n \in DOMAIN InitialPaths})
  /\ \A rule \in NewRules : rule \in [DOMAIN rule -> Values]

VARIABLES
  learnt,     \* fixedRulesFields: per field, the values seen, oldest first
  rules,      \* number of rules learnt so far
  path,       \* parserPaths: the headers of each seed
  basis,      \* history: what was learnt when the seed was built
  todo,       \* rules that add_entries still has to install
  installed   \* the entries of te_set_table_seed and te_move_back_fields

vars == <<learnt, rules, path, basis, todo, installed>>

Seeds == DOMAIN path

-----------------------------------------------------------------------------
(* Definitions with a suffix, each before the one it resembles, are        *)
(* mistakes the properties are tested against; no action uses them.        *)

(* add_in_seed_to_table: the tables whose keys are all in the seed's path. *)
SeedToTableAll(p) == TableOrder
SeedToTable(p) ==
  LET Within(t) == \A f \in KeySet(t) : HeaderOf[f] \in p
      upTo[i \in 0 .. Len(TableOrder)] ==
        IF i = 0 THEN <<>>
        ELSE IF Within(TableOrder[i]) THEN Append(upTo[i - 1], TableOrder[i])
        ELSE upTo[i - 1]
  IN  upTo[Len(TableOrder)]

Rule(to, s, i, c, vals) ==
  [to |-> to, seed |-> s, table |-> i, combination |-> c, vals |-> vals]

RandomValues(t) == [f \in KeySet(t) |-> AnyValue]

(* add_mutation_rules: who may be drawn, then who is written at random.    *)
MutationRules(s, ts) ==
  [i \in 1 .. Len(ts) |-> Rule("set_table", s, i - 1, 0, <<>>)]
    \o [i \in 1 .. Len(ts) |->
          Rule("move_back", s, i - 1, 0, RandomValues(ts[i]))]

(* A field nobody has learnt a value for gets one random value instead.    *)
Options(known, f) == IF known[f] = <<>> THEN <<AnyValue>> ELSE known[f]

(* Stride(known, t)[k]: the combinations of the keys of t from the k-th on *)
Stride(known, t) ==
  LET n == Len(KeysOf[t])
      stride[k \in 1 .. n + 1] ==
        IF k > n THEN 1 ELSE Len(Options(known, KeysOf[t][k])) * stride[k + 1]
  IN  stride

(* The c-th element of itertools.product of the options, c from 0.         *)
Product(known, t, c) ==
  LET stride == Stride(known, t)
      Digit(f) == LET k == CHOOSE k \in DOMAIN KeysOf[t] : KeysOf[t][k] = f
                  IN  (c \div stride[k + 1]) % Len(Options(known, f))
  IN  [f \in KeySet(t) |-> Options(known, f)[Digit(f) + 1]]

FixedRulesOfTableFromZero(s, i, t, known) ==
  [c \in 1 .. Stride(known, t)[1] |->
     Rule("move_back", s, i, c - 1, Product(known, t, c - 1))]
FixedRulesOfTable(s, i, t, known) ==
  [c \in 1 .. Stride(known, t)[1] |->
     Rule("move_back", s, i, c, Product(known, t, c - 1))]

(* add_fixed_rules: one entry per table and combination, once anything at  *)
(* all has been learnt.                                                    *)
FixedRules(s, ts, known) ==
  LET upTo[i \in 0 .. Len(ts)] ==
        IF i = 0 THEN <<>>
        ELSE upTo[i - 1] \o FixedRulesOfTable(s, i - 1, ts[i], known)
  IN  IF \A f \in Fields : known[f] = <<>> THEN <<>> ELSE upTo[Len(ts)]

RulesOfSeed(s, p, known) ==
  MutationRules(s, SeedToTable(p)) \o FixedRules(s, SeedToTable(p), known)

(* The end of add_initial_seed_packets.                                    *)
InitialRules ==
  LET upTo[n \in 0 .. Len(InitialPaths)] ==
        IF n = 0 THEN <<>>
        ELSE upTo[n - 1] \o RulesOfSeed(n - 1, InitialPaths[n], InitialLearnt)
  IN  upTo[Len(InitialPaths)]

-----------------------------------------------------------------------------
(* The lookups of one packet of seed s.                                    *)

EntriesOf(to, s) == {e \in installed : e.to = to /\ e.seed = s}

Bit(x, k) == (x \div 2^k) % 2

(* The drawn table_seed r under the entry's mask i gives its value i.      *)
Covers(i, r) == \A k \in 0 .. 3 : Bit(i, k) =< Bit(r, k)

TablePriorityUpwards(i) == i
TablePriority(i) == 15 - i

(* table_seed after te_set_table_seed; a miss leaves the draw in it.       *)
TableSeed(s, r) ==
  LET hits == {e.table : e \in {e \in EntriesOf("set_table", s) : Covers(e.table, r)}}
  IN  IF hits = {} THEN r
      ELSE CHOOSE i \in hits :
             \A j \in hits : TablePriority(i) =< TablePriority(j)

(* ti_set_fixed_header: only two values of make_clone keep the draw.       *)
FixedHeaderSeed(makeClone, f) == IF makeClone \in 2 .. 255 THEN 0 ELSE f

(* Entry 0 has mask 0 and matches all; entry c has mask shift_bit_length.  *)
MatchesFixed(c, f) == c = 0 \/ Matches(c, f)

(* The entries of te_move_back_fields that win; their priority is 255 - c. *)
MoveBack(s, i, f) ==
  LET hits == {e \in EntriesOf("move_back", s) :
                 e.table = i /\ MatchesFixed(e.combination, f)}
  IN  {e \in hits : \A d \in hits :
         Priority(e.combination) =< Priority(d.combination)}

(* What the draws may write to the fields of a packet of seed s.           *)
Mutations(s, r, makeClone, f) ==
  {e.vals : e \in MoveBack(s, TableSeed(s, r), FixedHeaderSeed(makeClone, f))}

-----------------------------------------------------------------------------
Init ==
  /\ learnt = InitialLearnt
  /\ rules = 0
  /\ path = [s \in 0 .. Len(InitialPaths) - 1 |-> InitialPaths[s + 1]]
  /\ basis = [s \in 0 .. Len(InitialPaths) - 1 |-> InitialLearnt]
  /\ todo = InitialRules
  /\ installed = {}

(* What the driver accepts: both keys fit their fields, and the table has  *)
(* room; nobody looks whether it did.                                      *)
Accepted(e) ==
  /\ e.table =< TopTable
  /\ e.combination =< TopCombination
  /\ Cardinality({d \in installed : d.to = e.to})
       < (IF e.to = "set_table" THEN SetTableSize ELSE MoveBackSize)

InstallRule ==
  /\ todo # <<>>
  /\ todo' = Tail(todo)
  /\ installed' = IF Accepted(Head(todo)) THEN installed \cup {Head(todo)}
                                          ELSE installed
  /\ UNCHANGED <<learnt, rules, path, basis>>

(* add_single_rule of an add_entry rule; every other rule is passed over.  *)
(* A value is appended again whenever a rule repeats it.                   *)
LearnRule(known, rule) ==
  [f \in Fields |-> IF f \in DOMAIN rule THEN Append(known[f], rule[f])
                                         ELSE known[f]]

AddNewRule ==
  /\ todo = <<>> /\ rules < MaxRules
  /\ \E rule \in NewRules : learnt' = LearnRule(learnt, rule)
  /\ rules' = rules + 1
  /\ UNCHANGED <<path, basis, todo, installed>>

AddSeedPacket ==
  /\ todo = <<>> /\ Cardinality(Seeds) < MaxSeeds
  /\ \E p \in NewPaths :
       LET s == Cardinality(Seeds) IN
       /\ path' = [n \in Seeds \cup {s} |-> IF n = s THEN p ELSE path[n]]
       /\ basis' = [n \in Seeds \cup {s} |-> IF n = s THEN learnt ELSE basis[n]]
       /\ todo' = RulesOfSeed(s, p, learnt)
  /\ UNCHANGED <<learnt, rules, installed>>

Next == InstallRule \/ AddNewRule \/ AddSeedPacket
Spec == Init /\ [][Next]_vars

-----------------------------------------------------------------------------
TableDraws == 0 .. TopTable
FixedDraws == 0 .. TopCombination
TablesOf(s) == SeedToTable(path[s])

TypeOK ==
  /\ learnt \in [Fields -> Seq(Values)]
  /\ rules \in 0 .. MaxRules
  /\ Seeds = 0 .. Cardinality(Seeds) - 1 /\ DOMAIN basis = Seeds
  /\ \A e \in installed :
       /\ e.to \in {"set_table", "move_back"} /\ e.seed \in Seeds
       /\ e.table \in 0 .. TopTable /\ e.combination \in 0 .. TopCombination

(* The tables hold entries within the widths of their keys only, and no    *)
(* draw writes a field of a header that the packet of its seed does not    *)
(* have, nor half of the keys of a table, whatever entries are in so far.  *)
MutatesWholeKeys ==
  /\ TypeOK
  /\ \A s \in Seeds, r \in TableDraws, f \in FixedDraws, m \in {0, 2} :
       \A v \in Mutations(s, r, m, f) :
         /\ \A g \in DOMAIN v : HeaderOf[g] \in path[s]
         /\ \E t \in Tables : DOMAIN v = KeySet(t)

(* Every table a seed has an entry for is drawn, and once its first entry  *)
(* is in every draw hits one: the overlapping masks i of te_set_table_seed *)
(* shadow nobody.                                                          *)
EveryTableDrawn ==
  \A s \in Seeds :
    LET ts == {e.table : e \in EntriesOf("set_table", s)} IN
    ts # {} => {TableSeed(s, r) : r \in TableDraws} = ts

(* With all rules in and room left in te_move_back_fields, every packet of *)
(* a seed with tables is mutated, and by exactly one entry.  However many   *)
(* fixed entries the seed has, most packets stay random: the 254 values of *)
(* make_clone that clear fixed_header_seed reach none of them.             *)
EveryPacketMutated ==
  /\ (todo = <<>> /\ Cardinality({e \in installed : e.to = "move_back"}) < MoveBackSize)
       => \A s \in Seeds, r \in TableDraws, f \in FixedDraws, m \in {0, 2} :
            (TablesOf(s) # <<>> /\ EntriesOf("set_table", s) # {})
              => Cardinality(Mutations(s, r, m, f)) = 1
  /\ \A s \in Seeds, r \in TableDraws, f \in FixedDraws :
       \A v \in Mutations(s, r, 2, f) \cup Mutations(s, r, 0, 0) :
         \A g \in DOMAIN v : v[g] = AnyValue

(* Every value learnt for a key before the seed was built is written by    *)
(* some draw, as long as the combinations fit the 8-bit key and the table  *)
(* has room: the entries with overlapping masks hide no combination.       *)
LearntValuesTried ==
  (todo = <<>> /\ Cardinality({e \in installed : e.to = "move_back"}) < MoveBackSize)
    => \A s \in Seeds : \A i \in DOMAIN TablesOf(s) :
         LET t == TablesOf(s)[i] IN
         (/\ \E e \in EntriesOf("set_table", s) : e.table = i - 1
          /\ Stride(basis[s], t)[1] =< TopCombination) =>
           \A g \in KeySet(t) : \A n \in DOMAIN basis[s][g] :
             \E r \in TableDraws, f \in FixedDraws :
               \E v \in Mutations(s, r, 0, f) :
                 DOMAIN v = KeySet(t) /\ v[g] = basis[s][g][n]
=============================================================================
