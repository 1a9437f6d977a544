----------------------- MODULE MutationSelectionProofs ------------------------
(***************************************************************************)
(* What MutationSelection promises of every packet's mutation, for any     *)
(* tables, learnt rules and table sizes.  First what the masks match, then *)
(* which combination is which of the learnt values, then what the rules of *)
(* a seed are, and last that the two tables hold them as far as there is   *)
(* room.  Before that, what SeedTable promises of the other table whose    *)
(* entries are looked up by a random byte, ti_set_seed_num.                *)
(***************************************************************************)
EXTENDS MutationSelection, SeedTable, InductionLemmas, FiniteSetTheorems, SequenceTheorems

-----------------------------------------------------------------------------
(* The masks of seed numbers, and who wins a lookup.                       *)

(* shift_bit_length: a seed number is below the modulus of its mask.       *)
LEMMA ModulusAbove ==
  ASSUME NEW i \in Byte
  PROVE  Modulus(i) \in {2, 4, 8, 16, 32, 64, 128, 256} /\ i < Modulus(i)
BY DEF Modulus, Byte

(* Masking never raises a byte, so an entry matches no draw below it...    *)
LEMMA MatchesBelow ==
  ASSUME NEW i \in Byte, NEW r \in Byte, Matches(i, r)
  PROVE  i =< r
<1> DEFINE m == Modulus(i)
<1>1. m \in {2, 4, 8, 16, 32, 64, 128, 256}
  BY ModulusAbove
<1>2. r % m =< r
  BY <1>1 DEF Byte
<1> QED
  BY <1>2 DEF Matches

(* ... and matches its own number.                                         *)
LEMMA MatchesItself ==
  ASSUME NEW i \in Byte
  PROVE  Matches(i, i)
<1> DEFINE m == Modulus(i)
<1>1. m \in {2, 4, 8, 16, 32, 64, 128, 256} /\ i < m
  BY ModulusAbove
<1>2. i % m = i
  BY <1>1 DEF Byte
<1> QED
  BY <1>2 DEF Matches

(* Priorities tell entries apart: at most one entry wins a lookup.         *)
LEMMA WinnersUnique ==
  ASSUME NEW S \in SUBSET Byte, NEW r \in Byte,
         NEW i \in Winners(S, r), NEW j \in Winners(S, r)
  PROVE  i = j
<1>1. i \in Byte /\ j \in Byte /\ Priority(i) =< Priority(j) /\ Priority(j) =< Priority(i)
  BY DEF Winners
<1> QED
  BY <1>1 DEF Priority, Byte

(* A lookup that some entry matches has a winner.                          *)
LEMMA WinnerExists ==
  ASSUME NEW S \in SUBSET Byte, NEW r \in Byte, NEW k \in S, Matches(k, r)
  PROVE  \E i \in S : Winners(S, r) = {i}
<1> DEFINE M == {i \in S : Matches(i, r)}
           P == {n \in Nat : \E i \in M : n = Priority(i)}
<1>1. Priority(k) \in P
  BY DEF Priority, Byte
<1>2. PICK n \in P : \A m \in P : n =< m
  BY <1>1, LeastNatural, P \in SUBSET Nat
<1>3. PICK i \in M : n = Priority(i)
  BY <1>2
<1>4. \A j \in M : Priority(j) \in P
  BY DEF Priority, Byte
<1>5. i \in Winners(S, r)
  BY <1>2, <1>3, <1>4 DEF Winners
<1> QED
  BY <1>5, WinnersUnique

(* With the entries 0 and 1 in the table, one of which every byte matches, *)
(* every draw selects exactly one installed seed, whatever else is there.  *)
THEOREM SelectionTotal ==
  ASSUME NEW S \in SUBSET Byte, {0, 1} \subseteq S, NEW r \in Byte
  PROVE  \E s \in S : Selected(S, r) = {s}
<1>1. r % 2 = 0 \/ r % 2 = 1
  BY DEF Byte
<1>2. Matches(0, r) \/ Matches(1, r)
  BY <1>1 DEF Matches, Modulus
<1>3. PICK k \in S : Matches(k, r)
  BY <1>2
<1> QED
  BY <1>3, WinnerExists DEF Selected

(* No seed is shadowed: the byte equal to its number selects it.           *)
THEOREM SelectionReachesAll ==
  ASSUME NEW S \in SUBSET Byte, NEW s \in S
  PROVE  Selected(S, s) = {s}
<1>1. Matches(s, s) /\ s \in Byte
  BY MatchesItself
<1>2. \A j \in S : Matches(j, s) => Priority(s) =< Priority(j)
  <2> SUFFICES ASSUME NEW j \in S, Matches(j, s)
               PROVE  Priority(s) =< Priority(j)
    OBVIOUS
  <2>1. j \in Byte /\ j =< s
    BY <1>1, MatchesBelow
  <2> QED
    BY <1>1, <2>1 DEF Priority, Byte
<1>3. s \in Winners(S, s)
  BY <1>1, <1>2 DEF Winners
<1>4. Winners(S, s) = {s}
  BY <1>1, <1>3, WinnersUnique
<1> QED
  BY <1>1, <1>4 DEF Selected

(* A new entry above all others takes draws for itself and leaves every    *)
(* other draw with the seed it had.                                        *)
THEOREM NewEntryOnlySteals ==
  ASSUME NEW S \in SUBSET Byte, {0, 1} \subseteq S, NEW r \in Byte,
         NEW n \in Byte, \A i \in S : i < n
  PROVE  \/ Selected(S \cup {n}, r) = Selected(S, r)
         \/ Selected(S \cup {n}, r) = {n}
<1> DEFINE T == S \cup {n}
<1>1. PICK s \in S : Selected(S, r) = {s}
  BY SelectionTotal
<1>2. PICK t \in T : Selected(T, r) = {t}
  BY SelectionTotal, T \in SUBSET Byte
<1>3. \E i \in S : Matches(i, r)
  <2>1. r % 2 = 0 \/ r % 2 = 1
    BY DEF Byte
  <2> QED
    BY <2>1 DEF Matches, Modulus
<1>4. s \in Winners(S, r) /\ t \in Winners(T, r)
  BY <1>1, <1>2, <1>3 DEF Selected
<1>5. t \in S => t \in Winners(S, r)
  BY <1>4 DEF Winners
<1> QED
  BY <1>1, <1>2, <1>4, <1>5, WinnersUnique

-----------------------------------------------------------------------------
(* The table as the controller fills it, of up to 256 entries.             *)

(* Every entry of ti_set_seed_num is the byte number of a counted seed.    *)
THEOREM TableTyped == TableSpec => []TableTypeOK
<1> USE SeedTableAssumption DEF TableTypeOK, Byte
<1>1. TableInit => TableTypeOK
  BY DEF TableInit
<1>2. TableTypeOK /\ [TableNext]_tableVars => TableTypeOK'
  <2> SUFFICES ASSUME TableTypeOK, [TableNext]_tableVars PROVE TableTypeOK'
    OBVIOUS
  <2>1. CASE AddSeed
    BY <2>1 DEF AddSeed
  <2>2. CASE DrawByte
    BY <2>2 DEF DrawByte
  <2>3. CASE UNCHANGED tableVars
    BY <2>3 DEF tableVars
  <2> QED
    BY <2>1, <2>2, <2>3 DEF TableNext
<1> QED
  BY <1>1, <1>2, PTL DEF TableSpec

LEMMA EntriesAreBytes ==
  ASSUME TableTypeOK
  PROVE  entries \in SUBSET Byte /\ draw \in Byte
BY SeedTableAssumption DEF TableTypeOK, Byte

(* Every draw selects exactly one installed seed (two parser paths).       *)
THEOREM TableSelectsOne == TableSpec => []DrawSelectsOne
<1>1. TableTypeOK => DrawSelectsOne
  BY EntriesAreBytes, SelectionTotal DEF DrawSelectsOne
<1> QED
  BY <1>1, TableTyped, PTL

(* Every installed seed stays reachable.                                   *)
THEOREM TableReachesAll == TableSpec => []SeedsReachable
<1>1. TableTypeOK => SeedsReachable
  BY EntriesAreBytes, SelectionReachesAll DEF SeedsReachable
<1> QED
  BY <1>1, TableTyped, PTL

(* A new seed changes no draw except those it takes for itself.            *)
THEOREM TableOnlySteals == TableSpec => NewSeedOnlySteals
<1> DEFINE Steals ==
      AddSeed /\ {0, 1} \subseteq entries =>
        \A r \in Draws : \/ Selected(entries', r) = Selected(entries, r)
                         \/ Selected(entries', r) = {numSeeds}
<1>1. TableTypeOK /\ [TableNext]_tableVars => [Steals]_tableVars
  <2> SUFFICES ASSUME TableTypeOK, AddSeed, {0, 1} \subseteq entries,
                      NEW r \in Draws
               PROVE  \/ Selected(entries', r) = Selected(entries, r)
                      \/ Selected(entries', r) = {numSeeds}
    OBVIOUS
  <2>1. entries \in SUBSET Byte /\ r \in Byte /\ numSeeds \in Byte
    BY EntriesAreBytes, SeedTableAssumption DEF AddSeed, TableTypeOK, Byte
  <2>2. \A i \in entries : i < numSeeds
    BY DEF TableTypeOK
  <2>3. entries' = entries \cup {numSeeds} \/ entries' = entries
    BY DEF AddSeed
  <2>4. entries' \in SUBSET Byte
    BY <2>1, <2>3
  <2> QED
    BY <2>1, <2>2, <2>3, <2>4, NewEntryOnlySteals
<1> QED
  BY <1>1, TableTyped, PTL DEF TableSpec, NewSeedOnlySteals

-----------------------------------------------------------------------------
Learnable == [Fields -> Seq(Values)]
Written == Values \cup {AnyValue}

-----------------------------------------------------------------------------
(* An entry of te_set_table_seed takes no draw below its own number ...    *)
LEMMA CoversBelow ==
  ASSUME NEW i \in 0 .. 15, NEW r \in 0 .. 15
  PROVE  /\ Covers(i, r) => i =< r
         /\ Covers(i, i)
<1>1. 2^0 = 1 /\ 2^1 = 2 /\ 2^2 = 4 /\ 2^3 = 8
  OBVIOUS
<1>2. Covers(i, r) => /\ i % 2 =< r % 2 /\ (i \div 2) % 2 =< (r \div 2) % 2
                      /\ (i \div 4) % 2 =< (r \div 4) % 2 /\ (i \div 8) % 2 =< (r \div 8) % 2
  BY <1>1 DEF Covers, Bit
<1>3. Covers(i, i)
  BY <1>1 DEF Covers, Bit
<1> QED
  BY <1>2, <1>3

(* ... entry 0 takes them all ...                                          *)
LEMMA CoversZero ==
  ASSUME NEW r \in 0 .. 15 PROVE Covers(0, r)
<1>1. 2^0 = 1 /\ 2^1 = 2 /\ 2^2 = 4 /\ 2^3 = 8
  OBVIOUS
<1>2. \A a \in Int : 0 =< a % 2
  OBVIOUS
<1>3. /\ r \in Int /\ r \div 1 \in Int /\ r \div 2 \in Int /\ r \div 4 \in Int /\ r \div 8 \in Int
      /\ (0 \div 1) % 2 = 0 /\ (0 \div 2) % 2 = 0 /\ (0 \div 4) % 2 = 0 /\ (0 \div 8) % 2 = 0
  OBVIOUS
<1>4. \A k \in 0 .. 3 : k = 0 \/ k = 1 \/ k = 2 \/ k = 3
  OBVIOUS
<1>5. ASSUME NEW k \in 0 .. 3 PROVE Bit(0, k) = 0 /\ 0 =< Bit(r, k)
  <2>1. CASE k = 0
    BY <1>1, <1>2, <1>3, <2>1 DEF Bit
  <2>2. CASE k = 1
    BY <1>1, <1>2, <1>3, <2>2 DEF Bit
  <2>3. CASE k = 2
    BY <1>1, <1>2, <1>3, <2>3 DEF Bit
  <2>4. CASE k = 3
    BY <1>1, <1>2, <1>3, <2>4 DEF Bit
  <2> QED
    BY <1>4, <2>1, <2>2, <2>3, <2>4
<1> QED
  BY <1>5 DEF Covers

(* ... and neither does one of te_move_back_fields.                        *)
LEMMA FixedBelow ==
  ASSUME NEW c \in Byte, NEW f \in Byte
  PROVE  /\ MatchesFixed(c, f) => c =< f
         /\ MatchesFixed(c, c) /\ MatchesFixed(0, f)
<1> DEFINE m == Modulus(c)
<1>1. m \in {2, 4, 8, 16, 32, 64, 128, 256} /\ c < m
  BY DEF Modulus, Byte
<1> HIDE DEF m
<1>2. f % m =< f /\ c % m = c
  BY <1>1 DEF Byte
<1> QED
  BY <1>2 DEF MatchesFixed, Matches, Byte, m

-----------------------------------------------------------------------------
(* A field has at least one value to be written.                           *)
LEMMA OptionsFacts ==
  ASSUME NEW known \in Learnable, NEW f \in Fields
  PROVE  /\ Options(known, f) \in Seq(Written)
         /\ Len(Options(known, f)) \in Nat \ {0}
         /\ known[f] # <<>> => Options(known, f) = known[f]
<1>1. known[f] \in Seq(Values) /\ known[f] \in Seq(Written)
  BY DEF Learnable, Written
<1>2. CASE known[f] = <<>>
  BY <1>2 DEF Options, Written
<1>3. CASE known[f] # <<>>
  BY <1>1, <1>3, EmptySeq, LenProperties DEF Options
<1> QED
  BY <1>2, <1>3

LEMMA KeysFacts ==
  ASSUME NEW t \in Tables
  PROVE  /\ KeysOf[t] \in Seq(Fields) /\ Len(KeysOf[t]) \in Nat
         /\ DOMAIN KeysOf[t] = 1 .. Len(KeysOf[t])
         /\ KeySet(t) \subseteq Fields
BY MutationAssumption DEF KeySet

(* Stride satisfies its equation, so it counts: the combinations from a    *)
(* key on are as many as its values times those from the next key on.      *)
LEMMA StrideFacts ==
  ASSUME NEW known \in Learnable, NEW t \in Tables
  PROVE  LET n == Len(KeysOf[t])
             S == Stride(known, t)
         IN  /\ \A k \in 1 .. n + 1 : S[k] \in Nat \ {0} /\ S[k] =< S[1]
             /\ \A k \in 1 .. n : S[k] = Len(Options(known, KeysOf[t][k])) * S[k + 1]
<1> DEFINE n == Len(KeysOf[t])
           S == Stride(known, t)
           L(k) == Len(Options(known, KeysOf[t][k]))
           Is(f) == f = [k \in 1 .. n + 1 |-> IF k > n THEN 1 ELSE L(k) * f[k + 1]]
           Pos == Nat \ {0}
           Step == [i \in 1 .. n |-> [x \in Pos |-> L(n + 1 - i) * x]]
<1>1. n \in Nat /\ \A k \in 1 .. n : L(k) \in Pos
  BY KeysFacts, OptionsFacts
<1> HIDE DEF n, L
<1>2. IsStep(Step, n, Pos)
  <2> SUFFICES ASSUME NEW i \in 1 .. n, NEW x \in Pos PROVE L(n + 1 - i) * x \in Pos
    BY DEF IsStep
  <2>1. n + 1 - i \in 1 .. n
    BY <1>1
  <2>2. \A a, b \in Pos : a * b \in Pos
    OBVIOUS
  <2> QED
    BY <1>1, <2>1, <2>2
<1>3. \E f : IsRecursive(f, n, Pos, 1, Step)
  <2>1. 1 \in Pos
    OBVIOUS
  <2> HIDE DEF Step, Pos
  <2> QED
    BY <1>1, <1>2, <2>1, RecursionUpTo
<1>4. PICK f : /\ f \in [0 .. n -> Pos] /\ f[0] = 1
               /\ \A i \in 1 .. n : f[i] = Step[i][f[i - 1]]
  <2> HIDE DEF Step, Pos
  <2> QED
    BY <1>3 DEF IsRecursive
<1> DEFINE g == [k \in 1 .. n + 1 |-> f[n + 1 - k]]
<1>5. Is(g)
  <2>1. ASSUME NEW k \in 1 .. n + 1
        PROVE  g[k] = IF k > n THEN 1 ELSE L(k) * g[k + 1]
    <3>1. CASE k > n
      <4>1. k = n + 1 /\ n + 1 - k = 0
        BY <1>1, <3>1
      <4>2. g[k] = f[0]
        BY <4>1
      <4> QED
        BY <1>4, <3>1, <4>2
    <3>2. CASE ~ (k > n)
      <4>1. /\ n + 1 - k \in 1 .. n /\ n - k \in 0 .. n /\ k + 1 \in 1 .. n + 1
            /\ (n + 1 - k) - 1 = n - k /\ n + 1 - (n + 1 - k) = k /\ n + 1 - (k + 1) = n - k
        BY <1>1, <3>2
      <4>2. g[k] = f[n + 1 - k] /\ g[k + 1] = f[n - k] /\ f[n - k] \in Pos
        BY <1>4, <4>1
      <4>3. f[n + 1 - k] = Step[n + 1 - k][f[n - k]]
        BY <1>4, <4>1
      <4>4. Step[n + 1 - k][f[n - k]] = L(k) * f[n - k]
        BY <4>1, <4>2
      <4> QED
        BY <3>2, <4>2, <4>3, <4>4
    <3> QED
      BY <3>1, <3>2
  <2> HIDE DEF g
  <2> QED
    BY <2>1 DEF g
<1>6. S = CHOOSE h : Is(h)
  BY DEF Stride, n, L
<1>7. Is(S)
  <2> HIDE DEF Is, S
  <2> QED
    BY <1>5, <1>6
<1> HIDE DEF S, g
<1>8. /\ S[n + 1] = 1
      /\ \A k \in 1 .. n : S[k] = L(k) * S[k + 1]
  BY <1>1, <1>7
<1> HIDE DEF Is
<1>9. \A k \in 1 .. n + 1 : S[k] \in Pos
  <2> DEFINE T == {i \in 0 .. n : S[n + 1 - i] \in Pos}
  <2>1. 0 \in T
    BY <1>1, <1>8
  <2>2. ASSUME NEW i \in 1 .. n, i - 1 \in T PROVE i \in T
    <3>1. n + 1 - i \in 1 .. n /\ (n + 1 - i) + 1 = n + 1 - (i - 1)
      BY <1>1
    <3>2. S[n + 1 - i] = L(n + 1 - i) * S[n + 1 - (i - 1)]
      BY <1>8, <3>1
    <3>3. L(n + 1 - i) \in Pos /\ S[n + 1 - (i - 1)] \in Pos
      BY <1>1, <2>2, <3>1
    <3> QED
      BY <3>2, <3>3
  <2> HIDE DEF T
  <2>3. 0 .. n \subseteq T
    BY <1>1, <2>1, <2>2, InductionUpTo
  <2>4. \A k \in 1 .. n + 1 : n + 1 - k \in 0 .. n /\ n + 1 - (n + 1 - k) = k
    BY <1>1
  <2> QED
    BY <2>3, <2>4 DEF T
<1>10. \A k \in 1 .. n + 1 : S[k] =< S[1]
  <2> DEFINE T == {i \in 0 .. n : S[i + 1] =< S[1]}
  <2>1. 0 \in T
    BY <1>1, <1>9
  <2>2. ASSUME NEW i \in 1 .. n, i - 1 \in T PROVE i \in T
    <3>1. S[i] = L(i) * S[i + 1] /\ L(i) \in Pos /\ S[i + 1] \in Pos /\ S[i] =< S[1] /\ S[1] \in Pos
      BY <1>1, <1>8, <1>9, <2>2
    <3>2. \A a, b \in Pos : b =< a * b
      OBVIOUS
    <3>3. S[i + 1] =< S[i]
      BY <3>1, <3>2
    <3> QED
      BY <1>1, <3>1, <3>3
  <2> HIDE DEF T
  <2>3. 0 .. n \subseteq T
    BY <1>1, <2>1, <2>2, InductionUpTo
  <2>4. \A k \in 1 .. n + 1 : k - 1 \in 0 .. n /\ (k - 1) + 1 = k
    BY <1>1
  <2> QED
    BY <2>3, <2>4 DEF T
<1> QED
  BY <1>8, <1>9, <1>10 DEF n, L, S

(* Every value of every key is in some combination.                        *)
LEMMA ProductTriesAll ==
  ASSUME NEW known \in Learnable, NEW t \in Tables, NEW g \in KeySet(t),
         NEW m \in 1 .. Len(Options(known, g))
  PROVE  \E c \in 1 .. Stride(known, t)[1] : Product(known, t, c - 1)[g] = Options(known, g)[m]
<1> DEFINE n == Len(KeysOf[t])
           S == Stride(known, t)
           l == Len(Options(known, g))
           k == CHOOSE k \in DOMAIN KeysOf[t] : KeysOf[t][k] = g
<1>1. k \in 1 .. n /\ KeysOf[t][k] = g /\ n \in Nat
  BY KeysFacts DEF KeySet
<1>2. l \in Nat \ {0}
  BY KeysFacts, OptionsFacts
<1>3. /\ S[k] = l * S[k + 1] /\ S[k] =< S[1] /\ S[k] \in Nat \ {0} /\ S[1] \in Nat \ {0}
      /\ S[k + 1] \in Nat \ {0}
  <2>1. k + 1 \in 1 .. n + 1 /\ k \in 1 .. n + 1 /\ 1 \in 1 .. n + 1
    BY <1>1
  <2> HIDE DEF k
  <2> QED
    BY <1>1, <2>1, StrideFacts
<1> DEFINE d == S[k + 1]
           c == (m - 1) * d + 1
<1>4. Product(known, t, c - 1)[g] = Options(known, g)[(((c - 1) \div d) % l) + 1]
  BY DEF Product
<1> HIDE DEF k, S, n, l, d
<1>5. d \in Nat \ {0} /\ l * d =< S[1] /\ m \in 1 .. l
  BY <1>3 DEF d, l
<1>6. (m - 1) * d \in Nat /\ (m - 1) * d + d = m * d /\ m * d =< l * d
  BY <1>2, <1>5
<1>7. c \in 1 .. S[1] /\ c - 1 = (m - 1) * d
  BY <1>2, <1>3, <1>5, <1>6
<1> HIDE DEF c
<1>8. \A a \in Nat, b \in Nat \ {0} : (a * b) \div b = a
  OBVIOUS
<1>9. (c - 1) \div d = m - 1
  BY <1>5, <1>7, <1>8
<1>10. (m - 1) % l = m - 1
  BY <1>2, <1>5
<1>11. (((c - 1) \div d) % l) + 1 = m
  BY <1>5, <1>9, <1>10
<1> QED
  BY <1>4, <1>7, <1>11 DEF S

-----------------------------------------------------------------------------
(* The rules of a seed as a set.                                           *)
FirstRule(s) == Rule("set_table", s, 0, 0, <<>>)
SetTableRules(s, ts) == {Rule("set_table", s, i - 1, 0, <<>>) : i \in 1 .. Len(ts)}
RandomRules(s, ts) == {Rule("move_back", s, i - 1, 0, RandomValues(ts[i])) : i \in 1 .. Len(ts)}
TableFixedRules(s, i, t, known) ==
  {Rule("move_back", s, i, c, Product(known, t, c - 1)) : c \in 1 .. Stride(known, t)[1]}
AllFixedRules(s, ts, known) ==
  IF \A f \in Fields : known[f] = <<>> THEN {}
  ELSE UNION {TableFixedRules(s, i - 1, ts[i], known) : i \in 1 .. Len(ts)}
RulesFor(s, ts, known) ==
  SetTableRules(s, ts) \cup RandomRules(s, ts) \cup AllFixedRules(s, ts, known)

Elements(l) == {l[i] : i \in 1 .. Len(l)}

(* No seed has another rule of te_set_table_seed before its first one.     *)
Ordered(l) == \A j \in 1 .. Len(l) :
                l[j].to = "set_table" => \E k \in 1 .. j : l[k] = FirstRule(l[j].seed)

LEMMA ConcatElements ==
  ASSUME NEW R, NEW l \in Seq(R), NEW m \in Seq(R)
  PROVE  /\ l \o m \in Seq(R)
         /\ Elements(l \o m) = Elements(l) \cup Elements(m)
         /\ Ordered(l) /\ Ordered(m) => Ordered(l \o m)
<1> DEFINE c == l \o m
<1>1. /\ c \in Seq(R) /\ Len(l) \in Nat /\ Len(m) \in Nat /\ Len(c) = Len(l) + Len(m)
      /\ \A i \in 1 .. Len(l) : c[i] = l[i]
      /\ \A i \in 1 .. Len(m) : c[Len(l) + i] = m[i]
  OBVIOUS
<1>2. \A i \in 1 .. Len(c) : \/ i \in 1 .. Len(l)
                             \/ i - Len(l) \in 1 .. Len(m) /\ i = Len(l) + (i - Len(l))
  BY <1>1
<1>3. /\ \A i \in 1 .. Len(l) : i \in 1 .. Len(c)
      /\ \A i \in 1 .. Len(m) : Len(l) + i \in 1 .. Len(c)
  BY <1>1
<1> HIDE DEF c
<1>4. Elements(c) = Elements(l) \cup Elements(m)
  <2>1. ASSUME NEW x \in Elements(c) PROVE x \in Elements(l) \cup Elements(m)
    <3>1. PICK i \in 1 .. Len(c) : x = c[i]
      BY DEF Elements
    <3> QED
      BY <1>1, <1>2, <3>1 DEF Elements
  <2>2. ASSUME NEW x \in Elements(l) \cup Elements(m) PROVE x \in Elements(c)
    BY <1>1, <1>3 DEF Elements
  <2> QED
    BY <2>1, <2>2
<1>5. ASSUME Ordered(l), Ordered(m) PROVE Ordered(c)
  <2> SUFFICES ASSUME NEW j \in 1 .. Len(c), c[j].to = "set_table"
               PROVE  \E k \in 1 .. j : c[k] = FirstRule(c[j].seed)
    BY DEF Ordered
  <2>1. CASE j \in 1 .. Len(l)
    <3>1. PICK k \in 1 .. j : l[k] = FirstRule(l[j].seed)
      BY <1>1, <1>5, <2>1 DEF Ordered
    <3>2. k \in 1 .. Len(l)
      BY <1>1, <2>1
    <3> QED
      BY <1>1, <2>1, <3>1, <3>2
  <2>2. CASE j - Len(l) \in 1 .. Len(m) /\ j = Len(l) + (j - Len(l))
    <3>1. c[j] = m[j - Len(l)]
      BY <1>1, <2>2
    <3>2. PICK k \in 1 .. j - Len(l) : m[k] = FirstRule(c[j].seed)
      BY <1>5, <2>2, <3>1 DEF Ordered
    <3>3. k \in 1 .. Len(m) /\ Len(l) + k \in 1 .. j
      BY <1>1, <2>2
    <3> QED
      BY <1>1, <3>2, <3>3
  <2> QED
    BY <1>2, <2>1, <2>2
<1> QED
  BY <1>1, <1>4, <1>5 DEF c

(* A loop that appends the sequences of E to what it has so far.           *)
Appends(u, n, E) == u = [i \in 0 .. n |-> IF i = 0 THEN <<>> ELSE u[i - 1] \o E[i]]

LEMMA AppendsExists ==
  ASSUME NEW n \in Nat, NEW R, NEW E \in [1 .. n -> Seq(R)]
  PROVE  \E u : Appends(u, n, E)
<1> DEFINE V == Seq(R)
           Step == [i \in 1 .. n |-> [l \in V |-> l \o E[i]]]
<1>1. <<>> \in V /\ \A i \in 1 .. n : \A l \in V : l \o E[i] \in V
  OBVIOUS
<1>2. IsStep(Step, n, V)
  <2> HIDE DEF V
  <2> QED
    BY <1>1 DEF IsStep
<1>3. \E f : IsRecursive(f, n, V, <<>>, Step)
  <2> HIDE DEF V, Step
  <2> QED
    BY <1>1, <1>2, RecursionUpTo
<1>4. PICK f : /\ f \in [0 .. n -> V] /\ f[0] = <<>>
               /\ \A i \in 1 .. n : f[i] = Step[i][f[i - 1]]
  <2> HIDE DEF Step, V
  <2> QED
    BY <1>3 DEF IsRecursive
<1>5. ASSUME NEW i \in 0 .. n
      PROVE  f[i] = IF i = 0 THEN <<>> ELSE f[i - 1] \o E[i]
  <2>1. CASE i = 0
    BY <1>4, <2>1
  <2>2. CASE i # 0
    <3>1. i \in 1 .. n /\ f[i - 1] \in V
      BY <1>4, <2>2
    <3> HIDE DEF V
    <3> QED
      BY <1>4, <2>2, <3>1
  <2> QED
    BY <2>1, <2>2
<1> HIDE DEF V, Step
<1> QED
  BY <1>4, <1>5 DEF Appends

LEMMA AppendsAll ==
  ASSUME NEW n \in Nat, NEW R, NEW E \in [1 .. n -> Seq(R)], NEW u, Appends(u, n, E)
  PROVE  /\ u[n] \in Seq(R)
         /\ Elements(u[n]) = UNION {Elements(E[i]) : i \in 1 .. n}
         /\ (\A i \in 1 .. n : Ordered(E[i])) => Ordered(u[n])
<1> DEFINE Upto(i) == UNION {Elements(E[j]) : j \in 1 .. i}
           Good == \A i \in 1 .. n : Ordered(E[i])
           T == {i \in 0 .. n : /\ u[i] \in Seq(R) /\ Elements(u[i]) = Upto(i)
                                /\ Good => Ordered(u[i])}
<1>1. u[0] = <<>> /\ \A i \in 1 .. n : u[i] = u[i - 1] \o E[i]
  <2> DEFINE G(i) == IF i = 0 THEN <<>> ELSE u[i - 1] \o E[i]
  <2>1. u = [i \in 0 .. n |-> G(i)]
    BY DEF Appends
  <2>2. G(0) = <<>> /\ \A i \in 1 .. n : i \in 0 .. n /\ G(i) = u[i - 1] \o E[i]
    OBVIOUS
  <2> HIDE DEF G
  <2> QED
    BY <2>1, <2>2, 0 \in 0 .. n
<1>2. Upto(0) = {}
  OBVIOUS
<1>3. ASSUME NEW i \in 1 .. n PROVE Upto(i) = Upto(i - 1) \cup Elements(E[i])
  <2>1. 1 .. i = (1 .. i - 1) \cup {i}
    OBVIOUS
  <2> QED
    BY <2>1, Zenon
<1> HIDE DEF Upto
<1>4. 0 \in T
  <2>1. <<>> \in Seq(R) /\ Elements(<<>>) = {} /\ Ordered(<<>>)
    BY DEF Elements, Ordered
  <2>2. u[0] \in Seq(R) /\ Elements(u[0]) = Upto(0) /\ Ordered(u[0])
    BY <1>1, <1>2, <2>1
  <2> QED
    BY <2>2
<1>5. ASSUME NEW i \in 1 .. n, i - 1 \in T PROVE i \in T
  <2>1. /\ u[i - 1] \in Seq(R) /\ Elements(u[i - 1]) = Upto(i - 1) /\ i \in 0 .. n
        /\ Good => Ordered(u[i - 1])
    BY <1>5
  <2>2. /\ u[i - 1] \o E[i] \in Seq(R)
        /\ Elements(u[i - 1] \o E[i]) = Elements(u[i - 1]) \cup Elements(E[i])
        /\ Good => Ordered(u[i - 1] \o E[i])
    BY <2>1, ConcatElements
  <2>3. u[i] \in Seq(R) /\ Elements(u[i]) = Upto(i) /\ (Good => Ordered(u[i]))
    BY <1>1, <1>3, <2>1, <2>2
  <2> QED
    BY <2>1, <2>3
<1> HIDE DEF T
<1>6. 0 .. n \subseteq T
  BY <1>4, <1>5, InductionUpTo
<1> QED
  BY <1>6, n \in 0 .. n DEF T, Upto

(* The tables of a seed are tables whose keys its packet carries.          *)
LEMMA TablesOfPath ==
  ASSUME NEW p
  PROVE  /\ SeedToTable(p) \in Seq(Tables) /\ Len(SeedToTable(p)) \in Nat
         /\ \A i \in 1 .. Len(SeedToTable(p)) :
              /\ SeedToTable(p)[i] \in Tables
              /\ \A f \in KeySet(SeedToTable(p)[i]) : HeaderOf[f] \in p
<1> DEFINE n == Len(TableOrder)
           Within(t) == \A f \in KeySet(t) : HeaderOf[f] \in p
           Is(u) == u = [i \in 0 .. n |->
                           IF i = 0 THEN <<>>
                           ELSE IF Within(TableOrder[i]) THEN Append(u[i - 1], TableOrder[i])
                           ELSE u[i - 1]]
           W == {t \in Tables : Within(t)}
           V == Seq(W)
           Step == [i \in 1 .. n |-> [l \in V |->
                      IF Within(TableOrder[i]) THEN Append(l, TableOrder[i]) ELSE l]]
           U == CHOOSE u : Is(u)
<1>1. n \in Nat /\ \A i \in 1 .. n : TableOrder[i] \in Tables
  BY MutationAssumption
<1>2. SeedToTable(p) = U[n]
  BY DEF SeedToTable
<1> HIDE DEF n
<1>3. IsStep(Step, n, V)
  <2> SUFFICES ASSUME NEW i \in 1 .. n, NEW l \in V
               PROVE  (IF Within(TableOrder[i]) THEN Append(l, TableOrder[i]) ELSE l) \in V
    BY DEF IsStep
  <2>1. CASE Within(TableOrder[i])
    <3>1. TableOrder[i] \in W
      BY <1>1, <2>1
    <3> HIDE DEF W, Within
    <3> QED
      BY <2>1, <3>1
  <2>2. CASE ~ Within(TableOrder[i])
    BY <2>2
  <2> QED
    BY <2>1, <2>2
<1>4. \E f : IsRecursive(f, n, V, <<>>, Step)
  <2>1. <<>> \in V
    OBVIOUS
  <2> HIDE DEF V, Step
  <2> QED
    BY <1>1, <1>3, <2>1, RecursionUpTo
<1>5. \E f : Is(f)
  <2>1. PICK f : /\ f \in [0 .. n -> V] /\ f[0] = <<>>
                 /\ \A i \in 1 .. n : f[i] = Step[i][f[i - 1]]
    <3> HIDE DEF Step, V
    <3> QED
      BY <1>4 DEF IsRecursive
  <2>2. ASSUME NEW i \in 0 .. n
        PROVE  f[i] = IF i = 0 THEN <<>>
                      ELSE IF Within(TableOrder[i]) THEN Append(f[i - 1], TableOrder[i])
                      ELSE f[i - 1]
    <3>1. CASE i = 0
      BY <2>1, <3>1
    <3>2. CASE i # 0
      <4>1. i \in 1 .. n /\ f[i - 1] \in V
        BY <1>1, <2>1, <3>2
      <4> HIDE DEF V, Within
      <4> QED
        BY <2>1, <3>2, <4>1
    <3> QED
      BY <3>1, <3>2
  <2> HIDE DEF V, Within
  <2> QED
    BY <2>1, <2>2
<1>6. Is(U)
  <2> HIDE DEF Is
  <2> QED
    BY <1>5
<1> HIDE DEF U
<1>a. /\ U[0] = <<>>
      /\ \A i \in 1 .. n : U[i] = IF Within(TableOrder[i]) THEN Append(U[i - 1], TableOrder[i])
                                  ELSE U[i - 1]
  <2> DEFINE E(i) == IF i = 0 THEN <<>>
                     ELSE IF Within(TableOrder[i]) THEN Append(U[i - 1], TableOrder[i])
                     ELSE U[i - 1]
  <2>1. U = [i \in 0 .. n |-> E(i)]
    BY <1>6
  <2>2. \A i \in 1 .. n : i \in 0 .. n /\ i # 0
    BY <1>1
  <2>3. /\ E(0) = <<>>
        /\ \A i \in 1 .. n : E(i) = IF Within(TableOrder[i]) THEN Append(U[i - 1], TableOrder[i])
                                    ELSE U[i - 1]
    <3> HIDE DEF Within
    <3> QED
      BY <2>2
  <2> HIDE DEF E
  <2>4. U[0] = E(0) /\ \A i \in 1 .. n : U[i] = E(i)
    BY <1>1, <2>1, <2>2, 0 \in 0 .. n
  <2> HIDE DEF Within
  <2> QED
    BY <2>3, <2>4
<1> HIDE DEF Is
<1>7. U[n] \in V
  <2> DEFINE T == {i \in 0 .. n : U[i] \in V}
  <2>0. <<>> \in V
    OBVIOUS
  <2>1. 0 \in T
    <3> HIDE DEF V
    <3> QED
      BY <1>1, <1>a, <2>0
  <2>2. ASSUME NEW i \in 1 .. n, i - 1 \in T PROVE i \in T
    <3> DEFINE l == U[i - 1]
               t == TableOrder[i]
    <3>1. l \in V /\ i \in 0 .. n
      BY <1>1, <2>2
    <3>2. CASE Within(t)
      <4>1. t \in W /\ U[i] = Append(l, t)
        BY <1>1, <1>a, <3>2
      <4> HIDE DEF W, Within, l, t
      <4>2. U[i] \in V
        BY <3>1, <4>1
      <4> QED
        BY <3>1, <4>2
    <3>3. CASE ~ Within(t)
      <4>1. U[i] = l
        BY <1>a, <3>3
      <4> QED
        BY <3>1, <4>1
    <3> QED
      BY <3>2, <3>3
  <2> HIDE DEF T
  <2>3. 0 .. n \subseteq T
    BY <1>1, <2>1, <2>2, InductionUpTo
  <2> QED
    BY <1>1, <2>3, n \in 0 .. n DEF T
<1>8. \A t \in W : t \in Tables /\ \A f \in KeySet(t) : HeaderOf[f] \in p
  OBVIOUS
<1>9. U[n] \in Seq(Tables) /\ Len(U[n]) \in Nat /\ \A i \in 1 .. Len(U[n]) : U[n][i] \in W
  <2>1. W \subseteq Tables
    OBVIOUS
  <2> HIDE DEF W
  <2> QED
    BY <1>7, <2>1
<1> HIDE DEF W
<1> QED
  BY <1>2, <1>8, <1>9

(* add_fixed_rules goes through the tables and leaves no combination out.  *)
LEMMA FixedRulesAre ==
  ASSUME NEW s, NEW ts \in Seq(Tables), NEW known \in Learnable
  PROVE  /\ FixedRules(s, ts, known) \in Seq(AllFixedRules(s, ts, known))
         /\ Elements(FixedRules(s, ts, known)) = AllFixedRules(s, ts, known)
<1> DEFINE n == Len(ts)
           E(i) == FixedRulesOfTable(s, i - 1, ts[i], known)
           F(i) == TableFixedRules(s, i - 1, ts[i], known)
           Is(u) == u = [i \in 0 .. n |-> IF i = 0 THEN <<>> ELSE u[i - 1] \o E(i)]
           R == UNION {F(i) : i \in 1 .. n}
           Es == [i \in 1 .. n |-> E(i)]
           U == CHOOSE u : Is(u)
<1>1. n \in Nat /\ \A i \in 1 .. n : ts[i] \in Tables
  OBVIOUS
<1>2. /\ FixedRules(s, ts, known) = IF \A f \in Fields : known[f] = <<>> THEN <<>> ELSE U[n]
      /\ AllFixedRules(s, ts, known) = IF \A f \in Fields : known[f] = <<>> THEN {} ELSE R
  BY DEF FixedRules, AllFixedRules
<1>3. ASSUME NEW i \in 1 .. n PROVE E(i) \in Seq(R) /\ Elements(E(i)) = F(i)
  <2> DEFINE c == Stride(known, ts[i])[1]
             e(k) == Rule("move_back", s, i - 1, k, Product(known, ts[i], k - 1))
  <2>1. c \in Nat
    BY <1>1, KeysFacts, StrideFacts
  <2>2. E(i) = [k \in 1 .. c |-> e(k)] /\ F(i) = {e(k) : k \in 1 .. c}
    BY DEF FixedRulesOfTable, TableFixedRules
  <2>3. F(i) \subseteq R
    OBVIOUS
  <2> HIDE DEF c, e, E, F, R
  <2>4. \A k \in 1 .. c : e(k) \in R
    BY <2>2, <2>3
  <2>5. E(i) \in Seq(R) /\ Len(E(i)) = c /\ \A k \in 1 .. c : E(i)[k] = e(k)
    BY <2>1, <2>2, <2>4
  <2> QED
    BY <2>2, <2>5 DEF Elements
<1> HIDE DEF n, E, F
<1>4. Es \in [1 .. n -> Seq(R)] /\ \A i \in 1 .. n : Es[i] = E(i) /\ Elements(Es[i]) = F(i)
  BY <1>3
<1>5. \A u : Appends(u, n, Es) <=> Is(u)
  <2> SUFFICES ASSUME NEW u PROVE Appends(u, n, Es) <=> Is(u)
    OBVIOUS
  <2> DEFINE G(i) == IF i = 0 THEN <<>> ELSE u[i - 1] \o Es[i]
             H(i) == IF i = 0 THEN <<>> ELSE u[i - 1] \o E(i)
  <2>1. ASSUME NEW i \in 0 .. n PROVE G(i) = H(i)
    <3>1. i = 0 \/ i \in 1 .. n
      BY <1>1
    <3> HIDE DEF Es
    <3> QED
      BY <1>4, <3>1
  <2>2. (Appends(u, n, Es) <=> u = [i \in 0 .. n |-> G(i)]) /\ (Is(u) <=> u = [i \in 0 .. n |-> H(i)])
    BY DEF Appends
  <2> HIDE DEF G, H, Is
  <2>3. [i \in 0 .. n |-> G(i)] = [i \in 0 .. n |-> H(i)]
    BY <2>1
  <2> QED
    BY <2>2, <2>3
<1> HIDE DEF Es, Is, R
<1>6. Appends(U, n, Es)
  BY <1>1, <1>4, <1>5, AppendsExists
<1> HIDE DEF U
<1>7. U[n] \in Seq(R) /\ Elements(U[n]) = UNION {Elements(Es[i]) : i \in 1 .. n}
  BY <1>1, <1>4, <1>6, AppendsAll
<1>8. UNION {Elements(Es[i]) : i \in 1 .. n} = R
  BY <1>4 DEF R
<1>9. <<>> \in Seq({}) /\ Elements(<<>>) = {}
  BY DEF Elements
<1> QED
  BY <1>2, <1>7, <1>8, <1>9

(* add_parser_path and its two helpers: exactly these rules, the first one *)
(* first.                                                                  *)
LEMMA RulesOfSeedAre ==
  ASSUME NEW s, NEW p, NEW known \in Learnable
  PROVE  LET R == RulesFor(s, SeedToTable(p), known) IN
         /\ RulesOfSeed(s, p, known) \in Seq(R)
         /\ Elements(RulesOfSeed(s, p, known)) = R
         /\ Ordered(RulesOfSeed(s, p, known))
<1> DEFINE ts == SeedToTable(p)
           n == Len(ts)
           R == RulesFor(s, ts, known)
           a(i) == Rule("set_table", s, i - 1, 0, <<>>)
           b(i) == Rule("move_back", s, i - 1, 0, RandomValues(ts[i]))
           A == [i \in 1 .. n |-> a(i)]
           B == [i \in 1 .. n |-> b(i)]
           C == FixedRules(s, ts, known)
<1>1. ts \in Seq(Tables) /\ n \in Nat
  BY TablesOfPath
<1>2. RulesOfSeed(s, p, known) = (A \o B) \o C
  BY DEF RulesOfSeed, MutationRules
<1>3. /\ R = ({a(i) : i \in 1 .. n} \cup {b(i) : i \in 1 .. n}) \cup AllFixedRules(s, ts, known)
  BY DEF RulesFor, SetTableRules, RandomRules
<1>4. C \in Seq(AllFixedRules(s, ts, known)) /\ Elements(C) = AllFixedRules(s, ts, known)
  BY <1>1, FixedRulesAre
<1>5. \A e \in AllFixedRules(s, ts, known) : e.to = "move_back"
  BY DEF AllFixedRules, TableFixedRules, Rule
<1>6. \A i \in 1 .. n : a(i).seed = s /\ (i = 1 => a(i) = FirstRule(s)) /\ b(i).to = "move_back"
  BY DEF Rule, FirstRule
<1> HIDE DEF ts, n, R, a, b, C
<1>7. /\ A \in Seq(R) /\ B \in Seq(R) /\ C \in Seq(R)
      /\ Elements(A) = {a(i) : i \in 1 .. n} /\ Elements(B) = {b(i) : i \in 1 .. n}
  <2>1. \A i \in 1 .. n : a(i) \in R /\ b(i) \in R
    BY <1>3
  <2>2. /\ A \in Seq(R) /\ Len(A) = n /\ \A i \in 1 .. n : A[i] = a(i)
        /\ B \in Seq(R) /\ Len(B) = n /\ \A i \in 1 .. n : B[i] = b(i)
    BY <1>1, <2>1
  <2>3. AllFixedRules(s, ts, known) \subseteq R
    BY <1>3
  <2> HIDE DEF A, B
  <2>4. C \in Seq(R)
    BY <1>4, <2>3
  <2>5. Elements(A) = {a(i) : i \in 1 .. n} /\ Elements(B) = {b(i) : i \in 1 .. n}
    BY <2>2 DEF Elements
  <2> QED
    BY <2>2, <2>4, <2>5
<1>8. Ordered(A)
  <2> SUFFICES ASSUME NEW j \in 1 .. n PROVE \E k \in 1 .. j : A[k] = FirstRule(A[j].seed)
    BY <1>1 DEF Ordered
  <2>1. 1 \in 1 .. n /\ 1 \in 1 .. j
    BY <1>1
  <2>2. A[1] = FirstRule(s) /\ A[j].seed = s
    BY <1>6, <2>1
  <2> QED
    BY <2>1, <2>2
<1>9. Ordered(B)
  BY <1>1, <1>6 DEF Ordered
<1>10. Ordered(C)
  <2>1. \A j \in 1 .. Len(C) : C[j] \in AllFixedRules(s, ts, known)
    BY <1>4 DEF Elements
  <2> QED
    BY <1>5, <2>1 DEF Ordered
<1> HIDE DEF A, B
<1>11. A \o B \in Seq(R) /\ Elements(A \o B) = Elements(A) \cup Elements(B) /\ Ordered(A \o B)
  BY <1>7, <1>8, <1>9, ConcatElements
<1>12. /\ (A \o B) \o C \in Seq(R) /\ Ordered((A \o B) \o C)
       /\ Elements((A \o B) \o C) = (Elements(A) \cup Elements(B)) \cup Elements(C)
  <2> DEFINE D == A \o B
  <2>1. D \in Seq(R) /\ Elements(D) = Elements(A) \cup Elements(B) /\ Ordered(D)
    BY <1>11
  <2> HIDE DEF D
  <2>2. D \o C \in Seq(R) /\ Ordered(D \o C) /\ Elements(D \o C) = Elements(D) \cup Elements(C)
    BY <1>7, <1>10, <2>1, ConcatElements
  <2> QED
    BY <2>1, <2>2 DEF D
<1> QED
  BY <1>2, <1>3, <1>4, <1>7, <1>12 DEF R, ts

(* The end of add_initial_seed_packets: the rules of all initial seeds.    *)
LEMMA InitialRulesAre ==
  LET R == UNION {RulesFor(i - 1, SeedToTable(InitialPaths[i]), InitialLearnt) :
                    i \in 1 .. Len(InitialPaths)}
  IN  /\ InitialRules \in Seq(R)
      /\ Elements(InitialRules) = R
      /\ Ordered(InitialRules)
<1> DEFINE n == Len(InitialPaths)
           E(i) == RulesOfSeed(i - 1, InitialPaths[i], InitialLearnt)
           F(i) == RulesFor(i - 1, SeedToTable(InitialPaths[i]), InitialLearnt)
           Is(u) == u = [i \in 0 .. n |-> IF i = 0 THEN <<>> ELSE u[i - 1] \o E(i)]
           R == UNION {F(i) : i \in 1 .. n}
           Es == [i \in 1 .. n |-> E(i)]
           U == CHOOSE u : Is(u)
<1>1. n \in Nat /\ InitialLearnt \in Learnable
  BY MutationAssumption DEF Learnable
<1>2. InitialRules = U[n]
  BY DEF InitialRules
<1>3. \A i \in 1 .. n : /\ E(i) \in Seq(F(i)) /\ Elements(E(i)) = F(i)
                        /\ Ordered(E(i))
  BY <1>1, RulesOfSeedAre
<1> HIDE DEF n, E, F
<1>4. ASSUME NEW i \in 1 .. n PROVE E(i) \in Seq(R)
  <2>1. F(i) \subseteq R
    OBVIOUS
  <2> HIDE DEF R
  <2> QED
    BY <1>3, <2>1
<1>5. /\ Es \in [1 .. n -> Seq(R)]
      /\ \A i \in 1 .. n : Es[i] = E(i) /\ Elements(Es[i]) = F(i) /\ Ordered(Es[i])
  BY <1>3, <1>4
<1>6. \A u : Appends(u, n, Es) <=> Is(u)
  <2> SUFFICES ASSUME NEW u PROVE Appends(u, n, Es) <=> Is(u)
    OBVIOUS
  <2> DEFINE G(i) == IF i = 0 THEN <<>> ELSE u[i - 1] \o Es[i]
             H(i) == IF i = 0 THEN <<>> ELSE u[i - 1] \o E(i)
  <2>1. ASSUME NEW i \in 0 .. n PROVE G(i) = H(i)
    <3>1. i = 0 \/ i \in 1 .. n
      BY <1>1
    <3> HIDE DEF Es
    <3> QED
      BY <1>5, <3>1
  <2>2. (Appends(u, n, Es) <=> u = [i \in 0 .. n |-> G(i)]) /\ (Is(u) <=> u = [i \in 0 .. n |-> H(i)])
    BY DEF Appends
  <2> HIDE DEF G, H, Is
  <2>3. [i \in 0 .. n |-> G(i)] = [i \in 0 .. n |-> H(i)]
    BY <2>1
  <2> QED
    BY <2>2, <2>3
<1> HIDE DEF Es, Is, R
<1>7. Appends(U, n, Es)
  BY <1>1, <1>5, <1>6, AppendsExists
<1> HIDE DEF U
<1>8. /\ U[n] \in Seq(R) /\ Elements(U[n]) = UNION {Elements(Es[i]) : i \in 1 .. n}
      /\ Ordered(U[n])
  BY <1>1, <1>5, <1>7, AppendsAll
<1>9. UNION {Elements(Es[i]) : i \in 1 .. n} = R
  BY <1>5 DEF R
<1> QED
  BY <1>2, <1>8, <1>9 DEF R, F, n

-----------------------------------------------------------------------------
(* What a rule of a seed looks like, and which ones there are.             *)
Shape(r, ts, known) ==
  /\ r.to \in {"set_table", "move_back"}
  /\ r.table \in 0 .. Len(ts) - 1 /\ r.combination \in Nat
  /\ r.to = "set_table" => r = Rule("set_table", r.seed, r.table, 0, <<>>)
  /\ r.to = "move_back" =>
       r.vals = IF r.combination = 0 THEN RandomValues(ts[r.table + 1])
                ELSE Product(known, ts[r.table + 1], r.combination - 1)

LEMMA RuleShape ==
  ASSUME NEW s, NEW ts \in Seq(Tables), NEW known \in Learnable, NEW r \in RulesFor(s, ts, known)
  PROVE  r.seed = s /\ Shape(r, ts, known)
<1>1. CASE r \in SetTableRules(s, ts)
  BY <1>1 DEF SetTableRules, Rule, Shape
<1>2. CASE r \in RandomRules(s, ts)
  BY <1>2 DEF RandomRules, Rule, Shape
<1>3. CASE r \in AllFixedRules(s, ts, known)
  <2>1. PICK i \in 1 .. Len(ts) : r \in TableFixedRules(s, i - 1, ts[i], known)
    BY <1>3 DEF AllFixedRules
  <2>2. Stride(known, ts[i])[1] \in Nat
    BY KeysFacts, StrideFacts
  <2>3. PICK c \in 1 .. Stride(known, ts[i])[1] :
          r = Rule("move_back", s, i - 1, c, Product(known, ts[i], c - 1))
    BY <2>1 DEF TableFixedRules
  <2>4. c \in Nat /\ c # 0
    BY <2>2
  <2> QED
    BY <2>3, <2>4 DEF Rule, Shape
<1> QED
  BY <1>1, <1>2, <1>3 DEF RulesFor

LEMMA RulesThere ==
  ASSUME NEW s, NEW ts \in Seq(Tables), NEW known \in Learnable, NEW i \in 0 .. Len(ts) - 1
  PROVE  /\ FirstRule(s) \in RulesFor(s, ts, known)
         /\ Rule("move_back", s, i, 0, RandomValues(ts[i + 1])) \in RulesFor(s, ts, known)
         /\ (\E f \in Fields : known[f] # <<>>) =>
              \A c \in 1 .. Stride(known, ts[i + 1])[1] :
                Rule("move_back", s, i, c, Product(known, ts[i + 1], c - 1))
                  \in RulesFor(s, ts, known)
<1>1. /\ Len(ts) \in Nat /\ i + 1 \in 1 .. Len(ts) /\ (i + 1) - 1 = i
      /\ 1 \in 1 .. Len(ts) /\ 1 - 1 = 0
  OBVIOUS
<1>2. FirstRule(s) \in SetTableRules(s, ts)
  BY <1>1 DEF FirstRule, SetTableRules
<1>3. Rule("move_back", s, i, 0, RandomValues(ts[i + 1])) \in RandomRules(s, ts)
  BY <1>1 DEF RandomRules
<1>4. ASSUME \E f \in Fields : known[f] # <<>>, NEW c \in 1 .. Stride(known, ts[i + 1])[1]
      PROVE  Rule("move_back", s, i, c, Product(known, ts[i + 1], c - 1))
               \in AllFixedRules(s, ts, known)
  <2>1. Rule("move_back", s, i, c, Product(known, ts[i + 1], c - 1))
          \in TableFixedRules(s, (i + 1) - 1, ts[i + 1], known)
    BY <1>1 DEF TableFixedRules
  <2> QED
    BY <1>1, <1>4, <2>1 DEF AllFixedRules
<1> QED
  BY <1>2, <1>3, <1>4 DEF RulesFor

-----------------------------------------------------------------------------
(* The inductive invariant: nothing is installed or waits that is no rule  *)
(* of some seed, and a rule of a seed is installed or waits unless it did  *)
(* not fit or found its table full; a seed's first rule goes ahead of its  *)
(* others, so that no seed has entries in te_set_table_seed without it.    *)
RulesWanted == UNION {RulesFor(s, TablesOf(s), basis[s]) : s \in Seeds}

Fits(e) == e.table =< TopTable /\ e.combination =< TopCombination
Size(to) == IF to = "set_table" THEN SetTableSize ELSE MoveBackSize
Room(to) == Cardinality({d \in installed : d.to = to}) < Size(to)

KnownInv ==
  /\ learnt \in Learnable /\ rules \in 0 .. MaxRules
  /\ Seeds = 0 .. Cardinality(Seeds) - 1 /\ Cardinality(Seeds) \in Nat
  /\ DOMAIN basis = Seeds /\ \A s \in Seeds : basis[s] \in Learnable

SelInv ==
  /\ KnownInv
  /\ todo \in Seq(RulesWanted)
  /\ installed \subseteq RulesWanted /\ IsFiniteSet(installed)
  /\ \A e \in installed : Fits(e)
  /\ \A r \in RulesWanted : \/ r \in installed \/ ~ Fits(r) \/ ~ Room(r.to)
                            \/ \E j \in 1 .. Len(todo) : todo[j] = r
  /\ \A e \in installed : e.to = "set_table" => FirstRule(e.seed) \in installed
  /\ \A j \in 1 .. Len(todo) : todo[j].to = "set_table" =>
       \/ FirstRule(todo[j].seed) \in installed \/ ~ Room("set_table")
       \/ \E k \in 1 .. j : todo[k] = FirstRule(todo[j].seed)

(* A wanted rule is one of a seed there is.                                *)
LEMMA WantedFacts ==
  ASSUME KnownInv, NEW r \in RulesWanted
  PROVE  /\ r.seed \in Seeds
         /\ Shape(r, TablesOf(r.seed), basis[r.seed])
         /\ TablesOf(r.seed) \in Seq(Tables)
<1>1. PICK s \in Seeds : r \in RulesFor(s, TablesOf(s), basis[s])
  BY DEF RulesWanted
<1>2. TablesOf(s) \in Seq(Tables) /\ basis[s] \in Learnable
  BY TablesOfPath DEF TablesOf, KnownInv
<1> QED
  BY <1>1, <1>2, RuleShape

LEMMA FirstRuleFits ==
  ASSUME NEW s
  PROVE  /\ Fits(FirstRule(s)) /\ FirstRule(s).to = "set_table" /\ FirstRule(s).seed = s
         /\ FirstRule(s).table = 0
<1>1. 0 =< TopTable /\ 0 =< TopCombination
  <2>1. TopTable \in 0 .. 15 /\ TopCombination \in Byte
    BY MutationAssumption
  <2> QED
    BY <2>1 DEF Byte
<1>2. /\ FirstRule(s).table = 0 /\ FirstRule(s).combination = 0
      /\ FirstRule(s).to = "set_table" /\ FirstRule(s).seed = s
  BY DEF FirstRule, Rule
<1> QED
  BY <1>1, <1>2 DEF Fits

(* A full table stays full.                                                *)
LEMMA RoomShrinks ==
  ASSUME IsFiniteSet(installed'), installed \subseteq installed', NEW to
  PROVE  Room(to)' => Room(to)
<1> DEFINE A == {d \in installed : d.to = to}
           B == {d \in installed' : d.to = to}
<1>1. A \subseteq B /\ IsFiniteSet(B)
  BY FS_Subset
<1>2. /\ Cardinality(A) =< Cardinality(B) /\ Cardinality(A) \in Nat /\ Cardinality(B) \in Nat
  BY <1>1, FS_Subset, FS_CardinalityType
<1>3. Size(to) \in Nat
  BY MutationAssumption DEF Size
<1> QED
  BY <1>2, <1>3 DEF Room, Size

LEMMA SelInstall ==
  ASSUME SelInv, InstallRule PROVE SelInv'
<1> DEFINE h == Head(todo)
<1>1. /\ todo # <<>> /\ todo' = Tail(todo) /\ UNCHANGED <<learnt, rules, path, basis>>
      /\ installed' = IF Accepted(h) THEN installed \cup {h} ELSE installed
  BY DEF InstallRule
<1>2. RulesWanted' = RulesWanted /\ KnownInv'
  BY <1>1 DEF RulesWanted, TablesOf, Seeds, KnownInv, SelInv
<1>3. /\ todo \in Seq(RulesWanted) /\ h = todo[1] /\ h \in RulesWanted
      /\ todo' \in Seq(RulesWanted) /\ Len(todo) \in Nat \ {0} /\ Len(todo') = Len(todo) - 1
      /\ \A j \in 1 .. Len(todo') : todo'[j] = todo[j + 1] /\ j + 1 \in 1 .. Len(todo)
      /\ \A j \in 1 .. Len(todo) : j = 1 \/ (j - 1 \in 1 .. Len(todo') /\ todo[j] = todo'[j - 1])
  <2>1. todo \in Seq(RulesWanted)
    BY DEF SelInv
  <2> QED
    BY <1>1, <2>1, HeadTailProperties, LenProperties, EmptySeq
<1>4. h.to \in {"set_table", "move_back"}
  BY <1>3, WantedFacts DEF SelInv, Shape
<1>5. Accepted(h) <=> Fits(h) /\ Room(h.to)
  BY DEF Accepted, Fits, Room, Size
<1> HIDE DEF h
<1>6. /\ installed' \subseteq RulesWanted' /\ IsFiniteSet(installed')
      /\ installed \subseteq installed' /\ installed' \subseteq installed \cup {h}
      /\ \A e \in installed' : Fits(e)
  BY <1>1, <1>2, <1>3, <1>5, FS_AddElement DEF SelInv
<1>7. \A to : Room(to)' => Room(to)
  BY <1>6, RoomShrinks
<1>8. h \in installed' \/ ~ Fits(h) \/ ~ Room(h.to)
  BY <1>1, <1>5
<1>9. ASSUME NEW r \in RulesWanted
      PROVE  (\/ r \in installed \/ ~ Fits(r) \/ ~ Room(r.to)
              \/ \E j \in 1 .. Len(todo) : todo[j] = r)'
  <2>1. CASE r \in installed \/ ~ Fits(r) \/ ~ Room(r.to)
    BY <1>6, <1>7, <2>1 DEF Fits
  <2>2. CASE \E j \in 1 .. Len(todo) : todo[j] = r
    <3>1. PICK j \in 1 .. Len(todo) : todo[j] = r
      BY <2>2
    <3>2. CASE j = 1
      BY <1>3, <1>7, <1>8, <3>1, <3>2 DEF Fits
    <3>3. CASE j # 1
      BY <1>3, <3>1, <3>3
    <3> QED
      BY <3>2, <3>3
  <2> QED
    BY <2>1, <2>2 DEF SelInv
<1>10. ASSUME NEW s, h = FirstRule(s)
       PROVE  FirstRule(s) \in installed' \/ ~ Room("set_table")
  BY <1>8, <1>10, FirstRuleFits
<1>11. ASSUME NEW e \in installed', e.to = "set_table"
       PROVE  FirstRule(e.seed) \in installed'
  <2>1. CASE e \in installed
    BY <1>6, <1>11, <2>1 DEF SelInv
  <2>2. CASE e \notin installed
    <3>1. e = h /\ Room("set_table")
      BY <1>1, <1>5, <1>11, <2>2
    <3>2. \/ FirstRule(e.seed) \in installed
          \/ \E k \in 1 .. 1 : todo[k] = FirstRule(e.seed)
      BY <1>3, <1>11, <3>1 DEF SelInv
    <3>3. FirstRule(e.seed) \in installed \/ h = FirstRule(e.seed)
      BY <1>3, <3>2
    <3> QED
      BY <1>6, <1>10, <3>1, <3>3
  <2> QED
    BY <2>1, <2>2
<1>12. ASSUME NEW j \in 1 .. Len(todo'), todo'[j].to = "set_table"
       PROVE  \/ FirstRule(todo'[j].seed) \in installed' \/ ~ Room("set_table")'
              \/ \E k \in 1 .. j : todo'[k] = FirstRule(todo'[j].seed)
  <2> DEFINE f == FirstRule(todo'[j].seed)
  <2>1. todo'[j] = todo[j + 1] /\ j + 1 \in 1 .. Len(todo)
    BY <1>3
  <2>2. \/ f \in installed \/ ~ Room("set_table")
        \/ \E k \in 1 .. j + 1 : todo[k] = f
    BY <1>12, <2>1 DEF SelInv
  <2>3. ASSUME NEW k \in 1 .. j + 1, todo[k] = f
        PROVE  \/ f \in installed' \/ ~ Room("set_table")
               \/ \E i \in 1 .. j : todo'[i] = f
    <3>1. CASE k = 1
      BY <1>3, <1>10, <2>3, <3>1
    <3>2. CASE k # 1
      <4>1. k - 1 \in 1 .. j /\ todo'[k - 1] = f
        BY <1>3, <2>1, <2>3, <3>2
      <4> QED
        BY <4>1
    <3> QED
      BY <3>1, <3>2
  <2> QED
    BY <1>6, <1>7, <2>2, <2>3
<1>13. \A s : FirstRule(s)' = FirstRule(s)
  BY DEF FirstRule, Rule
<1> QED
  BY <1>2, <1>3, <1>6, <1>9, <1>11, <1>12, <1>13 DEF SelInv, Fits

(* Learning alone changes no entry and no seed.                            *)
LEMMA SelLearn ==
  ASSUME SelInv, AddNewRule PROVE SelInv'
<1>1. PICK rule \in NewRules : learnt' = LearnRule(learnt, rule)
  BY DEF AddNewRule
<1>2. /\ rules' = rules + 1 /\ rules < MaxRules
      /\ UNCHANGED <<path, basis, todo, installed>>
  BY DEF AddNewRule
<1>3. learnt' \in Learnable
  <2>1. \A f \in Fields : learnt[f] \in Seq(Values)
    BY DEF SelInv, KnownInv, Learnable
  <2>2. \A f \in DOMAIN rule : rule[f] \in Values
    BY MutationAssumption
  <2>3. \A f \in Fields : f \in DOMAIN rule => Append(learnt[f], rule[f]) \in Seq(Values)
    BY <2>1, <2>2
  <2> QED
    BY <1>1, <2>1, <2>3 DEF LearnRule, Learnable
<1>4. KnownInv'
  <2>1. MaxRules \in Nat
    BY MutationAssumption
  <2> QED
    BY <1>2, <1>3, <2>1 DEF SelInv, KnownInv, Seeds
<1>5. RulesWanted' = RulesWanted /\ \A to : Room(to)' <=> Room(to)
  BY <1>2 DEF RulesWanted, TablesOf, Seeds, Room, Size
<1> QED
  BY <1>2, <1>4, <1>5 DEF SelInv, Fits, FirstRule, Rule

(* A new seed waits with all its rules, and the rules of the others stay.  *)
LEMMA SelAddSeed ==
  ASSUME SelInv, AddSeedPacket PROVE SelInv'
<1>s. PICK s : s = Cardinality(Seeds)
  OBVIOUS
<1>1. PICK p \in NewPaths :
        /\ path' = [n \in Seeds \cup {s} |-> IF n = s THEN p ELSE path[n]]
        /\ basis' = [n \in Seeds \cup {s} |-> IF n = s THEN learnt ELSE basis[n]]
        /\ todo' = RulesOfSeed(s, p, learnt)
  BY <1>s DEF AddSeedPacket
<1>2. todo = <<>> /\ UNCHANGED <<learnt, rules, installed>>
  BY DEF AddSeedPacket
<1>3. Seeds = 0 .. s - 1 /\ s \in Nat /\ learnt \in Learnable
  BY <1>s DEF SelInv, KnownInv
<1>4. Seeds' = Seeds \cup {s} /\ Seeds' = 0 .. s /\ s \notin Seeds
  BY <1>1, <1>3 DEF Seeds
<1>5. Cardinality(Seeds)' = s + 1
  <2>1. Cardinality(0 .. s) = s + 1
    BY <1>3, FS_Interval
  <2>2. Seeds' = 0 .. s
    BY <1>4
  <2> QED
    BY <2>1, <2>2
<1>6. KnownInv'
  <2>1. \A n \in Seeds' : basis'[n] \in Learnable
    BY <1>1, <1>3, <1>4 DEF SelInv, KnownInv
  <2>2. learnt' \in Learnable /\ rules' \in 0 .. MaxRules
    BY <1>2 DEF SelInv, KnownInv
  <2>3. DOMAIN basis' = Seeds'
    BY <1>1, <1>4
  <2>4. Seeds' = 0 .. Cardinality(Seeds)' - 1 /\ Cardinality(Seeds)' \in Nat
    BY <1>3, <1>4, <1>5
  <2> QED
    BY <2>1, <2>2, <2>3, <2>4 DEF KnownInv
<1> DEFINE R == RulesFor(s, SeedToTable(p), learnt)
<1>7. RulesWanted' = RulesWanted \cup R
  <2>1. /\ (TablesOf(s))' = SeedToTable(p) /\ basis'[s] = learnt
        /\ \A n \in Seeds : TablesOf(n)' = TablesOf(n) /\ basis'[n] = basis[n]
    <3>1. path'[s] = p /\ basis'[s] = learnt
      BY <1>1
    <3>2. \A n \in Seeds : path'[n] = path[n] /\ basis'[n] = basis[n]
      BY <1>1, <1>4
    <3>3. \A n : TablesOf(n)' = SeedToTable(path'[n])
      BY DEF TablesOf, SeedToTable, KeySet
    <3> QED
      BY <3>1, <3>2, <3>3 DEF TablesOf
  <2>2. RulesWanted' = UNION {RulesFor(n, TablesOf(n)', basis'[n]) : n \in Seeds'}
    BY DEF RulesWanted, RulesFor, SetTableRules, RandomRules, AllFixedRules, TableFixedRules,
           Rule, RandomValues, Product, Stride, Options, KeySet
  <2> QED
    BY <1>4, <2>1, <2>2 DEF RulesWanted
<1>8. todo' \in Seq(R) /\ Elements(todo') = R /\ Ordered(todo')
  BY <1>1, <1>3, RulesOfSeedAre
<1> HIDE DEF R
<1>9. todo' \in Seq(RulesWanted') /\ installed' \subseteq RulesWanted'
  BY <1>2, <1>7, <1>8 DEF SelInv
<1>10. \A to : Room(to)' <=> Room(to)
  BY <1>2 DEF Room, Size
<1>11. ASSUME NEW r \in RulesWanted'
       PROVE  \/ r \in installed' \/ ~ Fits(r) \/ ~ Room(r.to)'
              \/ \E j \in 1 .. Len(todo') : todo'[j] = r
  <2>1. CASE r \in R
    BY <1>8, <2>1 DEF Elements
  <2>2. CASE r \in RulesWanted
    BY <1>2, <1>10, <2>2 DEF SelInv
  <2> QED
    BY <1>7, <2>1, <2>2
<1> QED
  BY <1>2, <1>6, <1>8, <1>9, <1>10, <1>11 DEF SelInv, Ordered, Fits, FirstRule, Rule

LEMMA SelInit ==
  ASSUME Init PROVE SelInv
<1> DEFINE n == Len(InitialPaths)
           R == UNION {RulesFor(i - 1, SeedToTable(InitialPaths[i]), InitialLearnt) : i \in 1 .. n}
<1>1. n \in Nat /\ InitialLearnt \in Learnable /\ MaxRules \in Nat
  BY MutationAssumption DEF Learnable
<1>2. /\ learnt = InitialLearnt /\ rules = 0 /\ installed = {} /\ todo = InitialRules
      /\ path = [s \in 0 .. n - 1 |-> InitialPaths[s + 1]]
      /\ basis = [s \in 0 .. n - 1 |-> InitialLearnt]
  BY DEF Init
<1>3. todo \in Seq(R) /\ Elements(todo) = R /\ Ordered(todo)
  BY <1>2, InitialRulesAre
<1> HIDE DEF n
<1>4. Seeds = 0 .. n - 1 /\ Cardinality(Seeds) = n
  <2>1. Seeds = 0 .. n - 1
    BY <1>2 DEF Seeds
  <2>2. Cardinality(0 .. n - 1) = n
    BY <1>1, FS_Interval
  <2> QED
    BY <2>1, <2>2
<1>5. KnownInv
  BY <1>1, <1>2, <1>4 DEF KnownInv
<1>6. RulesWanted = R
  <2> DEFINE F(s) == RulesFor(s, TablesOf(s), basis[s])
             G(i) == RulesFor(i - 1, SeedToTable(InitialPaths[i]), InitialLearnt)
  <2>1. /\ \A s \in 0 .. n - 1 : s + 1 \in 1 .. n /\ F(s) = G(s + 1)
        /\ \A i \in 1 .. n : i - 1 \in 0 .. n - 1 /\ F(i - 1) = G(i)
    BY <1>1, <1>2 DEF TablesOf
  <2>2. RulesWanted = UNION {F(s) : s \in 0 .. n - 1} /\ R = UNION {G(i) : i \in 1 .. n}
    BY <1>4 DEF RulesWanted
  <2> HIDE DEF F, G, R
  <2> QED
    BY <2>1, <2>2
<1> HIDE DEF R
<1>7. IsFiniteSet(installed)
  BY <1>2, FS_EmptySet
<1> QED
  BY <1>2, <1>3, <1>5, <1>6, <1>7 DEF SelInv, Ordered, Elements

(* The two tables hold what the controller means them to, as far as they   *)
(* can.                                                                    *)
THEOREM RulesComplete == Spec => []SelInv
<1>1. Init => SelInv
  BY SelInit
<1>2. SelInv /\ [Next]_vars => SelInv'
  <2> SUFFICES ASSUME SelInv, [Next]_vars PROVE SelInv'
    OBVIOUS
  <2>1. CASE UNCHANGED vars
    <3>1. RulesWanted' = RulesWanted /\ \A to : Room(to)' <=> Room(to)
      BY <2>1 DEF vars, RulesWanted, TablesOf, Seeds, Room, Size
    <3> QED
      BY <2>1, <3>1 DEF vars, SelInv, KnownInv, Seeds, Fits, FirstRule, Rule
  <2> QED
    BY <2>1, SelInstall, SelLearn, SelAddSeed DEF Next
<1> QED
  BY <1>1, <1>2, PTL DEF Spec

-----------------------------------------------------------------------------
(* From the entries to the packets.                                        *)
LEMMA EntryFacts ==
  ASSUME SelInv, NEW e \in installed
  PROVE  /\ e.seed \in Seeds /\ e.to \in {"set_table", "move_back"}
         /\ e.table \in 0 .. TopTable /\ e.combination \in 0 .. TopCombination
         /\ e.table \in 0 .. Len(TablesOf(e.seed)) - 1
         /\ Shape(e, TablesOf(e.seed), basis[e.seed])
<1>1. e \in RulesWanted /\ Fits(e) /\ KnownInv
  BY DEF SelInv
<1>2. e.seed \in Seeds /\ Shape(e, TablesOf(e.seed), basis[e.seed])
  BY <1>1, WantedFacts
<1>3. TablesOf(e.seed) \in Seq(Tables)
  BY <1>1, WantedFacts
<1>4. /\ e.to \in {"set_table", "move_back"} /\ e.combination \in Nat
      /\ e.table \in 0 .. Len(TablesOf(e.seed)) - 1
  BY <1>2 DEF Shape
<1>5. TopTable \in Nat /\ TopCombination \in Nat
  <2>1. TopTable \in 0 .. 15 /\ TopCombination \in Byte
    BY MutationAssumption
  <2> QED
    BY <2>1 DEF Byte
<1>6. e.table \in 0 .. TopTable /\ e.combination \in 0 .. TopCombination
  <2>1. e.table =< TopTable /\ e.combination =< TopCombination
    BY <1>1 DEF Fits
  <2>2. e.table \in Nat
    BY <1>3, <1>4
  <2> QED
    BY <1>4, <1>5, <2>1, <2>2
<1> QED
  BY <1>2, <1>4, <1>6

LEMMA DrawFacts ==
  /\ TableDraws \subseteq 0 .. 15 /\ 0 \in TableDraws
  /\ FixedDraws \subseteq Byte /\ 0 \in FixedDraws
<1>1. TopTable \in 0 .. 15 /\ TopCombination \in Byte
  BY MutationAssumption
<1> QED
  BY <1>1 DEF TableDraws, FixedDraws, Byte

(* A draw hits the entry of its own number if the seed has one, and        *)
(* otherwise another of the seed's, once it has any.                       *)
LEMMA DrawnTable ==
  ASSUME SelInv, NEW s, NEW r \in TableDraws, EntriesOf("set_table", s) # {}
  PROVE  LET ts == {e.table : e \in EntriesOf("set_table", s)} IN
         /\ TableSeed(s, r) \in ts
         /\ r \in ts => TableSeed(s, r) = r
<1> DEFINE ts == {e.table : e \in EntriesOf("set_table", s)}
           hits == {e.table : e \in {e \in EntriesOf("set_table", s) : Covers(e.table, r)}}
           Best(i) == i \in hits /\ \A j \in hits : TablePriority(i) =< TablePriority(j)
<1>1. ts \subseteq 0 .. 15 /\ r \in 0 .. 15
  BY EntryFacts, DrawFacts DEF EntriesOf, TableDraws
<1>2. 0 \in ts
  <2>1. PICK e \in EntriesOf("set_table", s) : TRUE
    OBVIOUS
  <2>2. FirstRule(s) \in installed
    BY <2>1 DEF SelInv, EntriesOf
  <2> QED
    BY <2>2, FirstRuleFits DEF EntriesOf
<1>3. hits = {i \in ts : Covers(i, r)}
  OBVIOUS
<1>4. Covers(0, r)
  BY <1>1, CoversZero
<1>5. hits # {} /\ hits \subseteq 0 .. r
  BY <1>1, <1>2, <1>3, <1>4, CoversBelow
<1>6. TableSeed(s, r) = CHOOSE i \in hits : \A j \in hits : TablePriority(i) =< TablePriority(j)
  BY <1>5 DEF TableSeed
<1> HIDE DEF hits, ts
<1>7. \E i : Best(i)
  <2>1. PICK i \in hits : \A j \in hits : j =< i
    BY <1>1, <1>5, GreatestNatural
  <2> QED
    BY <1>1, <1>5, <2>1 DEF TablePriority
<1>8. Best(TableSeed(s, r))
  BY <1>6, <1>7
<1>9. r \in ts => TableSeed(s, r) = r
  <2> SUFFICES ASSUME r \in ts PROVE TableSeed(s, r) = r
    OBVIOUS
  <2>1. r \in hits
    BY <1>1, <1>3, CoversBelow
  <2>2. TableSeed(s, r) \in hits /\ TablePriority(TableSeed(s, r)) =< TablePriority(r)
    BY <1>8, <2>1
  <2>3. TableSeed(s, r) \in 0 .. r
    BY <1>5, <2>2
  <2> QED
    BY <1>1, <2>2, <2>3 DEF TablePriority
<1> QED
  BY <1>3, <1>8, <1>9 DEF ts

(* The entries a draw f hits have numbers up to f, and those of one number *)
(* write the same.                                                         *)
LEMMA MoveBackFacts ==
  ASSUME SelInv, NEW s, NEW i, NEW f \in FixedDraws, NEW e \in MoveBack(s, i, f)
  PROVE  /\ e \in installed /\ e.seed = s /\ e.table = i
         /\ s \in Seeds /\ i \in 0 .. Len(TablesOf(s)) - 1
         /\ e.combination \in 0 .. f
         /\ e.vals = IF e.combination = 0 THEN RandomValues(TablesOf(s)[i + 1])
                     ELSE Product(basis[s], TablesOf(s)[i + 1], e.combination - 1)
<1>1. /\ e \in installed /\ e.to = "move_back" /\ e.seed = s /\ e.table = i
      /\ MatchesFixed(e.combination, f)
  BY DEF MoveBack, EntriesOf
<1>2. /\ e.seed \in Seeds /\ e.combination \in 0 .. TopCombination
      /\ e.table \in 0 .. Len(TablesOf(e.seed)) - 1
      /\ Shape(e, TablesOf(e.seed), basis[e.seed])
  BY <1>1, EntryFacts
<1>3. e.combination \in Byte /\ f \in Byte
  BY <1>2, DrawFacts DEF FixedDraws
<1>4. e.combination =< f
  BY <1>1, <1>3, FixedBelow
<1> QED
  BY <1>1, <1>2, <1>3, <1>4 DEF Shape, Byte

(* An entry that a draw hits, none with a higher number hit by it, wins.   *)
LEMMA OneMutation ==
  ASSUME SelInv, NEW s, NEW i, NEW f \in FixedDraws,
         NEW d \in EntriesOf("move_back", s), d.table = i, MatchesFixed(d.combination, f)
  PROVE  /\ \E e \in MoveBack(s, i, f) : {b.vals : b \in MoveBack(s, i, f)} = {e.vals}
         /\ d.combination = f => d \in MoveBack(s, i, f)
<1> DEFINE hits == {e \in EntriesOf("move_back", s) :
                      e.table = i /\ MatchesFixed(e.combination, f)}
           numbers == {e.combination : e \in hits}
<1>1. f \in Byte
  BY DrawFacts
<1>2. \A e \in hits : e.combination \in 0 .. f
  <2> SUFFICES ASSUME NEW e \in hits PROVE e.combination \in 0 .. f
    OBVIOUS
  <2>1. e.combination \in FixedDraws
    BY EntryFacts DEF EntriesOf, FixedDraws
  <2>2. e.combination \in Byte
    BY <2>1, DrawFacts
  <2>3. MatchesFixed(e.combination, f)
    OBVIOUS
  <2>4. e.combination =< f
    BY <1>1, <2>2, <2>3, FixedBelow
  <2> QED
    BY <1>1, <2>2, <2>4 DEF Byte
<1>3. d \in hits
  OBVIOUS
<1>4. MoveBack(s, i, f) =
        {e \in hits : \A b \in hits : Priority(e.combination) =< Priority(b.combination)}
  BY DEF MoveBack
<1> HIDE DEF hits
<1>5. PICK n \in numbers : \A m \in numbers : m =< n
  <2>1. numbers \in SUBSET (0 .. f) /\ numbers # {} /\ f \in Nat
    BY <1>1, <1>2, <1>3 DEF Byte
  <2> HIDE DEF numbers
  <2> QED
    BY <2>1, GreatestNatural
<1>6. PICK w \in hits : w.combination = n
  OBVIOUS
<1>7. /\ \A b \in hits : b.combination \in numbers
      /\ \A a, b \in Byte : Priority(a) =< Priority(b) <=> b =< a
      /\ \A a, b \in Byte : a =< b /\ b =< a => a = b
      /\ \A b \in hits : b.combination \in Byte
  BY <1>1, <1>2 DEF Priority, Byte
<1> HIDE DEF numbers
<1>8. w \in MoveBack(s, i, f)
  BY <1>7, <1>4, <1>5, <1>6
<1>9. ASSUME NEW b \in MoveBack(s, i, f) PROVE b.combination = w.combination
  <2>1. b \in hits /\ Priority(b.combination) =< Priority(w.combination)
    BY <1>4
  <2>2. w.combination =< b.combination /\ b.combination =< w.combination
    BY <1>7, <1>5, <1>6, <2>1
  <2>3. w.combination \in Byte /\ b.combination \in Byte
    BY <1>7, <2>1
  <2> QED
    BY <1>7, <2>2, <2>3
<1>10. \A b \in MoveBack(s, i, f) : b.vals = w.vals
  BY <1>8, <1>9, MoveBackFacts
<1>11. {b.vals : b \in MoveBack(s, i, f)} = {w.vals}
  BY <1>8, <1>10
<1>12. ASSUME d.combination = f PROVE d \in MoveBack(s, i, f)
  BY <1>1, <1>2, <1>3, <1>4, <1>12 DEF Priority, Byte
<1> QED
  BY <1>8, <1>11, <1>12

(* With room left nothing but the entries that do not fit is missing.      *)
LEMMA AllInstalled ==
  ASSUME SelInv, todo = <<>>, Cardinality({e \in installed : e.to = "move_back"}) < MoveBackSize,
         NEW s \in Seeds, NEW r \in RulesFor(s, TablesOf(s), basis[s]), r.to = "move_back", Fits(r)
  PROVE  r \in EntriesOf("move_back", s)
<1>1. r \in RulesWanted
  BY DEF RulesWanted
<1>2. Room("move_back") /\ Len(todo) = 0
  BY DEF Room, Size
<1>3. r \in installed
  BY <1>1, <1>2 DEF SelInv
<1>4. r.seed = s
  <2>1. TablesOf(s) \in Seq(Tables) /\ basis[s] \in Learnable
    BY TablesOfPath DEF TablesOf, SelInv, KnownInv
  <2> QED
    BY <2>1, RuleShape
<1> QED
  BY <1>3, <1>4 DEF EntriesOf

(* Whatever a packet is mutated with, it is some table's keys.             *)
LEMMA MutationFacts ==
  ASSUME SelInv, NEW s, NEW r, NEW m, NEW f \in FixedDraws, NEW v \in Mutations(s, r, m, f)
  PROVE  \E t \in Tables :
           /\ DOMAIN v = KeySet(t) /\ \A g \in KeySet(t) : HeaderOf[g] \in path[s]
           /\ FixedHeaderSeed(m, f) = 0 => v = RandomValues(t)
<1> DEFINE i == TableSeed(s, r)
           h == FixedHeaderSeed(m, f)
<1>1. h \in FixedDraws
  BY DrawFacts DEF FixedHeaderSeed
<1>2. PICK e \in MoveBack(s, i, h) : v = e.vals
  BY DEF Mutations
<1> HIDE DEF i, h
<1>3. /\ i \in 0 .. Len(TablesOf(s)) - 1 /\ e.combination \in 0 .. h
      /\ e.vals = IF e.combination = 0 THEN RandomValues(TablesOf(s)[i + 1])
                  ELSE Product(basis[s], TablesOf(s)[i + 1], e.combination - 1)
  BY <1>1, <1>2, MoveBackFacts
<1>4. /\ Len(TablesOf(s)) \in Nat
      /\ \A k \in 1 .. Len(TablesOf(s)) :
           /\ TablesOf(s)[k] \in Tables
           /\ \A g \in KeySet(TablesOf(s)[k]) : HeaderOf[g] \in path[s]
  BY TablesOfPath DEF TablesOf
<1> DEFINE t == TablesOf(s)[i + 1]
<1>5. i + 1 \in 1 .. Len(TablesOf(s))
  BY <1>3, <1>4
<1>6. t \in Tables /\ \A g \in KeySet(t) : HeaderOf[g] \in path[s]
  BY <1>4, <1>5
<1>7. DOMAIN v = KeySet(t)
  BY <1>2, <1>3 DEF RandomValues, Product
<1>8. h = 0 => v = RandomValues(t)
  <2>1. h = 0 => e.combination = 0
    BY <1>3
  <2> QED
    BY <1>2, <1>3, <2>1
<1> QED
  BY <1>6, <1>7, <1>8 DEF h

-----------------------------------------------------------------------------
(* MutatesWholeKeys, for any program: te_move_back_fields writes all the   *)
(* keys of one table and no field of a header that the packet lacks, and   *)
(* its entries fit their keys.                                             *)
THEOREM WholeKeys == Spec => []MutatesWholeKeys
<1>1. SelInv => MutatesWholeKeys
  <2> SUFFICES ASSUME SelInv PROVE MutatesWholeKeys
    OBVIOUS
  <2>1. TypeOK
    <3>1. KnownInv
      BY DEF SelInv
    <3>2. \A e \in installed :
            /\ e.to \in {"set_table", "move_back"} /\ e.seed \in Seeds
            /\ e.table \in 0 .. TopTable /\ e.combination \in 0 .. TopCombination
      BY EntryFacts
    <3>3. /\ learnt \in [Fields -> Seq(Values)] /\ rules \in 0 .. MaxRules
          /\ Seeds = 0 .. Cardinality(Seeds) - 1 /\ DOMAIN basis = Seeds
      BY <3>1 DEF KnownInv, Learnable
    <3> QED
      BY <3>2, <3>3 DEF TypeOK
  <2>2. ASSUME NEW s \in Seeds, NEW r \in TableDraws, NEW f \in FixedDraws, NEW m \in {0, 2},
               NEW v \in Mutations(s, r, m, f)
        PROVE  /\ \A g \in DOMAIN v : HeaderOf[g] \in path[s]
               /\ \E t \in Tables : DOMAIN v = KeySet(t)
    <3>1. PICK t \in Tables :
            /\ DOMAIN v = KeySet(t) /\ \A g \in KeySet(t) : HeaderOf[g] \in path[s]
            /\ FixedHeaderSeed(m, f) = 0 => v = RandomValues(t)
      BY MutationFacts
    <3> QED
      BY <3>1
  <2> QED
    BY <2>1, <2>2 DEF MutatesWholeKeys
<1> QED
  BY <1>1, RulesComplete, PTL

(* EveryTableDrawn, for any number of tables: the overlapping masks of     *)
(* te_set_table_seed leave every installed table a draw of its own.        *)
THEOREM TablesDrawn == Spec => []EveryTableDrawn
<1>1. SelInv => EveryTableDrawn
  <2> SUFFICES ASSUME SelInv, NEW s \in Seeds
               PROVE  LET ts == {e.table : e \in EntriesOf("set_table", s)} IN
                      ts # {} => {TableSeed(s, r) : r \in TableDraws} = ts
    BY DEF EveryTableDrawn
  <2> DEFINE ts == {e.table : e \in EntriesOf("set_table", s)}
  <2>1. ts \subseteq TableDraws
    BY EntryFacts DEF EntriesOf, TableDraws
  <2>2. ASSUME ts # {}, NEW r \in TableDraws
        PROVE  TableSeed(s, r) \in ts /\ (r \in ts => TableSeed(s, r) = r)
    BY <2>2, DrawnTable
  <2> HIDE DEF ts
  <2>3. ts # {} => {TableSeed(s, r) : r \in TableDraws} = ts
    BY <2>1, <2>2
  <2> QED
    BY <2>3 DEF ts
<1> QED
  BY <1>1, RulesComplete, PTL

(* EveryPacketMutated, for any number of seeds, tables and learnt values:  *)
(* exactly one entry mutates the packet, a random one for 254 of the 256   *)
(* values of make_clone.                                                   *)
THEOREM PacketsMutated == Spec => []EveryPacketMutated
<1>1. SelInv => EveryPacketMutated
  <2> SUFFICES ASSUME SelInv PROVE EveryPacketMutated
    OBVIOUS
  <2>1. ASSUME todo = <<>>,
               Cardinality({e \in installed : e.to = "move_back"}) < MoveBackSize,
               NEW s \in Seeds, NEW r \in TableDraws, NEW f \in FixedDraws, NEW m \in {0, 2},
               EntriesOf("set_table", s) # {}
        PROVE  Cardinality(Mutations(s, r, m, f)) = 1
    <3> DEFINE i == TableSeed(s, r)
               h == FixedHeaderSeed(m, f)
               d == Rule("move_back", s, i, 0, RandomValues(TablesOf(s)[i + 1]))
    <3>1. h \in FixedDraws
      BY DrawFacts DEF FixedHeaderSeed
    <3>2. i \in 0 .. TopTable /\ i \in 0 .. Len(TablesOf(s)) - 1
      <4>1. PICK e \in EntriesOf("set_table", s) : e.table = i
        BY <2>1, DrawnTable
      <4>2. e \in installed /\ e.seed = s
        BY DEF EntriesOf
      <4> QED
        BY <4>1, <4>2, EntryFacts
    <3> HIDE DEF i, h
    <3>3. d \in RulesFor(s, TablesOf(s), basis[s])
      <4>1. TablesOf(s) \in Seq(Tables) /\ basis[s] \in Learnable
        BY TablesOfPath DEF TablesOf, SelInv, KnownInv
      <4> QED
        BY <3>2, <4>1, RulesThere
    <3>4. d.to = "move_back" /\ d.table = i /\ d.combination = 0
      BY DEF Rule
    <3>5. Fits(d)
      BY <3>2, <3>4, FirstRuleFits DEF Fits, FirstRule, Rule
    <3> HIDE DEF d
    <3>6. d \in EntriesOf("move_back", s)
      BY <2>1, <3>3, <3>4, <3>5, AllInstalled
    <3>7. MatchesFixed(d.combination, h)
      BY <3>4 DEF MatchesFixed
    <3>8. PICK e \in MoveBack(s, i, h) : {b.vals : b \in MoveBack(s, i, h)} = {e.vals}
      BY <3>1, <3>4, <3>6, <3>7, OneMutation
    <3>9. Mutations(s, r, m, f) = {e.vals}
      BY <3>8 DEF Mutations, i, h
    <3> QED
      BY <3>9, FS_Singleton
  <2>2. ASSUME NEW s \in Seeds, NEW r \in TableDraws, NEW f \in FixedDraws,
               NEW v \in Mutations(s, r, 2, f) \cup Mutations(s, r, 0, 0), NEW g \in DOMAIN v
        PROVE  v[g] = AnyValue
    <3>1. FixedHeaderSeed(2, f) = 0 /\ FixedHeaderSeed(0, 0) = 0
      BY DEF FixedHeaderSeed
    <3>2. PICK t \in Tables : DOMAIN v = KeySet(t) /\ v = RandomValues(t)
      BY <3>1, DrawFacts, MutationFacts
    <3> QED
      BY <3>2 DEF RandomValues
  <2> QED
    BY <2>1, <2>2 DEF EveryPacketMutated
<1> QED
  BY <1>1, RulesComplete, PTL

(* LearntValuesTried, for any rules learnt: as long as the combinations    *)
(* fit their key and their table, each of them has a draw of its own.      *)
THEOREM ValuesTried == Spec => []LearntValuesTried
<1>1. SelInv => LearntValuesTried
  <2> SUFFICES ASSUME SelInv, todo = <<>>,
                      Cardinality({e \in installed : e.to = "move_back"}) < MoveBackSize,
                      NEW s \in Seeds, NEW i \in DOMAIN TablesOf(s),
                      NEW e \in EntriesOf("set_table", s), e.table = i - 1,
                      Stride(basis[s], TablesOf(s)[i])[1] =< TopCombination,
                      NEW g \in KeySet(TablesOf(s)[i]), NEW n \in DOMAIN basis[s][g]
               PROVE  \E r \in TableDraws, f \in FixedDraws :
                        \E v \in Mutations(s, r, 0, f) :
                          DOMAIN v = KeySet(TablesOf(s)[i]) /\ v[g] = basis[s][g][n]
    BY DEF LearntValuesTried
  <2> DEFINE ts == TablesOf(s)
             t == ts[i]
             known == basis[s]
             r == i - 1
  <2>1. ts \in Seq(Tables) /\ known \in Learnable /\ Len(ts) \in Nat /\ DOMAIN ts = 1 .. Len(ts)
    BY TablesOfPath DEF TablesOf, SelInv, KnownInv
  <2>2. t \in Tables /\ i \in 1 .. Len(ts) /\ r \in 0 .. Len(ts) - 1 /\ r + 1 = i
    BY <2>1
  <2>3. g \in Fields
    BY <2>2, KeysFacts
  <2>4. known[g] # <<>> /\ n \in 1 .. Len(known[g]) /\ Options(known, g) = known[g]
    <3>1. known[g] \in Seq(Values)
      BY <2>1, <2>3 DEF Learnable
    <3>2. n \in 1 .. Len(known[g]) /\ Len(known[g]) \in Nat
      BY <3>1
    <3>3. known[g] # <<>>
      BY <3>1, <3>2, EmptySeq
    <3> QED
      BY <2>1, <2>3, <3>2, <3>3, OptionsFacts
  <2>5. PICK c \in 1 .. Stride(known, t)[1] : Product(known, t, c - 1)[g] = known[g][n]
    BY <2>1, <2>2, <2>4, ProductTriesAll
  <2>6. c \in FixedDraws /\ c # 0
    <3> HIDE DEF known, t
    <3>1. Stride(known, t)[1] \in Nat
      <4>1. 1 \in 1 .. Len(KeysOf[t]) + 1
        BY <2>2, KeysFacts
      <4> QED
        BY <2>1, <2>2, <4>1, StrideFacts
    <3>2. TopCombination \in Nat
      <4>1. TopCombination \in Byte
        BY MutationAssumption
      <4> QED
        BY <4>1 DEF Byte
    <3> QED
      BY <3>1, <3>2 DEF FixedDraws, known, t
  <2>7. r \in TableDraws /\ TableSeed(s, r) = r
    <3>1. r \in TableDraws
      BY EntryFacts DEF EntriesOf, TableDraws
    <3> QED
      BY <3>1, DrawnTable
  <2> DEFINE d == Rule("move_back", s, r, c, Product(known, t, c - 1))
  <2>8. d \in RulesFor(s, ts, known)
    <3> HIDE DEF r, d, ts, known
    <3>1. (\E f \in Fields : known[f] # <<>>)
            /\ t = ts[r + 1] /\ c \in 1 .. Stride(known, ts[r + 1])[1]
      BY <2>2, <2>3, <2>4
    <3> HIDE DEF t
    <3> QED
      BY <2>1, <2>2, <3>1, RulesThere DEF d
  <2>9. /\ d.to = "move_back" /\ d.table = r /\ d.combination = c
        /\ d.vals = Product(known, t, c - 1)
    BY DEF Rule
  <2> HIDE DEF r, d
  <2>10. Fits(d)
    BY <2>6, <2>7, <2>9 DEF Fits, FixedDraws, TableDraws
  <2>11. d \in EntriesOf("move_back", s)
    BY <2>8, <2>9, <2>10, AllInstalled
  <2>12. MatchesFixed(d.combination, c)
    BY <2>6, <2>9, DrawFacts, FixedBelow
  <2>13. d \in MoveBack(s, r, c)
    BY <2>6, <2>9, <2>11, <2>12, OneMutation
  <2>14. d.vals \in Mutations(s, r, 0, c)
    BY <2>7, <2>13 DEF Mutations, FixedHeaderSeed
  <2>15. DOMAIN d.vals = KeySet(t) /\ d.vals[g] = known[g][n]
    BY <2>5, <2>9 DEF Product
  <2> QED
    BY <2>6, <2>7, <2>14, <2>15
<1> QED
  BY <1>1, RulesComplete, PTL
=============================================================================
