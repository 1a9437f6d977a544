--------------------------- MODULE MoveFieldsProofs ----------------------------
(***************************************************************************)
(* Nothing a finished path has collected is lost in the groups, proved for *)
(* every graph, any number of fields in a header stack up to the model's   *)
(* bound on chunks, and every name a table may have.  The invariant says   *)
(* that paths are typed and that the groups are what Cleaned, Collected,   *)
(* SplitLarge and RemoveVectorDuplicates make of them; the rest is about   *)
(* these operators.                                                        *)
(***************************************************************************)
EXTENDS MoveFields, InductionLemmas, FiniteSetTheorems, SequenceTheorems, TLAPS

Names == Seq(Nat)
-----------------------------------------------------------------------------
(* The order of names.                                                     *)

LEMMA BeforeIrreflexive == ASSUME NEW n \in Names PROVE ~Before(n, n)
<1>1. Len(n) \in Nat /\ \A k \in 1..Len(n) : n[k] \in Nat
  BY DEF Names
<1> QED
  BY <1>1 DEF Before

LEMMA BeforeTransitive ==
  ASSUME NEW l \in Names, NEW m \in Names, NEW n \in Names, Before(l, m), Before(m, n)
  PROVE  Before(l, n)
<1>1. /\ Len(l) \in Nat /\ Len(m) \in Nat /\ Len(n) \in Nat
      /\ \A k \in 1..Len(l) : l[k] \in Nat
      /\ \A k \in 1..Len(m) : m[k] \in Nat
      /\ \A k \in 1..Len(n) : n[k] \in Nat
  BY DEF Names
<1>2. PICK i \in 1..Len(m) : /\ i <= Len(l) + 1 /\ \A j \in 1..(i - 1) : l[j] = m[j]
                             /\ i <= Len(l) => l[i] < m[i]
  BY DEF Before
<1>3. PICK k \in 1..Len(n) : /\ k <= Len(m) + 1 /\ \A j \in 1..(k - 1) : m[j] = n[j]
                             /\ k <= Len(m) => m[k] < n[k]
  BY DEF Before
<1>4. CASE i < k
  <2>1. i \in 1..Len(n) /\ i <= Len(l) + 1 /\ \A j \in 1..(i - 1) : l[j] = n[j]
    BY <1>1, <1>2, <1>3, <1>4
  <2>2. i <= Len(l) => l[i] < n[i]
    BY <1>1, <1>2, <1>3, <1>4
  <2> QED
    BY <2>1, <2>2 DEF Before
<1>5. CASE k <= i
  <2>1. k <= Len(l) + 1 /\ \A j \in 1..(k - 1) : l[j] = n[j]
    BY <1>1, <1>2, <1>3, <1>5
  <2>2. k <= Len(l) => l[k] < n[k]
    BY <1>1, <1>2, <1>3, <1>5
  <2> QED
    BY <2>1, <2>2 DEF Before
<1> QED
  BY <1>1, <1>2, <1>3, <1>4, <1>5

LEMMA BeforeTotal ==
  ASSUME NEW m \in Names, NEW n \in Names, m # n
  PROVE  Before(m, n) \/ Before(n, m)
<1>1. /\ Len(m) \in Nat /\ Len(n) \in Nat
      /\ \A k \in 1..Len(m) : m[k] \in Nat
      /\ \A k \in 1..Len(n) : n[k] \in Nat
  BY DEF Names
<1> DEFINE D == {k \in 1..Len(m) : k <= Len(n) /\ m[k] # n[k]}
<1>2. CASE D = {}
  <2>1. Len(m) # Len(n)
    <3>1. SUFFICES ASSUME Len(m) = Len(n) PROVE m = n
      OBVIOUS
    <3>2. m \in [1..Len(m) -> Nat] /\ n \in [1..Len(m) -> Nat]
      BY <3>1 DEF Names
    <3> QED
      BY <1>2, <3>1, <3>2
  <2>2. CASE Len(m) < Len(n)
    <3>1. /\ Len(m) + 1 \in 1..Len(n)
          /\ \A j \in 1..(Len(m) + 1 - 1) : m[j] = n[j]
      BY <1>1, <1>2, <2>2
    <3> QED
      BY <1>1, <3>1 DEF Before
  <2>3. CASE Len(n) < Len(m)
    <3>1. /\ Len(n) + 1 \in 1..Len(m)
          /\ \A j \in 1..(Len(n) + 1 - 1) : n[j] = m[j]
      BY <1>1, <1>2, <2>3
    <3> QED
      BY <1>1, <3>1 DEF Before
  <2> QED
    BY <1>1, <2>1, <2>2, <2>3
<1>3. CASE D # {}
  <2>1. PICK k \in D : \A j \in D : k =< j
    <3>1. D \in SUBSET Nat
      BY <1>1
    <3> QED
      BY <1>3, <3>1, LeastNatural
  <2>2. k \in 1..Len(m) /\ k \in 1..Len(n) /\ m[k] # n[k]
    BY <1>1, <2>1
  <2>3. \A j \in 1..(k - 1) : m[j] = n[j]
    BY <1>1, <2>1, <2>2
  <2>4. m[k] < n[k] \/ n[k] < m[k]
    BY <1>1, <2>2
  <2> QED
    BY <1>1, <2>2, <2>3, <2>4 DEF Before
<1> QED
  BY <1>2, <1>3

LEMMA LastName ==
  ASSUME NEW D, IsFiniteSet(D), D \subseteq Names, D # {}
  PROVE  \E m \in D : \A k \in D : ~Before(m, k)
<1> DEFINE below(m) == {k \in D : Before(k, m)}
           R == {Cardinality(below(m)) : m \in D}
           N == Cardinality(D)
<1>1. \A m \in D : below(m) \in SUBSET D
  OBVIOUS
<1>2. \A m \in D : IsFiniteSet(below(m)) /\ Cardinality(below(m)) \in 0..N
  <2>1. TAKE m \in D
  <2> HIDE DEF below
  <2>2. IsFiniteSet(below(m)) /\ Cardinality(below(m)) <= N
    BY <1>1, FS_Subset
  <2>3. Cardinality(below(m)) \in Nat /\ N \in Nat
    BY <2>2, FS_CardinalityType
  <2> QED
    BY <2>2, <2>3
<1>3. N \in Nat
  BY FS_CardinalityType
<1> HIDE DEF below, N
<1>4. PICK m \in D : \A k \in D : Cardinality(below(k)) <= Cardinality(below(m))
  <2>1. R \in SUBSET (0..N) /\ R # {}
    BY <1>2
  <2>2. PICK r \in R : \A q \in R : q <= r
    BY <1>3, <2>1, GreatestNatural
  <2> QED
    BY <2>2
<1>5. ASSUME NEW k \in D, Before(m, k) PROVE FALSE
  <2>1. below(m) \subseteq below(k)
    BY <1>5, BeforeTransitive DEF below
  <2>2. m \in below(k) /\ m \notin below(m)
    BY <1>5, BeforeIrreflexive DEF below
  <2>3. /\ Cardinality(below(m)) <= Cardinality(below(k))
        /\ Cardinality(below(m)) # Cardinality(below(k))
    BY <1>2, <2>1, <2>2, FS_Subset
  <2> QED
    BY <1>2, <1>4, <2>3
<1> QED
  BY <1>5
-----------------------------------------------------------------------------
(* Groups: finitely many, by name.                                         *)

IsGroups(out) == out = [n \in DOMAIN out |-> out[n]] /\ IsFiniteSet(DOMAIN out) /\ DOMAIN out \subseteq Names

(* removeVectorDuplicates keeps every group once.                          *)
LEMMA DuplicatesRemoved ==
  ASSUME NEW out, IsGroups(out)
  PROVE  LET r == RemoveVectorDuplicates(out)
         IN  /\ IsGroups(r)
             /\ \A n \in DOMAIN r : n \in DOMAIN out /\ r[n] = out[n]
             /\ \A n \in DOMAIN out : \E m \in DOMAIN r : r[m] = out[n]
             /\ \A m, n \in DOMAIN r : r[m] = r[n] => m = n
<1> DEFINE r == RemoveVectorDuplicates(out)
           D == {m \in DOMAIN out : \A k \in DOMAIN out : out[k] = out[m] => ~Before(m, k)}
<1>1. r = [n \in D |-> out[n]]
  BY DEF RemoveVectorDuplicates
<1>2. D \subseteq DOMAIN out /\ IsFiniteSet(D)
  BY FS_Subset DEF IsGroups
<1>3. ASSUME NEW n \in DOMAIN out PROVE \E m \in D : out[m] = out[n]
  <2> DEFINE S == {k \in DOMAIN out : out[k] = out[n]}
  <2>1. S \in SUBSET DOMAIN out /\ n \in S
    OBVIOUS
  <2>2. IsFiniteSet(S) /\ S \subseteq Names /\ S # {}
    BY <2>1, FS_Subset DEF IsGroups
  <2>3. PICK m \in S : \A k \in S : ~Before(m, k)
    BY <2>2, LastName
  <2> QED
    BY <2>3
<1>4. ASSUME NEW m \in D, NEW n \in D, out[m] = out[n] PROVE m = n
  <2>1. ~Before(m, n) /\ ~Before(n, m) /\ m \in Names /\ n \in Names
    BY <1>4 DEF IsGroups
  <2> QED
    BY <2>1, BeforeTotal
<1> HIDE DEF D, r
<1>5. DOMAIN r = D /\ (\A n \in D : r[n] = out[n]) /\ r = [n \in DOMAIN r |-> r[n]]
  BY <1>1
<1>6. IsGroups(r)
  BY <1>2, <1>5 DEF IsGroups
<1> QED
  BY <1>2, <1>3, <1>4, <1>5, <1>6 DEF r
-----------------------------------------------------------------------------
(* splitLarge.                                                             *)

Rank(f, s) == Cardinality({g \in s : g < f})
Chunk(s, i) == {f \in s : Rank(f, s) \div ChunkSize = i}
Digits == 0..(MaxChunks - 1)

LEMMA FieldsFinite ==
  /\ IsFiniteSet(Fields) /\ Fields \subseteq Nat
  /\ \A s \in SUBSET Fields : IsFiniteSet(s) /\ Cardinality(s) \in 0..30
<1>1. Len(HeaderOf) \in 0..30 /\ Fields = 1..Len(HeaderOf)
  BY GraphsAssumption DEF ChunkSize, MaxChunks
<1>2. IsFiniteSet(Fields) /\ Cardinality(Fields) <= 30
  <2> DEFINE n == Len(HeaderOf)
  <2>1. n \in 0..30 /\ n \in Int /\ 1 \in Int
    BY <1>1
  <2> HIDE DEF n
  <2>2. IsFiniteSet(1..n) /\ Cardinality(1..n) = IF 1 > n THEN 0 ELSE n - 1 + 1
    BY <2>1, FS_Interval
  <2>3. Cardinality(1..n) <= 30
    BY <2>1, <2>2
  <2> QED
    BY <1>1, <2>2, <2>3 DEF n
<1>3. Fields \subseteq Nat
  BY <1>1
<1>4. ASSUME NEW s \in SUBSET Fields PROVE IsFiniteSet(s) /\ Cardinality(s) \in 0..30
  <2>1. IsFiniteSet(s) /\ Cardinality(s) <= Cardinality(Fields)
    BY <1>2, FS_Subset
  <2>2. Cardinality(s) \in Nat /\ Cardinality(Fields) \in Nat
    BY <1>2, <2>1, FS_CardinalityType
  <2> QED
    BY <1>2, <2>1, <2>2
<1> QED
  BY <1>2, <1>3, <1>4

LEMMA Ranks ==
  ASSUME NEW s \in SUBSET Fields
  PROVE  /\ \A f \in s : Rank(f, s) \in 0..(Cardinality(s) - 1)
         /\ \A f, h \in s : f # h => Rank(f, s) # Rank(h, s)
<1> DEFINE below(f) == {g \in s : g < f}
<1>1. s \subseteq Nat /\ IsFiniteSet(s) /\ Cardinality(s) \in Nat
  BY FieldsFinite
<1>2. ASSUME NEW f \in s PROVE IsFiniteSet(below(f)) /\ Rank(f, s) \in 0..(Cardinality(s) - 1)
  <2>1. below(f) \in SUBSET s /\ f \notin below(f)
    BY <1>1
  <2>2. IsFiniteSet(below(f)) /\ Cardinality(below(f)) <= Cardinality(s)
        /\ Cardinality(below(f)) # Cardinality(s)
    BY <1>1, <2>1, FS_Subset
  <2>3. Cardinality(below(f)) \in Nat
    BY <2>2, FS_CardinalityType
  <2> QED
    BY <1>1, <2>2, <2>3 DEF Rank
<1>3. ASSUME NEW f \in s, NEW h \in s, f < h PROVE Rank(f, s) # Rank(h, s)
  <2>1. below(f) \in SUBSET below(h) /\ f \in below(h) /\ f \notin below(f)
    <3>1. \A g \in s : g \in Nat /\ (g < f => g < h) /\ ~(f < f)
      BY <1>1, <1>3
    <3> QED
      BY <1>3, <3>1
  <2> HIDE DEF below
  <2>2. Cardinality(below(f)) # Cardinality(below(h))
    BY <1>2, <2>1, FS_Subset
  <2> QED
    BY <2>2 DEF Rank, below
<1>4. \A f, h \in s : f # h => f < h \/ h < f
  BY <1>1
<1> QED
  BY <1>2, <1>3, <1>4

LEMMA Chunks ==
  ASSUME NEW s \in SUBSET Fields
  PROVE  /\ \A i \in Nat : Cardinality(Chunk(s, i)) <= 3
         /\ \A f \in s : \E i \in Digits : f \in Chunk(s, i)
<1>1. ASSUME NEW i \in Nat PROVE Cardinality(Chunk(s, i)) <= 3
  <2> DEFINE C == Chunk(s, i)
             R == (3 * i)..(3 * i + 2)
             rank == [f \in C |-> Rank(f, s)]
  <2>1. \A f \in C : f \in s /\ Rank(f, s) \in Nat /\ Rank(f, s) \div 3 = i
    BY Ranks DEF Chunk, ChunkSize
  <2>2. \A k \in Nat : k \div 3 = i => k \in R
    OBVIOUS
  <2>3. rank \in Injection(C, R)
    <3>1. rank \in [C -> R]
      BY <2>1, <2>2
    <3>2. \A f, h \in C : rank[f] = rank[h] => f = h
      BY <2>1, Ranks
    <3> QED
      BY <3>1, <3>2 DEF Injection, IsInjective
  <2>4. IsFiniteSet(R) /\ Cardinality(R) = 3
    BY FS_Interval
  <2> HIDE DEF C, R, rank
  <2>5. Cardinality(C) <= 3
    BY <2>3, <2>4, FS_Injection
  <2> QED
    BY <2>5 DEF C
<1>2. ASSUME NEW f \in s PROVE \E i \in Digits : f \in Chunk(s, i)
  <2>1. Rank(f, s) \in 0..29
    BY Ranks, FieldsFinite
  <2>2. Rank(f, s) \div 3 \in 0..9
    BY <2>1
  <2> QED
    BY <2>2 DEF Chunk, Digits, MaxChunks, ChunkSize
<1> QED
  BY <1>1, <1>2

LEMMA Numbers ==
  ASSUME NEW n \in Names, NEW i \in Nat
  PROVE  /\ Append(n, i) \in Names /\ Front(Append(n, i)) = n /\ Last(Append(n, i)) = i
         /\ Len(Append(n, i)) = Len(n) + 1
<1>1. Append(n, i) \in Names /\ Len(Append(n, i)) = Len(n) + 1 /\ Len(n) \in Nat
  BY DEF Names
<1>2. Last(Append(n, i)) = i
  BY <1>1 DEF Last, Names
<1>3. Front(Append(n, i)) = n
  <2>1. Front(Append(n, i)) = SubSeq(Append(n, i), 1, Len(n))
    BY <1>1 DEF Front
  <2> QED
    BY <1>1, <2>1 DEF Names
<1> QED
  BY <1>1, <1>2, <1>3

(* Names made by appending a digit.                                        *)
Numbered(D) == {Append(n, i) : n \in D, i \in Digits}

LEMMA NumberedFinite ==
  ASSUME NEW D, IsFiniteSet(D), D \subseteq Names
  PROVE  IsFiniteSet(Numbered(D)) /\ Numbered(D) \subseteq Names
<1> DEFINE name == [x \in D \X Digits |-> Append(x[1], x[2])]
<1>1. IsFiniteSet(D \X Digits)
  <2>1. IsFiniteSet(Digits)
    <3>1. Digits = 0..9
      BY DEF Digits, MaxChunks
    <3>2. \A a, b \in Int : IsFiniteSet(a..b)
      BY FS_Interval
    <3>3. 0 \in Int /\ 9 \in Int
      OBVIOUS
    <3>4. IsFiniteSet(0..9)
      BY <3>2, <3>3, Zenon
    <3> QED
      BY <3>1, <3>4, Zenon
  <2> QED
    BY <2>1, FS_Product
<1>2. name \in Surjection(D \X Digits, Numbered(D))
  <2>1. name \in [D \X Digits -> Numbered(D)]
    BY DEF Numbered
  <2>2. \A x \in Numbered(D) : \E y \in D \X Digits : name[y] = x
    <3> TAKE x \in Numbered(D)
    <3>1. PICK n \in D, i \in Digits : x = Append(n, i)
      BY DEF Numbered
    <3>2. <<n, i>> \in D \X Digits /\ name[<<n, i>>] = x
      BY <3>1
    <3> QED
      BY <3>2
  <2> QED
    BY <2>1, <2>2 DEF Surjection
<1>3. IsFiniteSet(Numbered(D))
  <2> HIDE DEF name
  <2> QED
    BY <1>1, <1>2, FS_Surjection
<1>4. \A n \in D, i \in Digits : Append(n, i) \in Names
  BY Numbers DEF Digits, MaxChunks
<1>5. ASSUME NEW x \in Numbered(D) PROVE x \in Names
  <2>1. PICK n \in D, i \in Digits : x = Append(n, i)
    BY DEF Numbered
  <2> QED
    BY <1>4, <2>1, Zenon
<1> QED
  BY <1>3, <1>5

(* The groups in hand are sets of fields, none empty.                      *)
IsFieldGroups(out) == IsGroups(out) /\ \A n \in DOMAIN out : out[n] \in SUBSET Fields /\ out[n] # {}

(* splitLarge cuts every group into groups of one to three of its fields,  *)
(* drops none of them as long as the new names are new, and never leaves a *)
(* single group where it has cut.                                          *)
LEMMA LargeSplit ==
  ASSUME NEW out, IsFieldGroups(out)
  PROVE  LET r == SplitLarge(out)
         IN  /\ IsFieldGroups(r)
             /\ \A x \in DOMAIN r : Cardinality(r[x]) \in 1..3 /\ \E n \in DOMAIN out : r[x] \subseteq out[n]
             /\ \A x \in DOMAIN r : \/ x \in DOMAIN out
                                    \/ /\ x \in Numbered(DOMAIN out)
                                       /\ \E y \in DOMAIN r : r[y] # r[x]
             /\ DOMAIN out \cap Numbered(DOMAIN out) = {} =>
                  \A n \in DOMAIN out : \A f \in out[n] : \E x \in DOMAIN r : f \in r[x] /\ r[x] \subseteq out[n]
<1> DEFINE r == SplitLarge(out)
           large == {n \in DOMAIN out : Cardinality(out[n]) > 3}
           small == DOMAIN out \ large
           A == {x \in {Append(n, i) : n \in large, i \in Digits} : Chunk(out[Front(x)], Last(x)) # {}}
<1>1. r = [x \in A \cup small |-> IF x \in A THEN Chunk(out[Front(x)], Last(x)) ELSE out[x]]
  BY DEF SplitLarge, Chunk, Rank, Digits, ChunkSize
<1>2. /\ DOMAIN out \subseteq Names /\ IsFiniteSet(DOMAIN out)
      /\ \A n \in DOMAIN out : /\ out[n] \in SUBSET Fields /\ out[n] # {}
                               /\ IsFiniteSet(out[n]) /\ Cardinality(out[n]) \in Nat
  BY FieldsFinite DEF IsFieldGroups, IsGroups
<1>3. \A n \in DOMAIN out, i \in Digits : /\ Append(n, i) \in Names
                                          /\ Front(Append(n, i)) = n /\ Last(Append(n, i)) = i
  BY <1>2, Numbers DEF Digits, MaxChunks
<1>4. \A n \in large, i \in Digits : Append(n, i) \in A <=> Chunk(out[n], i) # {}
  BY <1>3
<1>5. ASSUME NEW x \in A
      PROVE  \E n \in large, i \in Digits : x = Append(n, i) /\ Chunk(out[n], i) # {}
  <2>1. PICK n \in large, i \in Digits : x = Append(n, i)
    OBVIOUS
  <2>2. Chunk(out[Front(x)], Last(x)) # {}
    OBVIOUS
  <2>3. n \in DOMAIN out
    OBVIOUS
  <2> HIDE DEF large, small, A, r
  <2>4. Front(x) = n /\ Last(x) = i
    BY <1>3, <2>1, <2>3, Zenon
  <2> QED
    BY <2>1, <2>2, <2>4, Zenon
<1>6. \A n \in large : n \in DOMAIN out /\ Cardinality(out[n]) > 3
  OBVIOUS
<1>7. \A n \in small : n \in DOMAIN out /\ n \notin large /\ Cardinality(out[n]) <= 3
  BY <1>2
<1>8. \A n \in DOMAIN out : n \in large \/ n \in small
  OBVIOUS
<1> HIDE DEF large, small, A, r
<1>9. DOMAIN r = A \cup small /\ r = [x \in DOMAIN r |-> r[x]]
  BY <1>1
<1>10. \A x \in small : x \in A \/ r[x] = out[x]
  BY <1>1
<1>11. ASSUME NEW x \in A
       PROVE  \E n \in large, i \in Digits :
                 x = Append(n, i) /\ r[x] = Chunk(out[n], i) /\ Chunk(out[n], i) # {}
  <2>1. PICK n \in large, i \in Digits : x = Append(n, i) /\ Chunk(out[n], i) # {}
    BY <1>5
  <2>2. r[x] = Chunk(out[Front(x)], Last(x))
    BY <1>1
  <2>3. Front(x) = n /\ Last(x) = i
    BY <1>3, <1>6, <2>1
  <2> QED
    BY <2>1, <2>2, <2>3
<1>12. ASSUME NEW n \in large, NEW i \in Digits
       PROVE  /\ Chunk(out[n], i) \in SUBSET out[n]
              /\ Cardinality(Chunk(out[n], i)) <= 3
              /\ \E y \in DOMAIN r : r[y] # Chunk(out[n], i)
  <2>1. n \in DOMAIN out /\ out[n] \in SUBSET Fields /\ i \in Nat
    BY <1>2, <1>6 DEF Digits, MaxChunks
  <2>2. Chunk(out[n], i) \in SUBSET out[n]
    BY DEF Chunk
  <2>3. Cardinality(Chunk(out[n], i)) <= 3
    BY <2>1, Chunks
  <2>4. Chunk(out[n], i) # out[n]
    BY <1>2, <1>6, <2>1, <2>3
  <2>5. PICK f \in out[n] : f \notin Chunk(out[n], i)
    BY <2>2, <2>4
  <2>6. PICK j \in Digits : f \in Chunk(out[n], j)
    BY <2>1, Chunks
  <2>7. Append(n, j) \in A
    BY <1>4, <2>6
  <2>8. r[Append(n, j)] = Chunk(out[n], j)
    BY <1>1, <1>3, <2>1, <2>7
  <2> QED
    BY <1>9, <2>2, <2>3, <2>5, <2>6, <2>7, <2>8
<1>13. A \subseteq Numbered(DOMAIN out) /\ small \subseteq DOMAIN out
  BY <1>5, <1>6, <1>7 DEF Numbered
<1>14. IsGroups(r)
  <2>1. IsFiniteSet(Numbered(DOMAIN out)) /\ Numbered(DOMAIN out) \subseteq Names
    BY <1>2, NumberedFinite
  <2>2. IsFiniteSet(A) /\ IsFiniteSet(small)
    BY <1>2, <1>13, <2>1, FS_Subset
  <2>3. IsFiniteSet(A \cup small)
    BY <2>2, FS_Union
  <2> QED
    BY <1>2, <1>9, <1>13, <2>1, <2>3 DEF IsGroups
<1>15. ASSUME NEW x \in DOMAIN r
       PROVE  /\ r[x] # {} /\ \E n \in DOMAIN out : r[x] \in SUBSET out[n]
              /\ Cardinality(r[x]) <= 3
  <2>1. CASE x \in A
    <3>1. PICK n \in large, i \in Digits : r[x] = Chunk(out[n], i) /\ Chunk(out[n], i) # {}
      BY <1>11, <2>1
    <3>2. n \in DOMAIN out
      BY <1>6
    <3> QED
      BY <1>12, <3>1, <3>2
  <2>2. CASE x \in small /\ x \notin A
    BY <1>2, <1>7, <1>10, <2>2
  <2> QED
    BY <1>9, <2>1, <2>2
<1>16. ASSUME NEW x \in DOMAIN r PROVE r[x] \in SUBSET Fields /\ Cardinality(r[x]) \in 1..3
  <2>1. r[x] \in SUBSET Fields
    BY <1>2, <1>15
  <2>2. IsFiniteSet(r[x]) /\ Cardinality(r[x]) \in Nat
    BY <2>1, FieldsFinite
  <2>3. Cardinality(r[x]) # 0
    BY <1>15, <2>2, FS_EmptySet
  <2> QED
    BY <1>15, <2>1, <2>2, <2>3
<1>17. ASSUME NEW x \in DOMAIN r, x \notin DOMAIN out
       PROVE  x \in Numbered(DOMAIN out) /\ \E y \in DOMAIN r : r[y] # r[x]
  <2>1. x \in A
    BY <1>9, <1>13, <1>17
  <2>2. PICK n \in large, i \in Digits : r[x] = Chunk(out[n], i)
    BY <1>11, <2>1
  <2>3. \E y \in DOMAIN r : r[y] # Chunk(out[n], i)
    BY <1>12
  <2> QED
    BY <1>13, <2>1, <2>2, <2>3
<1>18. ASSUME DOMAIN out \cap Numbered(DOMAIN out) = {}, NEW n \in DOMAIN out, NEW f \in out[n]
       PROVE  \E x \in DOMAIN r : f \in r[x] /\ r[x] \subseteq out[n]
  <2>1. CASE n \in large
    <3>1. PICK i \in Digits : f \in Chunk(out[n], i)
      BY <1>2, Chunks
    <3>2. Append(n, i) \in A
      BY <1>4, <2>1, <3>1
    <3>3. r[Append(n, i)] = Chunk(out[n], i)
      BY <1>1, <1>3, <3>2
    <3> QED
      BY <1>9, <1>12, <2>1, <3>1, <3>2, <3>3
  <2>2. CASE n \in small
    <3>1. n \notin A
      BY <1>13, <1>18
    <3> QED
      BY <1>9, <1>10, <2>2, <3>1
  <2> QED
    BY <1>8, <2>1, <2>2
<1> QED
  BY <1>14, <1>15, <1>16, <1>17, <1>18 DEF IsFieldGroups, r
-----------------------------------------------------------------------------
(* A finished path.                                                        *)

HeadersOf(s) == {HeaderOf[f] : f \in s}

LEMMA MetadataRemoved ==
  ASSUME NEW out, IsGroups(out), \A n \in DOMAIN out : out[n] \in SUBSET Fields, NEW headers
  PROVE  LET r == RemoveMetadata(out, headers)
         IN  /\ IsFieldGroups(r) /\ DOMAIN r \subseteq DOMAIN out
             /\ \A n \in DOMAIN r : HeadersOf(r[n]) \subseteq headers
             /\ \A n \in DOMAIN out : \A f \in out[n] :
                  HeaderOf[f] \in headers => n \in DOMAIN r /\ f \in r[n]
<1> DEFINE r == RemoveMetadata(out, headers)
           valid(n) == {f \in out[n] : HeaderOf[f] \in headers}
           D == {m \in DOMAIN out : valid(m) # {}}
<1>1. r = [n \in D |-> valid(n)]
  BY DEF RemoveMetadata
<1>2. D \subseteq DOMAIN out /\ IsFiniteSet(D)
  BY FS_Subset DEF IsGroups
<1>3. \A n \in DOMAIN out : /\ valid(n) \in SUBSET out[n] /\ HeadersOf(valid(n)) \subseteq headers
                            /\ n \in D <=> valid(n) # {}
                            /\ \A f \in out[n] : HeaderOf[f] \in headers => f \in valid(n)
  BY DEF HeadersOf
<1> HIDE DEF valid, D, r
<1>4. DOMAIN r = D /\ (\A n \in D : r[n] = valid(n)) /\ r = [n \in DOMAIN r |-> r[n]]
  BY <1>1
<1>5. \A n \in D : r[n] # {} /\ r[n] \in SUBSET Fields
  BY <1>2, <1>3, <1>4
<1>6. IsFieldGroups(r)
  BY <1>2, <1>4, <1>5 DEF IsFieldGroups, IsGroups
<1>7. \A n \in D : HeadersOf(r[n]) \subseteq headers
  BY <1>2, <1>3, <1>4
<1>8. ASSUME NEW n \in DOMAIN out, NEW f \in out[n], HeaderOf[f] \in headers
      PROVE  n \in D /\ f \in r[n]
  BY <1>3, <1>4, <1>8
<1> QED
  BY <1>2, <1>4, <1>6, <1>7, <1>8 DEF r

(* What is kept of a finished path: fields of its headers, all of them if  *)
(* the names of its chunks are new, under the names of nodes or, when      *)
(* there are several groups, of their chunks.                              *)
GoodClean(p) ==
  /\ IsFieldGroups(p.clean)
  /\ \A n \in DOMAIN p.clean : /\ HeadersOf(p.clean[n]) \subseteq graph.paths[p.parser]
                               /\ \/ n \in Nodes
                                  \/ /\ n \in Numbered(Nodes)
                                     /\ \E m \in DOMAIN p.clean : p.clean[m] # p.clean[n]
  /\ Nodes \cap Numbered(Nodes) = {} =>
       \A n \in DOMAIN p.out : \A f \in p.out[n] :
         HeaderOf[f] \in graph.paths[p.parser] => \E m \in DOMAIN p.clean : f \in p.clean[m]

LEMMA CleanedIsGood ==
  ASSUME NEW p, p.clean = Cleaned(p), IsGroups(p.out), DOMAIN p.out \subseteq Nodes,
         \A n \in DOMAIN p.out : p.out[n] \in SUBSET Fields
  PROVE  GoodClean(p)
<1> DEFINE headers == graph.paths[p.parser]
           a == RemoveMetadata(p.out, headers)
           b == SplitLarge(a)
           c == RemoveVectorDuplicates(b)
<1>1. p.clean = c
  BY DEF Cleaned
<1>2. /\ IsFieldGroups(a) /\ DOMAIN a \subseteq DOMAIN p.out
      /\ \A n \in DOMAIN a : HeadersOf(a[n]) \subseteq headers
      /\ \A n \in DOMAIN p.out : \A f \in p.out[n] :
           HeaderOf[f] \in headers => n \in DOMAIN a /\ f \in a[n]
  <2> HIDE DEF headers
  <2> QED
    BY MetadataRemoved
<1> HIDE DEF headers, a
<1>3. /\ IsFieldGroups(b)
      /\ \A x \in DOMAIN b : \E n \in DOMAIN a : b[x] \subseteq a[n]
      /\ \A x \in DOMAIN b : \/ x \in DOMAIN a
                             \/ /\ x \in Numbered(DOMAIN a)
                                /\ \E y \in DOMAIN b : b[y] # b[x]
      /\ DOMAIN a \cap Numbered(DOMAIN a) = {} =>
           \A n \in DOMAIN a : \A f \in a[n] : \E x \in DOMAIN b : f \in b[x]
  BY <1>2, LargeSplit
<1> HIDE DEF b
<1>4. /\ IsGroups(c)
      /\ \A n \in DOMAIN c : n \in DOMAIN b /\ c[n] = b[n]
      /\ \A n \in DOMAIN b : \E m \in DOMAIN c : c[m] = b[n]
  BY <1>3, DuplicatesRemoved DEF IsFieldGroups
<1> HIDE DEF c
<1>5. DOMAIN a \subseteq Nodes /\ Numbered(DOMAIN a) \subseteq Numbered(Nodes)
  <2>1. DOMAIN a \subseteq Nodes
    BY <1>2
  <2> QED
    BY <2>1 DEF Numbered
<1>6. IsFieldGroups(c)
  BY <1>3, <1>4 DEF IsFieldGroups
<1>7. ASSUME NEW n \in DOMAIN c PROVE HeadersOf(c[n]) \subseteq headers
  <2>1. PICK m \in DOMAIN a : c[n] \subseteq a[m]
    BY <1>3, <1>4
  <2>2. HeadersOf(c[n]) \subseteq HeadersOf(a[m])
    BY <2>1 DEF HeadersOf
  <2> QED
    BY <1>2, <2>2
<1>8. ASSUME NEW n \in DOMAIN c
      PROVE  n \in Nodes \/ (n \in Numbered(Nodes) /\ \E m \in DOMAIN c : c[m] # c[n])
  BY <1>3, <1>4, <1>5
<1>9. ASSUME Nodes \cap Numbered(Nodes) = {}, NEW n \in DOMAIN p.out, NEW f \in p.out[n],
             HeaderOf[f] \in headers
      PROVE  \E m \in DOMAIN c : f \in c[m]
  <2>1. n \in DOMAIN a /\ f \in a[n]
    BY <1>2, <1>9
  <2>2. DOMAIN a \cap Numbered(DOMAIN a) = {}
    BY <1>5, <1>9
  <2>3. PICK x \in DOMAIN b : f \in b[x]
    BY <1>3, <2>1, <2>2
  <2> QED
    BY <1>4, <2>3
<1> QED
  BY <1>1, <1>6, <1>7, <1>8, <1>9 DEF GoodClean, headers
-----------------------------------------------------------------------------
(* The groups of all finished paths.                                       *)

LEMMA CollectedIs ==
  ASSUME NEW paths
  PROVE  LET c == Collected(paths)
         IN  /\ c = [l \in DOMAIN c |-> c[l]]
             /\ \A l \in DOMAIN c : \E p \in paths : \E n \in DOMAIN p.clean : Label(p, n) = l
             /\ \A l \in DOMAIN c : \A f \in c[l] :
                  \E p \in paths : \E n \in DOMAIN p.clean : Label(p, n) = l /\ f \in p.clean[n]
             /\ \A p \in paths : \A n \in DOMAIN p.clean :
                  Label(p, n) \in DOMAIN c /\ p.clean[n] \subseteq c[Label(p, n)]
<1> DEFINE c == Collected(paths)
           named == UNION {{<<Label(p, n), p.clean[n]>> : n \in DOMAIN p.clean} : p \in paths}
           D == {x[1] : x \in named}
           at(l) == UNION {x[2] : x \in {y \in named : y[1] = l}}
<1>1. c = [l \in D |-> at(l)]
  BY DEF Collected
<1>2. \A x \in named : \E p \in paths : \E n \in DOMAIN p.clean : x = <<Label(p, n), p.clean[n]>>
  OBVIOUS
<1>3. \A p \in paths : \A n \in DOMAIN p.clean : <<Label(p, n), p.clean[n]>> \in named
  OBVIOUS
<1> HIDE DEF named
<1>4. ASSUME NEW l \in D PROVE \E p \in paths : \E n \in DOMAIN p.clean : Label(p, n) = l
  <2>1. PICK x \in named : l = x[1]
    OBVIOUS
  <2>2. PICK p \in paths : \E n \in DOMAIN p.clean : x = <<Label(p, n), p.clean[n]>>
    BY <1>2
  <2>3. PICK n \in DOMAIN p.clean : x = <<Label(p, n), p.clean[n]>>
    BY <2>2
  <2>4. x[1] = Label(p, n) /\ x[2] = p.clean[n]
    BY <2>3
  <2> QED
    BY <2>1, <2>4
<1>5. ASSUME NEW l \in D, NEW f \in at(l)
      PROVE  \E p \in paths : \E n \in DOMAIN p.clean : Label(p, n) = l /\ f \in p.clean[n]
  <2>1. PICK x \in named : x[1] = l /\ f \in x[2]
    OBVIOUS
  <2>2. PICK p \in paths : \E n \in DOMAIN p.clean : x = <<Label(p, n), p.clean[n]>>
    BY <1>2
  <2>3. PICK n \in DOMAIN p.clean : x = <<Label(p, n), p.clean[n]>>
    BY <2>2
  <2>4. x[1] = Label(p, n) /\ x[2] = p.clean[n]
    BY <2>3
  <2> QED
    BY <2>1, <2>4
<1>6. ASSUME NEW p \in paths, NEW n \in DOMAIN p.clean
      PROVE  Label(p, n) \in D /\ p.clean[n] \subseteq at(Label(p, n))
  <2> DEFINE x == <<Label(p, n), p.clean[n]>>
  <2>1. x \in named /\ x[1] = Label(p, n) /\ x[2] = p.clean[n]
    BY <1>3
  <2> HIDE DEF x
  <2> QED
    BY <2>1
<1> HIDE DEF c, D, at
<1>7. DOMAIN c = D /\ (\A l \in D : c[l] = at(l)) /\ c = [l \in DOMAIN c |-> c[l]]
  BY <1>1
<1> QED
  BY <1>4, <1>5, <1>6, <1>7 DEF c

(* The name of a group with its parser path.                               *)
OfParser(n, i) == n \o ParserName(i)

LEMMA OfParserTyped ==
  ASSUME NEW n \in Names, NEW i \in Nat, i > 0
  PROVE  OfParser(n, i) \in Names
<1>1. ParserName(i) \in Seq(Nat)
  <2>1. CASE i <= 10
    BY <2>1 DEF ParserName, ParserCode
  <2>2. CASE ~(i <= 10)
    <3>1. (i - 1) \div 10 \in Nat /\ (i - 1) % 10 \in Nat
      BY <2>2
    <3> QED
      BY <2>2, <3>1 DEF ParserName, ParserCode
  <2> QED
    BY <2>1, <2>2
<1> QED
  BY <1>1 DEF OfParser, Names

LEMMA OfParserIs ==
  ASSUME NEW n \in Names, NEW i \in 1..10
  PROVE  /\ OfParser(n, i) = Append(Append(n, ParserCode), i - 1)
         /\ ParserCode \in Range(OfParser(n, i))
         /\ ParserCode \in Range(Append(n, ParserCode))
<1> DEFINE s == OfParser(n, i)
           t == Append(Append(n, 50), i - 1)
<1>1. Len(n) \in Nat /\ DOMAIN n = 1..Len(n)
  BY DEF Names
<1>2. s = n \o <<50, i - 1>>
  BY DEF OfParser, ParserName, ParserCode
<1>3. t = n \o <<50, i - 1>>
  <2>1. t \in Seq(Nat) /\ n \o <<50, i - 1>> \in Seq(Nat)
    BY DEF Names
  <2>2. Len(t) = Len(n) + 2 /\ Len(n \o <<50, i - 1>>) = Len(n) + 2
    BY DEF Names
  <2>3. \A k \in 1..(Len(n) + 2) : t[k] = (n \o <<50, i - 1>>)[k]
    BY DEF Names
  <2> QED
    BY <1>1, <2>1, <2>2, <2>3
<1>4. Len(n) + 1 \in DOMAIN t /\ t[Len(n) + 1] = 50
  BY <1>1 DEF Names
<1>5. Len(n) + 1 \in DOMAIN Append(n, 50) /\ Append(n, 50)[Len(n) + 1] = 50
  BY <1>1 DEF Names
<1> HIDE DEF t
<1>6. 50 \in Range(t) /\ 50 \in Range(Append(n, 50))
  BY <1>4, <1>5 DEF Range
<1> QED
  BY <1>2, <1>3, <1>6 DEF ParserCode, t

CleanNames == Nodes \cup Numbered(Nodes)
AllClean == \A p \in finished : p.parser \in DOMAIN graph.paths /\ GoodClean(p)

LEMMA CleanNamesFinite ==
  ASSUME IsGraph(graph)
  PROVE  IsFiniteSet(CleanNames) /\ CleanNames \subseteq Names
<1>1. IsFiniteSet(Nodes) /\ Nodes \subseteq Names
  BY DEF IsGraph, Nodes, Names
<1>2. IsFiniteSet(Numbered(Nodes)) /\ Numbered(Nodes) \subseteq Names
  BY <1>1, NumberedFinite
<1>3. IsFiniteSet(CleanNames)
  BY <1>1, <1>2, FS_Union DEF CleanNames
<1> QED
  BY <1>1, <1>2, <1>3 DEF CleanNames

LEMMA Labels ==
  ASSUME NEW p, GoodClean(p), NEW n \in DOMAIN p.clean
  PROVE  /\ n \in CleanNames
         /\ (n \in Nodes /\ Label(p, n) = n) \/ Label(p, n) = OfParser(n, p.parser)
<1>1. n \in Nodes \/ (n \in Numbered(Nodes) /\ \E m \in DOMAIN p.clean : p.clean[m] # p.clean[n])
  BY DEF GoodClean
<1>2. CASE Cardinality(DOMAIN p.clean) > 1
  BY <1>1, <1>2 DEF Label, OfParser, CleanNames
<1>3. CASE ~(Cardinality(DOMAIN p.clean) > 1)
  <2>1. IsFiniteSet(DOMAIN p.clean)
    BY DEF GoodClean, IsFieldGroups, IsGroups
  <2>2. Cardinality(DOMAIN p.clean) = 1
    <3>1. Cardinality(DOMAIN p.clean) # 0 /\ Cardinality(DOMAIN p.clean) \in Nat
      BY <2>1, FS_EmptySet, FS_CardinalityType
    <3> QED
      BY <1>3, <3>1
  <2>3. \E x : DOMAIN p.clean = {x}
    BY <2>1, <2>2, FS_Singleton
  <2>4. n \in Nodes
    BY <1>1, <2>3
  <2> QED
    BY <1>3, <2>4 DEF Label, CleanNames
<1> QED
  BY <1>2, <1>3

LEMMA CollectedGood ==
  ASSUME IsGraph(graph), AllClean
  PROVE  IsFieldGroups(Collected(finished))
<1> DEFINE c == Collected(finished)
           I == DOMAIN graph.paths
           marked == {OfParser(n, i) : n \in CleanNames, i \in I}
           name == [x \in CleanNames \X I |-> OfParser(x[1], x[2])]
<1>1. /\ c = [l \in DOMAIN c |-> c[l]]
      /\ \A l \in DOMAIN c : \E p \in finished : \E n \in DOMAIN p.clean : Label(p, n) = l
      /\ \A l \in DOMAIN c : \A f \in c[l] :
           \E p \in finished : \E n \in DOMAIN p.clean : Label(p, n) = l /\ f \in p.clean[n]
      /\ \A p \in finished : \A n \in DOMAIN p.clean :
           Label(p, n) \in DOMAIN c /\ p.clean[n] \subseteq c[Label(p, n)]
  BY CollectedIs
<1> HIDE DEF c
<1>2. \A p \in finished : \A n \in DOMAIN p.clean : p.clean[n] \in SUBSET Fields /\ p.clean[n] # {}
  BY DEF AllClean, GoodClean, IsFieldGroups
<1>3. IsFiniteSet(CleanNames) /\ CleanNames \subseteq Names
  BY CleanNamesFinite
<1>4. I \subseteq Nat \ {0} /\ IsFiniteSet(I)
  <2> DEFINE k == Len(graph.paths)
  <2>1. k \in Nat /\ I = 1..k
    BY DEF IsGraph
  <2> HIDE DEF k
  <2>2. k \in Int /\ 1 \in Int
    BY <2>1
  <2>3. IsFiniteSet(1..k)
    BY <2>2, FS_Interval
  <2> QED
    BY <2>1, <2>3
<1> HIDE DEF I
<1>5. IsFiniteSet(marked) /\ marked \subseteq Names
  <2>1. name \in [CleanNames \X I -> marked]
    OBVIOUS
  <2>2. \A x \in marked : \E y \in CleanNames \X I : name[y] = x
    <3> TAKE x \in marked
    <3>1. PICK n \in CleanNames, i \in I : x = OfParser(n, i)
      OBVIOUS
    <3>2. <<n, i>> \in CleanNames \X I /\ name[<<n, i>>] = x
      BY <3>1
    <3> QED
      BY <3>2
  <2>3. ASSUME NEW x \in marked PROVE x \in Names
    <3>1. PICK n \in CleanNames, i \in I : x = OfParser(n, i)
      OBVIOUS
    <3>2. n \in Names /\ i \in Nat /\ i > 0
      BY <1>3, <1>4
    <3> QED
      BY <3>1, <3>2, OfParserTyped
  <2> HIDE DEF name, marked
  <2>4. name \in Surjection(CleanNames \X I, marked)
    BY <2>1, <2>2 DEF Surjection
  <2>5. IsFiniteSet(CleanNames \X I)
    BY <1>3, <1>4, FS_Product
  <2> QED
    BY <2>3, <2>4, <2>5, FS_Surjection
<1>6. ASSUME NEW l \in DOMAIN c PROVE l \in CleanNames \cup marked
  <2>1. PICK p \in finished : \E n \in DOMAIN p.clean : Label(p, n) = l
    BY <1>1
  <2>2. PICK n \in DOMAIN p.clean : Label(p, n) = l
    BY <2>1
  <2>3. GoodClean(p) /\ p.parser \in I
    BY DEF AllClean, I
  <2>4. n \in CleanNames /\ (Label(p, n) = n \/ Label(p, n) = OfParser(n, p.parser))
    BY <2>3, Labels
  <2> QED
    BY <2>2, <2>3, <2>4
<1> HIDE DEF marked
<1>7. IsGroups(c)
  <2>1. IsFiniteSet(CleanNames \cup marked)
    BY <1>3, <1>5, FS_Union
  <2>2. IsFiniteSet(DOMAIN c)
    BY <1>6, <2>1, FS_Subset
  <2> QED
    BY <1>1, <1>3, <1>5, <1>6, <2>2 DEF IsGroups
<1>8. ASSUME NEW l \in DOMAIN c PROVE c[l] \in SUBSET Fields /\ c[l] # {}
  <2>1. PICK p \in finished : \E n \in DOMAIN p.clean : Label(p, n) = l
    BY <1>1
  <2>2. PICK n \in DOMAIN p.clean : Label(p, n) = l
    BY <2>1
  <2>3. c[l] # {}
    BY <1>1, <1>2, <2>2
  <2>4. ASSUME NEW f \in c[l] PROVE f \in Fields
    BY <1>1, <1>2
  <2> QED
    BY <2>3, <2>4
<1> QED
  BY <1>7, <1>8 DEF IsFieldGroups, c

(* If names are distinct, two groups that are merged have the same headers, *)
(* and the names of chunks are new again.                                  *)
LEMMA MergedAlike ==
  ASSUME IsGraph(graph), AllClean, NamesDistinct,
         NEW p \in finished, NEW q \in finished,
         NEW m \in DOMAIN p.clean, NEW n \in DOMAIN q.clean, Label(p, m) = Label(q, n)
  PROVE  graph.paths[p.parser] = graph.paths[q.parser]
<1>1. /\ GoodClean(p) /\ GoodClean(q)
      /\ p.parser \in 1..10 /\ q.parser \in 1..10
  BY DEF AllClean, IsGraph, NamesDistinct
<1>2. CleanNames \subseteq Names
  BY CleanNamesFinite
<1>3. /\ m \in CleanNames /\ ((m \in Nodes /\ Label(p, m) = m) \/ Label(p, m) = OfParser(m, p.parser))
      /\ n \in CleanNames /\ ((n \in Nodes /\ Label(q, n) = n) \/ Label(q, n) = OfParser(n, q.parser))
  BY <1>1, Labels
<1>4. m \in Names /\ n \in Names
  BY <1>2, <1>3
<1>5. /\ OfParser(m, p.parser) = Append(Append(m, ParserCode), p.parser - 1)
      /\ OfParser(n, q.parser) = Append(Append(n, ParserCode), q.parser - 1)
      /\ ParserCode \in Range(OfParser(m, p.parser)) /\ ParserCode \in Range(OfParser(n, q.parser))
  BY <1>1, <1>4, OfParserIs
<1>6. \A x \in Nodes : ParserCode \notin Range(x)
  BY DEF NamesDistinct
<1>7. CASE Label(p, m) = m /\ Label(q, n) = n
  <2>1. m = n
    BY <1>7
  <2>2. m \in DOMAIN p.clean \cap DOMAIN q.clean
    BY <2>1
  <2> QED
    BY <1>7, <2>1, <2>2 DEF NamesDistinct
<1>8. CASE Label(p, m) = OfParser(m, p.parser) /\ Label(q, n) = OfParser(n, q.parser)
  <2>1. Append(m, ParserCode) \in Names /\ Append(n, ParserCode) \in Names
    BY <1>4, Numbers DEF ParserCode
  <2>2. p.parser - 1 \in Nat /\ q.parser - 1 \in Nat
    BY <1>1
  <2>3. /\ Last(OfParser(m, p.parser)) = p.parser - 1
        /\ Last(OfParser(n, q.parser)) = q.parser - 1
    BY <1>5, <2>1, <2>2, Numbers
  <2>4. p.parser - 1 = q.parser - 1
    <3>1. OfParser(m, p.parser) = OfParser(n, q.parser)
      BY <1>8
    <3> QED
      BY <2>3, <3>1, Zenon
  <2>5. p.parser = q.parser
    BY <1>1, <2>4
  <2> QED
    BY <2>5
<1> QED
  BY <1>3, <1>5, <1>6, <1>7, <1>8

LEMMA CollectedApart ==
  ASSUME IsGraph(graph), AllClean, NamesDistinct
  PROVE  LET c == Collected(finished)
         IN  DOMAIN c \cap Numbered(DOMAIN c) = {}
<1> DEFINE c == Collected(finished)
<1>1. ASSUME NEW l \in DOMAIN c
      PROVE  \/ l \in Nodes
             \/ \E n \in CleanNames : \E d \in 0..9 : l = Append(Append(n, ParserCode), d)
  <2>1. \A k \in DOMAIN c : \E p \in finished : \E n \in DOMAIN p.clean : Label(p, n) = k
    BY CollectedIs
  <2> HIDE DEF c
  <2>2. PICK p \in finished : \E n \in DOMAIN p.clean : Label(p, n) = l
    BY <2>1
  <2>3. PICK n \in DOMAIN p.clean : Label(p, n) = l
    BY <2>2
  <2>4. GoodClean(p) /\ p.parser \in 1..10
    BY DEF AllClean, IsGraph, NamesDistinct
  <2>5. n \in CleanNames /\ ((n \in Nodes /\ l = n) \/ l = OfParser(n, p.parser))
    BY <2>3, <2>4, Labels
  <2>6. n \in Names
    BY <2>5, CleanNamesFinite
  <2>7. p.parser - 1 \in 0..9
    BY <2>4
  <2>8. OfParser(n, p.parser) = Append(Append(n, ParserCode), p.parser - 1)
    BY <2>4, <2>6, OfParserIs
  <2> QED
    BY <2>5, <2>7, <2>8
<1>2. \A x \in Nodes : x \in Names /\ ParserCode \notin Range(x) /\ \A m \in Nodes : \A d \in 0..9 : Append(m, d) # x
  BY DEF NamesDistinct, IsGraph, Nodes, Names
<1>3. \A n \in CleanNames : n \in Names /\ Append(n, ParserCode) \in Names
  BY CleanNamesFinite, Numbers DEF ParserCode
<1>4. \A n \in CleanNames : \A d \in 0..9 :
        /\ ParserCode \in Range(Append(n, ParserCode))
        /\ ParserCode \in Range(Append(Append(n, ParserCode), d))
  <2> TAKE n \in CleanNames
  <2> TAKE d \in 0..9
  <2>1. n \in Names /\ d + 1 \in 1..10 /\ d + 1 - 1 = d
    BY <1>3
  <2>2. /\ OfParser(n, d + 1) = Append(Append(n, ParserCode), d + 1 - 1)
        /\ ParserCode \in Range(OfParser(n, d + 1)) /\ ParserCode \in Range(Append(n, ParserCode))
    BY <2>1, OfParserIs
  <2> QED
    BY <2>1, <2>2
<1> HIDE DEF c
<1>5. ASSUME NEW k \in DOMAIN c, NEW l \in DOMAIN c, NEW i \in 0..9, l = Append(k, i)
      PROVE  FALSE
  <2>1. i \in Nat
    OBVIOUS
  <2>2. CASE k \in Nodes /\ l \in Nodes
    BY <1>2, <1>5, <2>2
  <2>3. CASE l \in Nodes /\ \E n \in CleanNames : \E d \in 0..9 : k = Append(Append(n, ParserCode), d)
    <3>1. PICK n \in CleanNames, d \in 0..9 : k = Append(Append(n, ParserCode), d)
      BY <2>3
    <3>2. k \in Names
      BY <1>3, <3>1, Numbers
    <3>3. ParserCode \in Range(k)
      BY <1>4, <3>1
    <3>4. ParserCode \in Range(l)
      <4>1. Len(k) \in Nat /\ DOMAIN k = 1..Len(k)
        BY <3>2 DEF Names
      <4>2. PICK j \in 1..Len(k) : k[j] = ParserCode
        BY <3>3, <4>1 DEF Range
      <4>3. j \in DOMAIN l /\ l[j] = ParserCode
        BY <1>5, <3>2, <4>1, <4>2 DEF Names
      <4> QED
        BY <4>3 DEF Range
    <3> QED
      BY <1>2, <2>3, <3>4
  <2>4. CASE \E m \in CleanNames : \E e \in 0..9 : l = Append(Append(m, ParserCode), e)
    <3>1. PICK m \in CleanNames, e \in 0..9 : l = Append(Append(m, ParserCode), e)
      BY <2>4
    <3>2. Front(l) = Append(m, ParserCode)
      <4>1. Append(m, ParserCode) \in Names /\ e \in Nat
        BY <1>3
      <4> QED
        BY <3>1, <4>1, Numbers
    <3>3. k \in Names
      <4>1. CASE k \in Nodes
        BY <1>2, <4>1
      <4>2. CASE \E n \in CleanNames : \E d \in 0..9 : k = Append(Append(n, ParserCode), d)
        <5>1. PICK n \in CleanNames, d \in 0..9 : k = Append(Append(n, ParserCode), d)
          BY <4>2
        <5>2. Append(n, ParserCode) \in Names /\ d \in Nat
          BY <1>3
        <5> QED
          BY <5>1, <5>2, Numbers
      <4> QED
        BY <1>1, <4>1, <4>2
    <3>4. Front(l) = k
      BY <1>5, <2>1, <3>3, Numbers
    <3>5. k = Append(m, ParserCode)
      BY <3>2, <3>4
    <3>6. CASE k \in Nodes
      BY <1>2, <1>4, <3>5, <3>6
    <3>7. CASE \E n \in CleanNames : \E d \in 0..9 : k = Append(Append(n, ParserCode), d)
      <4>1. PICK n \in CleanNames, d \in 0..9 : k = Append(Append(n, ParserCode), d)
        BY <3>7
      <4>2. Last(k) = d
        <5>1. Append(n, ParserCode) \in Names /\ d \in Nat
          BY <1>3
        <5> QED
          BY <4>1, <5>1, Numbers
      <4>3. Last(k) = ParserCode
        <5>1. m \in Names /\ ParserCode \in Nat
          BY <1>3 DEF ParserCode
        <5> QED
          BY <3>5, <5>1, Numbers
      <4> QED
        BY <4>2, <4>3 DEF ParserCode
    <3> QED
      BY <1>1, <3>6, <3>7
  <2> QED
    BY <1>1, <2>2, <2>3, <2>4
<1>6. ASSUME NEW l \in DOMAIN c, l \in Numbered(DOMAIN c) PROVE FALSE
  <2>1. PICK k \in DOMAIN c, i \in Digits : l = Append(k, i)
    BY <1>6 DEF Numbered
  <2>2. i \in 0..9
    BY DEF Digits, MaxChunks
  <2> QED
    BY <1>5, <2>1, <2>2
<1> QED
  BY <1>6 DEF c

LEMMA CollectedHeaders ==
  ASSUME IsGraph(graph), AllClean, NamesDistinct, NEW l \in DOMAIN Collected(finished)
  PROVE  \E i \in DOMAIN graph.paths : HeadersOf(Collected(finished)[l]) \subseteq graph.paths[i]
<1> DEFINE c == Collected(finished)
<1>1. /\ \A k \in DOMAIN c : \E p \in finished : \E n \in DOMAIN p.clean : Label(p, n) = k
      /\ \A k \in DOMAIN c : \A f \in c[k] :
           \E p \in finished : \E n \in DOMAIN p.clean : Label(p, n) = k /\ f \in p.clean[n]
  BY CollectedIs
<1>2. l \in DOMAIN c
  OBVIOUS
<1> HIDE DEF c
<1>3. PICK p \in finished : \E n \in DOMAIN p.clean : Label(p, n) = l
  BY <1>1, <1>2
<1>4. PICK m \in DOMAIN p.clean : Label(p, m) = l
  BY <1>3
<1>5. ASSUME NEW f \in c[l] PROVE HeaderOf[f] \in graph.paths[p.parser]
  <2>1. PICK q \in finished : \E n \in DOMAIN q.clean : Label(q, n) = l /\ f \in q.clean[n]
    BY <1>1, <1>2
  <2>2. PICK n \in DOMAIN q.clean : Label(q, n) = l /\ f \in q.clean[n]
    BY <2>1
  <2>3. graph.paths[p.parser] = graph.paths[q.parser]
    BY <1>4, <2>2, MergedAlike
  <2>4. HeadersOf(q.clean[n]) \subseteq graph.paths[q.parser]
    BY DEF AllClean, GoodClean
  <2> QED
    BY <2>2, <2>3, <2>4 DEF HeadersOf
<1>6. HeadersOf(c[l]) \subseteq graph.paths[p.parser]
  BY <1>5 DEF HeadersOf
<1>7. p.parser \in DOMAIN graph.paths
  BY DEF AllClean
<1> QED
  BY <1>6, <1>7 DEF c
-----------------------------------------------------------------------------
(* The dictionaries stay sets of fields.                                   *)

Dicts == UNION {[D -> SUBSET Fields] : D \in SUBSET Fields}
Outs(g) == UNION {[D -> SUBSET Fields] : D \in SUBSET NodesOf(g)}

LEMMA PlusTyped ==
  ASSUME NEW K, NEW d \in UNION {[D -> SUBSET Fields] : D \in SUBSET K}, NEW k \in K,
         NEW more \in SUBSET Fields
  PROVE  Plus(d, k, more) \in UNION {[D -> SUBSET Fields] : D \in SUBSET K}
<1>1. PICK D \in SUBSET K : d \in [D -> SUBSET Fields]
  OBVIOUS
<1>2. At(d, k) \in SUBSET Fields
  BY <1>1 DEF At
<1>3. Plus(d, k, more) \in [D \cup {k} -> SUBSET Fields]
  BY <1>1, <1>2 DEF Plus
<1>4. D \cup {k} \in SUBSET K
  OBVIOUS
<1> QED
  BY <1>3, <1>4

LEMMA SourcesTyped ==
  ASSUME NEW d \in Dicts, NEW fs \in SUBSET Fields
  PROVE  WithSources(d, fs) \in SUBSET Fields
<1>1. \A f \in fs : At(d, f) \in SUBSET Fields
  BY DEF At, Dicts
<1> QED
  BY <1>1 DEF WithSources

LEMMA NumberOfFields == NF \in Nat /\ NF * NF \in Nat /\ Fields = 1..NF
<1>1. NF \in Nat /\ Fields = 1..NF
  BY GraphsAssumption DEF NF, ChunkSize, MaxChunks
<1> HIDE DEF NF
<1> QED
  BY <1>1

LEMMA PairsTyped ==
  ASSUME NEW dict \in Dicts, NEW keys \in SUBSET Fields, NEW pairs \in SUBSET (Fields \X Fields)
  PROVE  PairsExecuted(dict, keys, pairs) \in Dicts
<1> DEFINE N == NF * NF
           V == Dicts
           Next1(i, l) == IF PairAt(i) \in pairs THEN Paired(l, keys, PairAt(i)) ELSE l
           Step == [i \in 1..N |-> [l \in V |-> Next1(i, l)]]
           Is(u) == u = [i \in 0..N |->
                           IF i = 0 THEN dict
                           ELSE IF PairAt(i) \in pairs THEN Paired(u[i - 1], keys, PairAt(i)) ELSE u[i - 1]]
<1>1. N \in Nat /\ dict \in V
  BY NumberOfFields
<1>2. ASSUME NEW i \in 1..N, NEW l \in V PROVE Next1(i, l) \in V
  <2> DEFINE x == PairAt(i)
  <2>1. CASE x \in pairs
    <3>1. x[1] \in Fields /\ {x[2]} \cup keys \in SUBSET Fields
      BY <2>1
    <3> HIDE DEF x
    <3>2. WithSources(l, {x[2]} \cup keys) \in SUBSET Fields
      BY <3>1, SourcesTyped
    <3>3. Paired(l, keys, x) \in Dicts
      BY <3>1, <3>2, PlusTyped DEF Dicts, Paired
    <3> QED
      BY <2>1, <3>3 DEF x
  <2> QED
    BY <2>1
<1>3. IsStep(Step, N, V)
  <2> HIDE DEF V, Next1
  <2> QED
    BY <1>2 DEF IsStep
<1>4. \E f : IsRecursive(f, N, V, dict, Step)
  <2> HIDE DEF V, Step, N
  <2> QED
    BY <1>1, <1>3, RecursionUpTo
<1>5. PICK f : f \in [0..N -> V] /\ f[0] = dict /\ \A i \in 1..N : f[i] = Step[i][f[i - 1]]
  <2> HIDE DEF V, Step, N
  <2> QED
    BY <1>4 DEF IsRecursive
<1> HIDE DEF N, V
<1>6. \A u : Is(u) <=> u = [i \in 0..N |-> IF i = 0 THEN dict ELSE Next1(i, u[i - 1])]
  OBVIOUS
<1> HIDE DEF Next1
<1>7. Is(f)
  <2>1. ASSUME NEW i \in 0..N
        PROVE  f[i] = IF i = 0 THEN dict ELSE Next1(i, f[i - 1])
    <3>1. CASE i = 0
      BY <1>5, <3>1
    <3>2. CASE i # 0
      <4>1. i \in 1..N /\ f[i - 1] \in V
        BY <1>1, <1>5, <3>2
      <4> QED
        BY <1>5, <3>2, <4>1
    <3> QED
      BY <3>1, <3>2
  <2> HIDE DEF Step, Is
  <2>2. f = [i \in 0..N |-> IF i = 0 THEN dict ELSE Next1(i, f[i - 1])]
    BY <1>5, <2>1
  <2> QED
    BY <1>6, <2>2
<1> DEFINE U == CHOOSE u : Is(u)
<1>8. PairsExecuted(dict, keys, pairs) = U[N]
  BY DEF PairsExecuted, N
<1>9. U = [i \in 0..N |-> IF i = 0 THEN dict ELSE Next1(i, U[i - 1])]
  <2>1. Is(U)
    <3> HIDE DEF Is
    <3> QED
      BY <1>7
  <2> HIDE DEF Is, U
  <2> QED
    BY <1>6, <2>1
<1> HIDE DEF U, Is
<1>10. U[0] = dict /\ \A i \in 1..N : U[i] = Next1(i, U[i - 1])
  BY <1>1, <1>9
<1> DEFINE T == {i \in 0..N : U[i] \in V}
<1>11. 0 \in T /\ \A i \in 1..N : i - 1 \in T => i \in T
  BY <1>1, <1>2, <1>10
<1> HIDE DEF T
<1>12. N \in T
  <2>1. 0..N \subseteq T
    BY <1>1, <1>11, InductionUpTo
  <2> QED
    BY <1>1, <2>1
<1> QED
  BY <1>8, <1>12 DEF T, V

LEMMA SetsTyped ==
  ASSUME NEW dict \in Dicts, NEW keys \in SUBSET Fields, NEW sets \in SUBSET Fields
  PROVE  SetsExecuted(dict, keys, sets) \in Dicts
<1> DEFINE N == NF
           V == Dicts
           Next1(i, l) == IF i \in sets THEN Plus(l, i, WithSources(l, keys)) ELSE l
           Step == [i \in 1..N |-> [l \in V |-> Next1(i, l)]]
           Is(u) == u = [i \in 0..N |->
                           IF i = 0 THEN dict
                           ELSE IF i \in sets THEN Plus(u[i - 1], i, WithSources(u[i - 1], keys)) ELSE u[i - 1]]
<1>1. N \in Nat /\ dict \in V
  BY NumberOfFields
<1>2. ASSUME NEW i \in 1..N, NEW l \in V PROVE Next1(i, l) \in V
  <2>1. CASE i \in sets
    <3>1. WithSources(l, keys) \in SUBSET Fields
      BY SourcesTyped
    <3>2. Plus(l, i, WithSources(l, keys)) \in Dicts
      BY <2>1, <3>1, PlusTyped DEF Dicts
    <3> QED
      BY <2>1, <3>2
  <2> QED
    BY <2>1
<1>3. IsStep(Step, N, V)
  <2> HIDE DEF V, Next1
  <2> QED
    BY <1>2 DEF IsStep
<1>4. \E f : IsRecursive(f, N, V, dict, Step)
  <2> HIDE DEF V, Step, N
  <2> QED
    BY <1>1, <1>3, RecursionUpTo
<1>5. PICK f : f \in [0..N -> V] /\ f[0] = dict /\ \A i \in 1..N : f[i] = Step[i][f[i - 1]]
  <2> HIDE DEF V, Step, N
  <2> QED
    BY <1>4 DEF IsRecursive
<1> HIDE DEF N, V
<1>6. \A u : Is(u) <=> u = [i \in 0..N |-> IF i = 0 THEN dict ELSE Next1(i, u[i - 1])]
  OBVIOUS
<1> HIDE DEF Next1
<1>7. Is(f)
  <2>1. ASSUME NEW i \in 0..N
        PROVE  f[i] = IF i = 0 THEN dict ELSE Next1(i, f[i - 1])
    <3>1. CASE i = 0
      BY <1>5, <3>1
    <3>2. CASE i # 0
      <4>1. i \in 1..N /\ f[i - 1] \in V
        BY <1>1, <1>5, <3>2
      <4> QED
        BY <1>5, <3>2, <4>1
    <3> QED
      BY <3>1, <3>2
  <2> HIDE DEF Step, Is
  <2>2. f = [i \in 0..N |-> IF i = 0 THEN dict ELSE Next1(i, f[i - 1])]
    BY <1>5, <2>1
  <2> QED
    BY <1>6, <2>2
<1> DEFINE U == CHOOSE u : Is(u)
<1>8. SetsExecuted(dict, keys, sets) = U[N]
  BY DEF SetsExecuted, N
<1>9. U = [i \in 0..N |-> IF i = 0 THEN dict ELSE Next1(i, U[i - 1])]
  <2>1. Is(U)
    <3> HIDE DEF Is
    <3> QED
      BY <1>7
  <2> HIDE DEF Is, U
  <2> QED
    BY <1>6, <2>1
<1> HIDE DEF U, Is
<1>10. U[0] = dict /\ \A i \in 1..N : U[i] = Next1(i, U[i - 1])
  BY <1>1, <1>9
<1> DEFINE T == {i \in 0..N : U[i] \in V}
<1>11. 0 \in T /\ \A i \in 1..N : i - 1 \in T => i \in T
  BY <1>1, <1>2, <1>10
<1> HIDE DEF T
<1>12. N \in T
  <2>1. 0..N \subseteq T
    BY <1>1, <1>11, InductionUpTo
  <2> QED
    BY <1>1, <2>1
<1> QED
  BY <1>8, <1>12 DEF T, V

LEMMA ExecutedTyped ==
  ASSUME NEW dict \in Dicts, NEW keys \in SUBSET Fields, NEW a,
         a.pairs \in SUBSET (Fields \X Fields), a.sets \in SUBSET Fields
  PROVE  Executed(dict, keys, a) \in Dicts
<1>1. PairsExecuted(dict, keys, a.pairs) \in Dicts
  BY PairsTyped
<1> QED
  BY <1>1, SetsTyped DEF Executed
-----------------------------------------------------------------------------
(* The queue.                                                              *)

LEMMA SetAsSequence ==
  ASSUME NEW S, IsFiniteSet(S)
  PROVE  SetToSeq(S) \in [1..Cardinality(S) -> S] /\ Cardinality(S) \in Nat
<1> DEFINE n == Cardinality(S)
<1>1. n \in Nat /\ ExistsBijection(1..n, S)
  BY FS_CardinalityType
<1>2. \E f \in [1..n -> S] : IsInjective(f)
  BY <1>1 DEF ExistsBijection, Bijection, Injection
<1> HIDE DEF n
<1>3. (CHOOSE f \in [1..n -> S] : IsInjective(f)) \in [1..n -> S]
  BY <1>2
<1> QED
  BY <1>1, <1>3 DEF SetToSeq, n

LEMMA Flattened ==
  ASSUME NEW X, NEW seqs \in Seq(Seq(X))
  PROVE  FlattenSeq(seqs) \in Seq(X)
<1> DEFINE N == Len(seqs)
           V == Seq(X)
           Step == [i \in 1..N |-> [l \in V |-> l \o seqs[i]]]
           Is(u) == u = [i \in 1..N |-> IF i = 1 THEN seqs[i] ELSE u[i - 1] \o seqs[i]]
<1>1. N \in Nat /\ <<>> \in V /\ \A i \in 1..N : seqs[i] \in V
  OBVIOUS
<1>2. \A i \in 1..N, l \in V : l \o seqs[i] \in V /\ <<>> \o seqs[i] = seqs[i]
  <2> TAKE i \in 1..N, l \in V
  <2> DEFINE s == seqs[i]
  <2>1. s \in Seq(X) /\ l \in Seq(X)
    BY <1>1
  <2> HIDE DEF s
  <2>2. l \o s \in Seq(X) /\ <<>> \o s = s
    BY <2>1
  <2> QED
    BY <2>2 DEF s
<1>3. IsStep(Step, N, V)
  <2> HIDE DEF V, N
  <2> QED
    BY <1>2 DEF IsStep
<1>4. \E f : IsRecursive(f, N, V, <<>>, Step)
  <2> HIDE DEF V, Step, N
  <2> QED
    BY <1>1, <1>3, RecursionUpTo
<1>5. PICK f : f \in [0..N -> V] /\ f[0] = <<>> /\ \A i \in 1..N : f[i] = Step[i][f[i - 1]]
  <2> HIDE DEF V, Step, N
  <2> QED
    BY <1>4 DEF IsRecursive
<1> HIDE DEF N, V
<1> DEFINE g == [i \in 1..N |-> f[i]]
<1>6. Is(g)
  <2>1. ASSUME NEW i \in 1..N PROVE g[i] = IF i = 1 THEN seqs[i] ELSE g[i - 1] \o seqs[i]
    <3>1. i \in 0..N /\ i - 1 \in 0..N /\ f[i - 1] \in V /\ g[i] = f[i]
      BY <1>1, <1>5
    <3>2. f[i] = f[i - 1] \o seqs[i]
      BY <1>5, <3>1
    <3>3. CASE i = 1
      <4>1. i - 1 = 0 /\ f[i - 1] = <<>>
        BY <1>5, <3>3
      <4>2. <<>> \o seqs[i] = seqs[i]
        BY <1>1, <1>2
      <4>3. f[i] = seqs[i]
        BY <3>2, <4>1, <4>2
      <4> QED
        BY <3>1, <3>3, <4>3
    <3>4. CASE i # 1
      <4>1. i - 1 \in 1..N
        BY <1>1, <3>4
      <4> QED
        BY <3>1, <3>2, <3>4, <4>1
    <3> QED
      BY <3>3, <3>4
  <2>2. g = [i \in 1..N |-> g[i]]
    OBVIOUS
  <2> HIDE DEF g
  <2> QED
    BY <2>1, <2>2
<1> HIDE DEF g
<1> DEFINE U == CHOOSE u : Is(u)
<1>7. Len(seqs) = 0 \/ FlattenSeq(seqs) = U[N]
  BY DEF FlattenSeq, N
<1>8. Is(U)
  <2> HIDE DEF Is
  <2> QED
    BY <1>6
<1> HIDE DEF U
<1>9. \A i \in 1..N : U[i] = IF i = 1 THEN seqs[i] ELSE U[i - 1] \o seqs[i]
  BY <1>8
<1> DEFINE T == {i \in 0..N : i = 0 \/ U[i] \in V}
<1>10. 0 \in T /\ \A i \in 1..N : i - 1 \in T => i \in T
  <2>1. 0 \in T
    BY <1>1
  <2>2. ASSUME NEW i \in 1..N, i - 1 \in T PROVE i \in T
    <3>1. CASE i = 1
      BY <1>1, <1>9, <3>1
    <3>2. CASE i # 1
      <4>1. U[i - 1] \in V
        BY <1>1, <2>2, <3>2
      <4>2. U[i] \in V
        BY <1>2, <1>9, <3>2, <4>1
      <4> QED
        BY <1>1, <4>2
    <3> QED
      BY <3>1, <3>2
  <2> QED
    BY <2>1, <2>2
<1> HIDE DEF T
<1>11. N \in T
  <2>1. 0..N \subseteq T
    BY <1>1, <1>10, InductionUpTo
  <2> QED
    BY <1>1, <2>1
<1>12. CASE N = 0
  BY <1>12 DEF FlattenSeq, N
<1>13. CASE N # 0
  BY <1>7, <1>11, <1>13 DEF T, V, N
<1> QED
  BY <1>12, <1>13
-----------------------------------------------------------------------------
(* Types: what a path on its way may be, N its nodes.                      *)

Steps(g) == {<<n>> : n \in NodesOf(g)}
              \cup UNION {{<<n, a>> : a \in g.tables[n].actions} : n \in DOMAIN g.tables}
Paths(g, N) == [parser : DOMAIN g.paths, node : N, dict : Dicts, out : Outs(g),
                clean : {Nothing}, steps : Seq(Steps(g))]
Walks(g) == Paths(g, NodesOf(g))

IsFinished(p) == /\ p.parser \in DOMAIN graph.paths /\ p.node \in Nodes
                 /\ p.dict \in Dicts /\ p.out \in Outs(graph)

PathsInv ==
  /\ graph \in Graphs /\ IsGraph(graph)
  /\ phase \in {"walk", "clean", "done"}
  /\ queue \in Seq(Walks(graph))
  /\ phase = "walk" => finished \subseteq Walks(graph)
  /\ phase # "walk" => queue = <<>> /\ \A p \in finished : p.clean = Cleaned(p)
  /\ \A p \in finished : IsFinished(p)
  /\ groups = IF phase = "done" THEN RemoveVectorDuplicates(SplitLarge(Collected(finished)))
              ELSE Nothing

LEMMA GoOnTyped ==
  ASSUME NEW g, IsGraph(g), NEW N, NEW p \in Paths(g, N), NEW nodes \in SUBSET NodesOf(g)
  PROVE  GoOn(p, nodes) \in Seq(Walks(g))
<1> DEFINE s == SetToSeq(nodes)
<1>1. IsFiniteSet(nodes)
  BY FS_Subset DEF IsGraph
<1>2. s \in [1..Cardinality(nodes) -> nodes] /\ Cardinality(nodes) \in Nat
  BY <1>1, SetAsSequence
<1> HIDE DEF s
<1>3. ASSUME NEW n \in nodes PROVE [p EXCEPT !.node = n] \in Walks(g)
  BY DEF Paths, Walks
<1>4. [i \in DOMAIN s |-> [p EXCEPT !.node = s[i]]] \in [1..Cardinality(nodes) -> Walks(g)]
  BY <1>2, <1>3
<1>5. GoOn(p, nodes) \in [1..Cardinality(nodes) -> Walks(g)]
  BY <1>4 DEF GoOn, s
<1> QED
  BY <1>2, <1>5, SeqDef

LEMMA WalksFinished ==
  ASSUME NEW p \in Walks(graph)
  PROVE  IsFinished(p)
BY DEF Walks, Paths, IsFinished, Nodes

LEMMA EmptyTyped == Nothing \in Dicts /\ \A g : Nothing \in Outs(g)
<1>1. Nothing \in [{} -> SUBSET Fields]
  BY DEF Nothing
<1> QED
  BY <1>1 DEF Dicts, Outs

LEMMA PathsInit == Init => PathsInv
<1> SUFFICES ASSUME Init PROVE PathsInv
  OBVIOUS
<1> DEFINE start(i) == [parser |-> i, node |-> <<>>, dict |-> Nothing, out |-> Nothing,
                        clean |-> Nothing, steps |-> <<>>]
           seqs == [i \in DOMAIN graph.paths |-> GoOn(start(i), graph.root)]
<1>1. graph \in Graphs /\ IsGraph(graph)
  BY GraphsAssumption DEF Init
<1>2. queue = FlattenSeq(seqs)
  BY DEF Init
<1>3. ASSUME NEW i \in DOMAIN graph.paths PROVE GoOn(start(i), graph.root) \in Seq(Walks(graph))
  <2>1. start(i) \in Paths(graph, {<<>>})
    BY EmptyTyped DEF Paths
  <2> HIDE DEF start
  <2>2. graph.root \in SUBSET NodesOf(graph)
    BY <1>1 DEF IsGraph
  <2> QED
    BY <1>1, <2>1, <2>2, GoOnTyped
<1>4. seqs \in Seq(Seq(Walks(graph)))
  <2> DEFINE l == Len(graph.paths)
  <2>1. l \in Nat /\ DOMAIN graph.paths = 1..l
    BY <1>1 DEF IsGraph
  <2> HIDE DEF l, start
  <2>2. seqs \in [1..l -> Seq(Walks(graph))]
    BY <1>3, <2>1
  <2> HIDE DEF seqs
  <2> QED
    BY <2>1, <2>2, SeqDef
<1> HIDE DEF seqs
<1>5. queue \in Seq(Walks(graph))
  BY <1>2, <1>4, Flattened
<1> QED
  BY <1>1, <1>5 DEF Init, PathsInv

LEMMA LookedTyped ==
  ASSUME NEW p \in Walks(graph), NEW keys \in SUBSET Fields
  PROVE  [p EXCEPT !.out = Plus(@, p.node, WithSources(p.dict, keys))] \in Walks(graph)
<1>1. p.out \in Outs(graph) /\ p.node \in NodesOf(graph) /\ p.dict \in Dicts
  BY DEF Walks, Paths
<1>2. WithSources(p.dict, keys) \in SUBSET Fields
  BY <1>1, SourcesTyped
<1>3. Plus(p.out, p.node, WithSources(p.dict, keys)) \in Outs(graph)
  BY <1>1, <1>2, PlusTyped DEF Outs
<1> QED
  BY <1>3 DEF Walks, Paths

LEMMA TableSteps ==
  ASSUME NEW g, NEW n \in DOMAIN g.tables, NEW a \in g.tables[n].actions
  PROVE  <<n, a>> \in Steps(g)
<1>1. <<n, a>> \in {<<n, b>> : b \in g.tables[n].actions}
  OBVIOUS
<1>2. {<<n, b>> : b \in g.tables[n].actions}
        \in {{<<m, b>> : b \in g.tables[m].actions} : m \in DOMAIN g.tables}
  OBVIOUS
<1> QED
  BY <1>1, <1>2 DEF Steps

LEMMA ExecuteTableStep ==
  ASSUME PathsInv, ExecuteTable PROVE PathsInv'
<1> DEFINE g == graph
           p == Head(queue)
           t == graph.tables[p.node]
           looked == [p EXCEPT !.out = Plus(@, p.node, WithSources(p.dict, t.keys))]
           after(a) == [looked EXCEPT !.dict = Executed(@, t.keys, a),
                                      !.steps = Append(@, <<p.node, a>>)]
           ends(a) == a.drop \/ t.children = {}
           going == {a \in t.actions : ~ends(a)}
           actions == SetToSeq(going)
           next == [i \in DOMAIN actions |-> GoOn(after(actions[i]), t.children)]
           new == {after(a) : a \in {b \in t.actions : ends(b)}}
<1>1. /\ phase = "walk" /\ queue # <<>> /\ p.node \in DOMAIN graph.tables
      /\ queue' = Tail(queue) \o FlattenSeq(next)
      /\ finished' = finished \cup new
      /\ graph' = graph /\ groups' = groups /\ phase' = phase
  BY DEF ExecuteTable, IsTable
<1>2. graph \in Graphs /\ IsGraph(graph) /\ queue \in Seq(Walks(graph)) /\ finished \subseteq Walks(graph)
  BY <1>1 DEF PathsInv
<1>3. p \in Walks(graph) /\ Tail(queue) \in Seq(Walks(graph))
  <2> DEFINE W == Walks(graph)
  <2>1. queue \in Seq(W) /\ queue # <<>>
    BY <1>1, <1>2
  <2> HIDE DEF W
  <2>2. Head(queue) \in W /\ Tail(queue) \in Seq(W)
    BY <2>1
  <2> QED
    BY <2>2 DEF W
<1> HIDE DEF p
<1>4. /\ t.keys \in SUBSET Fields /\ t.children \in SUBSET NodesOf(graph)
      /\ IsFiniteSet(t.actions)
      /\ \A a \in t.actions : a.pairs \in SUBSET (Fields \X Fields) /\ a.sets \in SUBSET Fields
  BY <1>1, <1>2 DEF IsGraph
<1>5. looked \in Walks(graph)
  <2> HIDE DEF t
  <2> QED
    BY <1>3, <1>4, LookedTyped
<1>6. ASSUME NEW a \in t.actions PROVE after(a) \in Walks(graph)
  <2>1. <<p.node, a>> \in Steps(graph)
    BY <1>1, TableSteps
  <2> HIDE DEF looked, t
  <2>2. looked.dict \in Dicts /\ looked.steps \in Seq(Steps(graph))
    BY <1>5 DEF Walks, Paths
  <2>3. Executed(looked.dict, t.keys, a) \in Dicts
    BY <1>4, <2>2, ExecutedTyped
  <2>4. Append(looked.steps, <<p.node, a>>) \in Seq(Steps(graph))
    BY <2>1, <2>2, AppendProperties
  <2> QED
    BY <1>5, <2>3, <2>4 DEF Walks, Paths
<1> HIDE DEF after, looked
<1>7. FlattenSeq(next) \in Seq(Walks(graph))
  <2> DEFINE k == Cardinality(going)
  <2>1. going \subseteq t.actions
    OBVIOUS
  <2> HIDE DEF going
  <2>2. IsFiniteSet(going)
    BY <1>4, <2>1, FS_Subset
  <2>3. actions \in [1..k -> going] /\ k \in Nat
    BY <2>2, SetAsSequence
  <2> HIDE DEF actions, k
  <2>4. ASSUME NEW i \in 1..k PROVE GoOn(after(actions[i]), t.children) \in Seq(Walks(graph))
    <3>1. after(actions[i]) \in Paths(graph, NodesOf(graph))
      BY <1>6, <2>1, <2>3 DEF Walks
    <3> HIDE DEF t
    <3> QED
      BY <1>2, <1>4, <3>1, GoOnTyped
  <2> HIDE DEF t
  <2>5. next \in [1..k -> Seq(Walks(graph))]
    BY <2>3, <2>4
  <2> HIDE DEF next
  <2>6. next \in Seq(Seq(Walks(graph)))
    BY <2>3, <2>5, SeqDef
  <2> QED
    BY <2>6, Flattened
<1> HIDE DEF next
<1>8. queue' \in Seq(Walks(graph))
  <2> DEFINE W == Walks(graph)
             r == FlattenSeq(next)
             q == Tail(queue)
  <2>1. q \in Seq(W) /\ r \in Seq(W)
    BY <1>3, <1>7
  <2> HIDE DEF W, r, q
  <2>2. q \o r \in Seq(W)
    BY <2>1
  <2> QED
    BY <1>1, <2>2 DEF W, r, q
<1>9. finished' \subseteq Walks(graph)
  BY <1>1, <1>2, <1>6
<1>10. \A x \in finished' : IsFinished(x)
  BY <1>9, WalksFinished
<1> HIDE DEF new
<1> QED
  BY <1>1, <1>2, <1>8, <1>9, <1>10 DEF PathsInv, IsFinished, Nodes

LEMMA EvaluateIfStep ==
  ASSUME PathsInv, EvaluateIf PROVE PathsInv'
<1> DEFINE p == Head(queue)
           c == graph.ifs[p.node]
           looked == [p EXCEPT !.out = Plus(@, p.node, WithSources(p.dict, c.fields)),
                               !.steps = Append(@, <<p.node>>)]
           yes(verdict) == IF verdict = "FALSE" THEN {} ELSE c.yes
           no(verdict) == IF verdict = "TRUE" THEN {} ELSE c.no
<1>1. /\ phase = "walk" /\ queue # <<>> /\ ~(p.node \in DOMAIN graph.tables)
      /\ graph' = graph /\ groups' = groups /\ phase' = phase
  BY DEF EvaluateIf, IsTable
<1>2. PICK verdict :
        /\ queue' = Tail(queue) \o GoOn(looked, yes(verdict)) \o GoOn(looked, no(verdict))
        /\ finished' = IF yes(verdict) \cup no(verdict) = {} THEN finished \cup {looked} ELSE finished
  BY DEF EvaluateIf
<1>3. graph \in Graphs /\ IsGraph(graph) /\ queue \in Seq(Walks(graph)) /\ finished \subseteq Walks(graph)
  BY <1>1 DEF PathsInv
<1>4. p \in Walks(graph) /\ Tail(queue) \in Seq(Walks(graph))
  <2> DEFINE W == Walks(graph)
  <2>1. queue \in Seq(W) /\ queue # <<>>
    BY <1>1, <1>3
  <2> HIDE DEF W
  <2>2. Head(queue) \in W /\ Tail(queue) \in Seq(W)
    BY <2>1
  <2> QED
    BY <2>2 DEF W
<1> HIDE DEF p
<1>5. p.node \in NodesOf(graph) /\ p.node \in DOMAIN graph.ifs
  BY <1>1, <1>4 DEF Walks, Paths, NodesOf
<1>6. c.fields \in SUBSET Fields /\ c.yes \in SUBSET NodesOf(graph) /\ c.no \in SUBSET NodesOf(graph)
  BY <1>3, <1>5 DEF IsGraph
<1>7. looked \in Walks(graph)
  <2> DEFINE out == [p EXCEPT !.out = Plus(@, p.node, WithSources(p.dict, c.fields))]
  <2>1. out \in Walks(graph)
    <3> HIDE DEF c
    <3> QED
      BY <1>4, <1>6, LookedTyped
  <2>2. Append(p.steps, <<p.node>>) \in Seq(Steps(graph))
    <3>1. p.steps \in Seq(Steps(graph)) /\ <<p.node>> \in Steps(graph)
      BY <1>4, <1>5 DEF Walks, Paths, Steps
    <3> QED
      BY <3>1, AppendProperties
  <2>3. looked = [out EXCEPT !.steps = Append(p.steps, <<p.node>>)]
    BY <1>4 DEF Walks, Paths
  <2> HIDE DEF out, looked
  <2> QED
    BY <2>1, <2>2, <2>3 DEF Walks, Paths
<1>8. yes(verdict) \in SUBSET NodesOf(graph) /\ no(verdict) \in SUBSET NodesOf(graph)
  BY <1>6
<1> HIDE DEF looked, yes, no
<1>9. queue' \in Seq(Walks(graph))
  <2> DEFINE W == Walks(graph)
             y == GoOn(looked, yes(verdict))
             n == GoOn(looked, no(verdict))
             q == Tail(queue)
  <2>1. q \in Seq(W) /\ y \in Seq(W) /\ n \in Seq(W)
    BY <1>3, <1>4, <1>7, <1>8, GoOnTyped DEF Walks
  <2> HIDE DEF W, q, y, n
  <2>2. q \o y \o n \in Seq(W)
    BY <2>1
  <2> QED
    BY <1>2, <2>2 DEF W, q, y, n
<1>10. finished' \subseteq Walks(graph)
  BY <1>2, <1>3, <1>7
<1>11. \A x \in finished' : IsFinished(x)
  BY <1>10, WalksFinished
<1> QED
  BY <1>1, <1>3, <1>9, <1>10, <1>11 DEF PathsInv, IsFinished, Nodes

LEMMA CleanStep ==
  ASSUME PathsInv, Clean PROVE PathsInv'
<1>1. /\ phase = "walk" /\ queue = <<>> /\ phase' = "clean"
      /\ finished' = {[p EXCEPT !.clean = Cleaned(p)] : p \in finished}
      /\ graph' = graph /\ queue' = queue /\ groups' = groups
  BY DEF Clean
<1>2. finished \subseteq Walks(graph)
  BY <1>1 DEF PathsInv
<1>3. ASSUME NEW x \in finished' PROVE x.clean = Cleaned(x) /\ IsFinished(x)
  <2>1. PICK p \in finished : x = [p EXCEPT !.clean = Cleaned(p)]
    BY <1>1
  <2>2. p \in Walks(graph) /\ IsFinished(p)
    BY <1>2, WalksFinished
  <2>3. x.clean = Cleaned(p) /\ x.out = p.out /\ x.parser = p.parser /\ x.node = p.node /\ x.dict = p.dict
    BY <2>1, <2>2 DEF Walks, Paths
  <2>4. Cleaned(x) = Cleaned(p)
    BY <2>3 DEF Cleaned
  <2> QED
    BY <2>2, <2>3, <2>4 DEF IsFinished
<1>4. ASSUME NEW x \in finished' PROVE (x.clean = Cleaned(x) /\ IsFinished(x))'
  BY <1>1, <1>3 DEF Cleaned, IsFinished, Nodes
<1> QED
  BY <1>1, <1>4 DEF PathsInv

LEMMA FinishStep ==
  ASSUME PathsInv, Finish PROVE PathsInv'
<1>1. /\ phase = "clean" /\ phase' = "done"
      /\ groups' = RemoveVectorDuplicates(SplitLarge(Collected(finished)))
      /\ graph' = graph /\ queue' = queue /\ finished' = finished
  BY DEF Finish
<1>2. \A p \in finished : (p.clean = Cleaned(p) /\ IsFinished(p))'
  BY <1>1 DEF PathsInv, Cleaned, IsFinished, Nodes
<1>3. Collected(finished)' = Collected(finished)
  BY <1>1 DEF Collected, Label
<1> QED
  BY <1>1, <1>2, <1>3 DEF PathsInv

LEMMA PathsStep == PathsInv /\ [Next]_vars => PathsInv'
<1> SUFFICES ASSUME PathsInv, [Next]_vars PROVE PathsInv'
  OBVIOUS
<1>1. CASE UNCHANGED vars
  BY <1>1 DEF vars, PathsInv, IsFinished, Nodes, Cleaned, Collected, Label
<1> QED
  BY <1>1, ExecuteTableStep, EvaluateIfStep, CleanStep, FinishStep DEF Next

(* The inductive invariant: paths are typed, and once the walk is over the *)
(* groups are what is made of the paths.                                   *)
THEOREM PathsTyped == Spec => []PathsInv
BY PathsInit, PathsStep, PTL DEF Spec
-----------------------------------------------------------------------------
(* NothingLost from the invariant.                                         *)

LEMMA PathsClean == ASSUME PathsInv, phase # "walk" PROVE AllClean
<1> SUFFICES ASSUME NEW p \in finished PROVE p.parser \in DOMAIN graph.paths /\ GoodClean(p)
  BY DEF AllClean
<1>1. IsFinished(p) /\ p.clean = Cleaned(p) /\ IsGraph(graph)
  BY DEF PathsInv
<1>2. PICK D \in SUBSET Nodes : p.out \in [D -> SUBSET Fields]
  BY <1>1 DEF IsFinished, Outs, Nodes
<1>3. IsFiniteSet(D) /\ D \subseteq Names
  BY <1>1, FS_Subset DEF IsGraph, Nodes, Names
<1>4. /\ DOMAIN p.out = D /\ \A n \in D : p.out[n] \in SUBSET Fields
      /\ p.out = [n \in DOMAIN p.out |-> p.out[n]]
  BY <1>2
<1>5. IsGroups(p.out)
  BY <1>3, <1>4 DEF IsGroups
<1>6. GoodClean(p)
  BY <1>1, <1>4, <1>5, CleanedIsGood
<1> QED
  BY <1>1, <1>6 DEF IsFinished

LEMMA PathsGroups ==
  ASSUME PathsInv, phase = "done"
  PROVE  /\ IsFieldGroups(groups)
         /\ \A n \in DOMAIN groups : Cardinality(groups[n]) \in 1..3
         /\ \A m, n \in DOMAIN groups : groups[m] = groups[n] => m = n
         /\ NamesDistinct =>
              \A p \in finished : \A n \in DOMAIN p.out : \A f \in p.out[n] :
                HeaderOf[f] \in graph.paths[p.parser] =>
                  \E m \in DOMAIN groups : \E i \in DOMAIN graph.paths :
                    f \in groups[m] /\ HeadersOf(groups[m]) \subseteq graph.paths[i]
<1> DEFINE c == Collected(finished)
           s == SplitLarge(c)
<1>1. IsGraph(graph) /\ AllClean /\ groups = RemoveVectorDuplicates(s)
  BY PathsClean DEF PathsInv
<1>2. IsFieldGroups(c)
  BY <1>1, CollectedGood
<1>3. NamesDistinct =>
        /\ DOMAIN c \cap Numbered(DOMAIN c) = {}
        /\ \A l \in DOMAIN c : \E i \in DOMAIN graph.paths : HeadersOf(c[l]) \subseteq graph.paths[i]
  BY <1>1, CollectedApart, CollectedHeaders
<1>4. \A p \in finished : \A n \in DOMAIN p.clean :
        Label(p, n) \in DOMAIN c /\ p.clean[n] \subseteq c[Label(p, n)]
  BY CollectedIs
<1> HIDE DEF c
<1>5. /\ IsFieldGroups(s)
      /\ \A x \in DOMAIN s : Cardinality(s[x]) \in 1..3
      /\ DOMAIN c \cap Numbered(DOMAIN c) = {} =>
           \A n \in DOMAIN c : \A f \in c[n] : \E x \in DOMAIN s : f \in s[x] /\ s[x] \subseteq c[n]
  BY <1>2, LargeSplit
<1> HIDE DEF s
<1>6. /\ IsGroups(groups)
      /\ \A n \in DOMAIN groups : n \in DOMAIN s /\ groups[n] = s[n]
      /\ \A n \in DOMAIN s : \E m \in DOMAIN groups : groups[m] = s[n]
      /\ \A m, n \in DOMAIN groups : groups[m] = groups[n] => m = n
  BY <1>1, <1>5, DuplicatesRemoved DEF IsFieldGroups
<1>7. IsFieldGroups(groups)
  BY <1>5, <1>6 DEF IsFieldGroups
<1>8. \A n \in DOMAIN groups : Cardinality(groups[n]) \in 1..3
  BY <1>5, <1>6
<1>9. ASSUME NamesDistinct, NEW p \in finished, NEW n \in DOMAIN p.out, NEW f \in p.out[n],
             HeaderOf[f] \in graph.paths[p.parser]
      PROVE  \E m \in DOMAIN groups : \E i \in DOMAIN graph.paths :
               f \in groups[m] /\ HeadersOf(groups[m]) \subseteq graph.paths[i]
  <2>1. Nodes \cap Numbered(Nodes) = {}
    <3>1. ASSUME NEW x \in Nodes, x \in Numbered(Nodes) PROVE FALSE
      <4>1. PICK k \in Nodes, d \in Digits : x = Append(k, d)
        BY <3>1 DEF Numbered
      <4>2. d \in 0..9
        BY DEF Digits, MaxChunks
      <4> QED
        BY <1>9, <4>1, <4>2 DEF NamesDistinct
    <3> QED
      BY <3>1
  <2>2. GoodClean(p)
    BY <1>1 DEF AllClean
  <2>3. PICK m \in DOMAIN p.clean : f \in p.clean[m]
    BY <1>9, <2>1, <2>2 DEF GoodClean
  <2>4. Label(p, m) \in DOMAIN c /\ f \in c[Label(p, m)]
    BY <1>4, <2>3
  <2>5. PICK x \in DOMAIN s : f \in s[x] /\ s[x] \subseteq c[Label(p, m)]
    BY <1>3, <1>5, <1>9, <2>4
  <2>6. PICK i \in DOMAIN graph.paths : HeadersOf(c[Label(p, m)]) \subseteq graph.paths[i]
    BY <1>3, <1>9, <2>4
  <2>7. HeadersOf(s[x]) \subseteq graph.paths[i]
    BY <2>5, <2>6 DEF HeadersOf
  <2>8. PICK y \in DOMAIN groups : groups[y] = s[x]
    BY <1>6
  <2> QED
    BY <2>5, <2>7, <2>8
<1> QED
  BY <1>6, <1>7, <1>8, <1>9

LEMMA PathsTypeOK == ASSUME PathsInv PROVE TypeOK
<1>1. ASSUME NEW p \in Range(queue) \cup finished
      PROVE  /\ p.parser \in DOMAIN graph.paths /\ p.node \in NodesOf(graph)
             /\ (UNION Range(p.out)) \cup (UNION Range(p.dict)) \subseteq Fields
  <2>1. IsFinished(p)
    <3>1. CASE p \in Range(queue)
      <4>1. queue \in Seq(Walks(graph))
        BY DEF PathsInv
      <4>2. p \in Walks(graph)
        BY <3>1, <4>1 DEF Range
      <4> QED
        BY <4>2, WalksFinished
    <3>2. CASE p \in finished
      BY <3>2 DEF PathsInv
    <3> QED
      BY <3>1, <3>2
  <2>2. UNION Range(p.out) \subseteq Fields
    BY <2>1 DEF IsFinished, Outs, Range
  <2>3. UNION Range(p.dict) \subseteq Fields
    BY <2>1 DEF IsFinished, Dicts, Range
  <2> QED
    BY <2>1, <2>2, <2>3 DEF IsFinished, Nodes
<1>2. ASSUME NEW n \in DOMAIN groups PROVE groups[n] \subseteq Fields
  <2>1. CASE phase = "done"
    BY <2>1, PathsGroups DEF IsFieldGroups
  <2>2. CASE phase # "done"
    BY <2>2 DEF PathsInv, Nothing
  <2> QED
    BY <2>1, <2>2
<1> QED
  BY <1>1, <1>2 DEF TypeOK, PathsInv

(* NothingLost, for every graph and every name: a field that decides what  *)
(* a table sees stays in a group of one to three that some packet can      *)
(* mutate, however often groups are cut, renamed, merged and deduplicated. *)
THEOREM GroupsKeepAll == Spec => []NothingLost
<1>1. PathsInv => NothingLost
  <2> SUFFICES ASSUME PathsInv PROVE NothingLost
    OBVIOUS
  <2>1. TypeOK
    BY PathsTypeOK
  <2>2. CASE phase = "done"
    <3>1. \A m, n \in DOMAIN groups : Cardinality(groups[m]) \in 1..3 /\ (groups[m] = groups[n] => m = n)
      BY <2>2, PathsGroups
    <3>2. ASSUME NamesDistinct, NEW p \in finished, NEW f \in UNION Range(p.out),
                 HeaderOf[f] \in graph.paths[p.parser]
          PROVE  \E n \in DOMAIN groups : \E i \in DOMAIN graph.paths :
                    f \in groups[n] /\ {HeaderOf[g] : g \in groups[n]} \subseteq graph.paths[i]
      <4>1. PICK n \in DOMAIN p.out : f \in p.out[n]
        BY DEF Range
      <4>2. \E m \in DOMAIN groups : \E i \in DOMAIN graph.paths :
               f \in groups[m] /\ HeadersOf(groups[m]) \subseteq graph.paths[i]
        BY <2>2, <3>2, <4>1, PathsGroups
      <4> QED
        BY <4>2 DEF HeadersOf
    <3> QED
      BY <2>1, <3>1, <3>2 DEF NothingLost
  <2>3. CASE phase # "done"
    <3>1. groups = Nothing /\ DOMAIN groups = {}
      BY <2>3 DEF PathsInv, Nothing
    <3> QED
      BY <2>1, <2>3, <3>1 DEF NothingLost
  <2> QED
    BY <2>2, <2>3
<1> QED
  BY <1>1, PathsTyped, PTL
=============================================================================
