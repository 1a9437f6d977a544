-------------------------- MODULE InstrumentProofs ---------------------------
(*****************************************************************************)
(* What the instrumentation of a program guarantees, for every program that *)
(* the constants allow: the tool makes exactly the passes it means to, each *)
(* as far as it has got (PassesMade, the inductive invariant), and what the *)
(* finished program is then follows from what the passes compute.           *)
(*****************************************************************************)
EXTENDS InstrumentProperties, InductionLemmas, FiniteSetTheorems, SequenceTheorems, TLAPS

(* Sequences of sequences: what FlattenSeq joins, up to its i-th part.     *)
IsUnfolding(u, ss, X) ==
  /\ u \in [0 .. Len(ss) -> Seq(X)]
  /\ u[0] = <<>>
  /\ \A i \in 1 .. Len(ss) : u[i] = u[i - 1] \o ss[i]

LEMMA FlattenUnfolds ==
  ASSUME NEW X, NEW ss \in Seq(Seq(X))
  PROVE  \E u : IsUnfolding(u, ss, X) /\ FlattenSeq(ss) = u[Len(ss)]
<1> DEFINE N == Len(ss)
           V == Seq(X)
           Step == [i \in 1..N |-> [l \in V |-> l \o ss[i]]]
           Is(u) == u = [i \in 1..N |-> IF i = 1 THEN ss[i] ELSE u[i - 1] \o ss[i]]
<1>1. N \in Nat /\ <<>> \in V /\ \A i \in 1..N : ss[i] \in V
  OBVIOUS
<1>2. \A i \in 1..N, l \in V : l \o ss[i] \in V /\ <<>> \o ss[i] = ss[i]
  <2> TAKE i \in 1..N, l \in V
  <2> DEFINE s == ss[i]
  <2>1. s \in Seq(X) /\ l \in Seq(X)
    BY <1>1
  <2> HIDE DEF s
  <2>2. l \o s \in Seq(X) /\ <<>> \o s = s
    BY <2>1
  <2> QED
    BY <2>2 DEF s
<1>3. IsStep(Step, N, V)
  <2> HIDE DEF V, N
  <2> QED
    BY <1>2 DEF IsStep
<1>4. \E f : IsRecursive(f, N, V, <<>>, Step)
  <2> HIDE DEF V, Step, N
  <2> QED
    BY <1>1, <1>3, RecursionUpTo
<1>5. PICK f : f \in [0..N -> V] /\ f[0] = <<>> /\ \A i \in 1..N : f[i] = Step[i][f[i - 1]]
  <2> HIDE DEF V, Step, N
  <2> QED
    BY <1>4 DEF IsRecursive
<1> HIDE DEF N, V
<1>6. \A i \in 1..N : i - 1 \in 0..N /\ f[i - 1] \in V /\ f[i] = f[i - 1] \o ss[i]
  <2> TAKE i \in 1..N
  <2>1. i - 1 \in 0..N
    BY <1>1
  <2>2. f[i - 1] \in V
    BY <1>5, <2>1
  <2>3. Step[i][f[i - 1]] = f[i - 1] \o ss[i]
    BY <2>2
  <2> HIDE DEF Step
  <2> QED
    BY <1>5, <2>1, <2>2, <2>3
<1> HIDE DEF Step
<1> DEFINE g == [i \in 1..N |-> f[i]]
<1>7. Is(g)
  <2>1. ASSUME NEW i \in 1..N PROVE g[i] = IF i = 1 THEN ss[i] ELSE g[i - 1] \o ss[i]
    <3>0. f[i - 1] \in V /\ f[i] = f[i - 1] \o ss[i]
      BY <1>6
    <3>1. i \in 0..N /\ i - 1 \in 0..N /\ g[i] = f[i]
      BY <1>1
    <3>2. CASE i = 1
      <4>1. i - 1 = 0 /\ f[i - 1] = <<>>
        BY <1>5, <3>2
      <4>2. f[i] = ss[i]
        BY <1>1, <1>2, <3>0, <4>1
      <4> QED
        BY <3>1, <3>2, <4>2
    <3>3. CASE i # 1
      <4>1. i - 1 \in 1..N
        BY <1>1, <3>3
      <4>2. g[i - 1] = f[i - 1]
        BY <4>1
      <4> QED
        BY <3>0, <3>1, <3>3, <4>2
    <3> QED
      BY <3>2, <3>3
  <2>2. g = [i \in 1..N |-> g[i]]
    OBVIOUS
  <2> HIDE DEF g
  <2> QED
    BY <2>1, <2>2
<1> HIDE DEF g
<1> DEFINE U == CHOOSE u : Is(u)
<1>8. N = 0 \/ FlattenSeq(ss) = U[N]
  BY DEF FlattenSeq, N
<1>9. Is(U)
  <2> HIDE DEF Is
  <2> QED
    BY <1>7
<1> HIDE DEF U
<1>10. \A i \in 1..N : U[i] = IF i = 1 THEN ss[i] ELSE U[i - 1] \o ss[i]
  BY <1>9
<1> HIDE DEF Is
<1> DEFINE T == {i \in 0..N : i = 0 \/ U[i] = f[i]}
<1>11. 0 \in T /\ \A i \in 1..N : i - 1 \in T => i \in T
  <2>1. 0 \in T
    BY <1>1
  <2>2. ASSUME NEW i \in 1..N, i - 1 \in T PROVE i \in T
    <3>1. CASE i = 1
      <4>1. U[i] = ss[i] /\ f[i] = f[i - 1] \o ss[i] /\ f[i - 1] = <<>>
        BY <1>5, <1>6, <1>10, <3>1, i - 1 = 0
      <4>2. f[i] = ss[i]
        BY <1>1, <1>2, <4>1
      <4> QED
        BY <4>1, <4>2
    <3>2. CASE i # 1
      <4>1. U[i - 1] = f[i - 1]
        BY <1>1, <2>2, <3>2
      <4>2. U[i] = U[i - 1] \o ss[i]
        BY <1>10, <3>2, Zenon
      <4>3. f[i] = f[i - 1] \o ss[i]
        BY <1>6
      <4>4. i \in 0..N
        BY <1>1
      <4> QED
        BY <4>1, <4>2, <4>3, <4>4
    <3> QED
      BY <3>1, <3>2
  <2> QED
    BY <2>1, <2>2
<1> HIDE DEF T
<1>12. N \in T
  <2>1. 0..N \subseteq T
    BY <1>1, <1>11, InductionUpTo
  <2> QED
    BY <1>1, <2>1
<1>13. FlattenSeq(ss) = f[N]
  <2>1. CASE N = 0
    <3>1. ss = <<>> /\ FlattenSeq(ss) = ss
      BY <2>1 DEF FlattenSeq, N
    <3> QED
      BY <1>5, <2>1, <3>1
  <2>2. CASE N # 0
    BY <1>8, <1>12, <2>2 DEF T
  <2> QED
    BY <2>1, <2>2
<1>14. IsUnfolding(f, ss, X)
  BY <1>5, <1>6 DEF IsUnfolding, N, V
<1> QED
  BY <1>13, <1>14 DEF N

(* Unfoldings agree as long as the parts do.                               *)
LEMMA UnfoldingsAgree ==
  ASSUME NEW X, NEW u, NEW w, NEW ss \in Seq(Seq(X)), NEW tt \in Seq(Seq(X)),
         IsUnfolding(u, ss, X), IsUnfolding(w, tt, X),
         NEW N \in Nat, N =< Len(ss), N =< Len(tt), \A i \in 1..N : ss[i] = tt[i]
  PROVE  u[N] = w[N]
<1> DEFINE T == {i \in 0..N : u[i] = w[i]}
<1>1. 0 \in T
  BY DEF IsUnfolding
<1>2. \A i \in 1..N : i - 1 \in T => i \in T
  <2> TAKE i \in 1..N
  <2>1. i \in 1..Len(ss) /\ i \in 1..Len(tt) /\ i \in 0..N
    BY Len(ss) \in Nat, Len(tt) \in Nat
  <2>2. u[i] = u[i - 1] \o ss[i] /\ w[i] = w[i - 1] \o tt[i]
    BY <2>1 DEF IsUnfolding
  <2> QED
    BY <2>1, <2>2
<1> HIDE DEF T
<1>3. 0..N \subseteq T
  BY <1>1, <1>2, InductionUpTo
<1>4. N \in T
  BY <1>3, N \in 0..N
<1> QED
  BY <1>4 DEF T

LEMMA FlattenTyped ==
  ASSUME NEW X, NEW ss \in Seq(Seq(X))
  PROVE  FlattenSeq(ss) \in Seq(X)
<1>1. PICK u : IsUnfolding(u, ss, X) /\ FlattenSeq(ss) = u[Len(ss)]
  BY FlattenUnfolds
<1>2. Len(ss) \in 0..Len(ss)
  OBVIOUS
<1> QED
  BY <1>1, <1>2 DEF IsUnfolding

LEMMA FlattenEmpty == FlattenSeq(<<>>) = <<>>
BY DEF FlattenSeq

LEMMA FlattenAppend ==
  ASSUME NEW X, NEW ss \in Seq(Seq(X)), NEW s \in Seq(X)
  PROVE  FlattenSeq(Append(ss, s)) = FlattenSeq(ss) \o s
<1> DEFINE tt == Append(ss, s)
           N == Len(ss)
<1>1. tt \in Seq(Seq(X)) /\ Len(tt) = N + 1 /\ N \in Nat /\ tt[N + 1] = s /\ \A i \in 1..N : tt[i] = ss[i]
  OBVIOUS
<1>2. PICK u : IsUnfolding(u, ss, X) /\ FlattenSeq(ss) = u[N]
  BY FlattenUnfolds
<1> HIDE DEF tt
<1>3. PICK w : IsUnfolding(w, tt, X) /\ FlattenSeq(tt) = w[Len(tt)]
  BY <1>1, FlattenUnfolds
<1>4. u[N] = w[N]
  <2>1. N =< Len(ss) /\ N =< Len(tt) /\ \A i \in 1..N : ss[i] = tt[i]
    BY <1>1
  <2> HIDE DEF N
  <2> QED
    BY <1>1, <1>2, <1>3, <2>1, UnfoldingsAgree
<1>5. w[N + 1] = w[(N + 1) - 1] \o tt[N + 1]
  <2>1. N + 1 \in 1..Len(tt)
    BY <1>1
  <2> QED
    BY <1>3, <2>1 DEF IsUnfolding
<1>6. (N + 1) - 1 = N
  BY <1>1
<1> QED
  BY <1>1, <1>2, <1>3, <1>4, <1>5, <1>6 DEF tt

LEMMA FlattenOne ==
  ASSUME NEW X, NEW s \in Seq(X)
  PROVE  FlattenSeq(<<s>>) = s
<1>1. FlattenSeq(Append(<<>>, s)) = FlattenSeq(<<>>) \o s
  BY FlattenAppend, <<>> \in Seq(Seq(X))
<1>2. <<>> \o s = s /\ Append(<<>>, s) = <<s>>
  OBVIOUS
<1> QED
  BY <1>1, <1>2, FlattenEmpty

LEMMA ConcatAssoc ==
  ASSUME NEW X
  PROVE  \A a, b, c \in Seq(X) : (a \o b) \o c = a \o (b \o c)
BY ConcatAssociative

LEMMA FlattenConcat ==
  ASSUME NEW X, NEW ss \in Seq(Seq(X)), NEW tt \in Seq(Seq(X))
  PROVE  FlattenSeq(ss \o tt) = FlattenSeq(ss) \o FlattenSeq(tt)
<1> DEFINE both == ss \o tt
           N == Len(ss)
           M == Len(tt)
<1>1. /\ both \in Seq(Seq(X)) /\ Len(both) = N + M /\ N \in Nat /\ M \in Nat
      /\ \A i \in 1..N : both[i] = ss[i]
      /\ \A i \in 1..M : both[N + i] = tt[i]
  OBVIOUS
<1>2. PICK u : IsUnfolding(u, ss, X) /\ FlattenSeq(ss) = u[N]
  BY FlattenUnfolds
<1>3. PICK v : IsUnfolding(v, tt, X) /\ FlattenSeq(tt) = v[M]
  BY FlattenUnfolds
<1> HIDE DEF both
<1>4. PICK w : IsUnfolding(w, both, X) /\ FlattenSeq(both) = w[Len(both)]
  BY <1>1, FlattenUnfolds
<1>5. w[N] = u[N] /\ u[N] \in Seq(X)
  <2>1. N =< Len(ss) /\ N =< Len(both) /\ \A i \in 1..N : ss[i] = both[i]
    BY <1>1
  <2>2. N \in 0..Len(ss)
    BY <1>1
  <2>3. u[N] \in Seq(X)
    BY <1>2, <2>2 DEF IsUnfolding
  <2>4. N \in Nat /\ both \in Seq(Seq(X))
    BY <1>1
  <2> HIDE DEF N
  <2>5. u[N] = w[N]
    BY <1>2, <1>4, <2>1, <2>4, UnfoldingsAgree
  <2> QED
    BY <2>3, <2>5
<1>9. \A x, y, z \in Seq(X) : (x \o y) \o z = x \o (y \o z)
  BY ConcatAssoc
<1> DEFINE T == {i \in 0..M : w[N + i] = u[N] \o v[i]}
<1>6. 0 \in T
  <2>1. v[0] = <<>>
    BY <1>3 DEF IsUnfolding
  <2>2. u[N] \o <<>> = u[N]
    <3> DEFINE a == u[N]
    <3>1. a \in Seq(X)
      BY <1>5
    <3> HIDE DEF a
    <3>2. a \o <<>> = a
      BY <3>1
    <3> QED
      BY <3>2 DEF a
  <2>3. w[N + 0] = u[N] /\ 0 \in 0..M
    <3>1. N + 0 = N /\ 0 \in 0..M
      BY <1>1
    <3> QED
      BY <1>5, <3>1
  <2> QED
    BY <2>1, <2>2, <2>3
<1>7. \A i \in 1..M : i - 1 \in T => i \in T
  <2> SUFFICES ASSUME NEW i \in 1..M, i - 1 \in T PROVE i \in T
    OBVIOUS
  <2>0. both[N + i] = tt[i] /\ tt[i] \in Seq(X)
    BY <1>1
  <2>1. N + i \in 1..Len(both) /\ (N + i) - 1 = N + (i - 1) /\ i - 1 \in 0..M /\ both[N + i] = tt[i] /\ tt[i] \in Seq(X)
    <3>1. Len(both) = N + M /\ N \in Nat /\ M \in Nat
      BY <1>1
    <3> HIDE DEF N, M, T
    <3> QED
      BY <2>0, <3>1
  <2>2. w[N + i] = w[N + (i - 1)] \o tt[i]
    BY <1>4, <2>1 DEF IsUnfolding
  <2>3. v[i] = v[i - 1] \o tt[i] /\ v[i - 1] \in Seq(X)
    BY <1>3, <2>1 DEF IsUnfolding
  <2>4. (u[N] \o v[i - 1]) \o tt[i] = u[N] \o (v[i - 1] \o tt[i])
    <3> DEFINE a == u[N]
               b == v[i - 1]
               c == tt[i]
    <3>1. a \in Seq(X) /\ b \in Seq(X) /\ c \in Seq(X)
      BY <1>5, <2>1, <2>3
    <3> HIDE DEF a, b, c
    <3>3. (a \o b) \o c = a \o (b \o c)
      BY <1>9, <3>1, Zenon
    <3> QED
      BY <3>3 DEF a, b, c
  <2>5. w[N + (i - 1)] = u[N] \o v[i - 1] /\ i \in 0..M
    <3>1. PICK k \in T : k = i - 1
      OBVIOUS
    <3>2. w[N + k] = u[N] \o v[k]
      BY DEF T
    <3>3. i \in 0..M
      BY <1>1
    <3> QED
      BY <3>1, <3>2, <3>3
  <2>6. w[N + i] = u[N] \o v[i]
    BY <2>2, <2>3, <2>4, <2>5
  <2> QED
    BY <2>5, <2>6 DEF T
<1> HIDE DEF T
<1>8. M \in T
  <2>1. 0..M \subseteq T
    BY <1>1, <1>6, <1>7, InductionUpTo
  <2> QED
    BY <1>1, <2>1
<1> QED
  BY <1>1, <1>2, <1>3, <1>4, <1>8 DEF T, both

(* Where the k-th element of the first n parts, joined to w, comes from.   *)
IsPlaced(row, col, w, ss, n) ==
  /\ row \in [1..Len(w) -> Nat] /\ col \in [1..Len(w) -> Nat]
  /\ \A k \in 1..Len(w) : /\ row[k] \in 1..n /\ col[k] \in 1..Len(ss[row[k]])
                          /\ w[k] = ss[row[k]][col[k]]
  /\ \A k, l \in 1..Len(w) : row[k] = row[l] /\ col[k] = col[l] => k = l
  /\ \A i \in 1..n : \A j \in 1..Len(ss[i]) : \E k \in 1..Len(w) : row[k] = i /\ col[k] = j

LEMMA PlacedOneMore ==
  ASSUME NEW X, NEW ss \in Seq(Seq(X)), NEW w \in Seq(X), NEW n \in 1..Len(ss),
         NEW row, NEW col, IsPlaced(row, col, w, ss, n - 1)
  PROVE  \E r, c : IsPlaced(r, c, w \o ss[n], ss, n)
<1> DEFINE s == ss[n]
           v == w \o s
           L == Len(w)
           r == [k \in 1..Len(v) |-> IF k <= L THEN row[k] ELSE n]
           c == [k \in 1..Len(v) |-> IF k <= L THEN col[k] ELSE k - L]
<1>1. s \in Seq(X) /\ n \in Nat
  OBVIOUS
<1>2. /\ v \in Seq(X) /\ Len(v) = L + Len(s) /\ L \in Nat /\ Len(s) \in Nat
      /\ \A k \in 1..L : v[k] = w[k]
      /\ \A k \in 1..Len(s) : v[L + k] = s[k]
  <2> HIDE DEF s
  <2> QED
    BY <1>1
<1>3. /\ row \in [1..L -> Nat] /\ col \in [1..L -> Nat]
      /\ \A k \in 1..L : /\ row[k] \in 1..(n - 1) /\ col[k] \in 1..Len(ss[row[k]])
                         /\ w[k] = ss[row[k]][col[k]]
      /\ \A k, l \in 1..L : row[k] = row[l] /\ col[k] = col[l] => k = l
      /\ \A i \in 1..(n - 1) : \A j \in 1..Len(ss[i]) : \E k \in 1..L : row[k] = i /\ col[k] = j
  BY DEF IsPlaced
<1> HIDE DEF L, v
<1>4. \A k \in 1..Len(v) :
        \/ k \in 1..L /\ r[k] = row[k] /\ c[k] = col[k]
        \/ k \notin 1..L /\ r[k] = n /\ c[k] = k - L /\ k - L \in 1..Len(s)
  BY <1>2
<1>5. r \in [1..Len(v) -> Nat] /\ c \in [1..Len(v) -> Nat]
  <2>1. \A k \in 1..Len(v) : r[k] \in Nat /\ c[k] \in Nat
    BY <1>1, <1>2, <1>3, <1>4
  <2>2. r = [k \in 1..Len(v) |-> r[k]] /\ c = [k \in 1..Len(v) |-> c[k]]
    OBVIOUS
  <2> HIDE DEF r, c
  <2> QED
    BY <2>1, <2>2
<1>9. ASSUME NEW i \in 1..n, NEW j \in 1..Len(ss[i]) PROVE \E k \in 1..Len(v) : r[k] = i /\ c[k] = j
  <2>1. CASE i = n
    <3>1. L + j \in 1..Len(v) /\ ~ (L + j <= L) /\ (L + j) - L = j
      BY <1>2, <2>1
    <3>2. r[L + j] = i /\ c[L + j] = j
      BY <2>1, <3>1
    <3> QED
      BY <3>1, <3>2
  <2>2. CASE i # n
    <3>1. i \in 1..(n - 1)
      BY <2>2
    <3>2. PICK k \in 1..L : row[k] = i /\ col[k] = j
      BY <1>3, <3>1
    <3>3. k \in 1..Len(v) /\ k <= L
      BY <1>2
    <3>4. r[k] = row[k] /\ c[k] = col[k]
      BY <3>3
    <3> QED
      BY <3>2, <3>3, <3>4
  <2> QED
    BY <2>1, <2>2
<1> HIDE DEF r, c
<1>6. ASSUME NEW k \in 1..Len(v)
      PROVE  r[k] \in 1..n /\ c[k] \in 1..Len(ss[r[k]]) /\ v[k] = ss[r[k]][c[k]]
  <2>1. CASE k \in 1..L /\ r[k] = row[k] /\ c[k] = col[k]
    <3>1. row[k] \in 1..(n - 1) /\ col[k] \in 1..Len(ss[row[k]]) /\ w[k] = ss[row[k]][col[k]]
      BY <1>3, <2>1
    <3>2. row[k] \in 1..n
      BY <3>1
    <3> QED
      BY <1>2, <2>1, <3>1, <3>2
  <2>2. CASE k \notin 1..L /\ r[k] = n /\ c[k] = k - L /\ k - L \in 1..Len(s)
    <3>1. k = L + (k - L)
      BY <1>2
    <3>2. v[k] = s[k - L]
      BY <1>2, <2>2, <3>1
    <3>3. n \in 1..n
      OBVIOUS
    <3> QED
      BY <2>2, <3>2, <3>3
  <2> QED
    BY <1>4, <2>1, <2>2
<1>7. ASSUME NEW k \in 1..Len(v), NEW l \in 1..Len(v), r[k] = r[l], c[k] = c[l] PROVE k = l
  <2>1. \A m \in 1..Len(v) :
          \/ m \in 1..L /\ r[m] = row[m] /\ c[m] = col[m] /\ row[m] \in 1..(n - 1)
          \/ m \notin 1..L /\ r[m] = n /\ c[m] = m - L
    BY <1>3, <1>4
  <2>2. CASE k \in 1..L /\ l \in 1..L
    <3>1. row[k] = row[l] /\ col[k] = col[l]
      BY <1>7, <2>1, <2>2
    <3> QED
      BY <1>3, <2>2, <3>1
  <2>3. CASE k \notin 1..L /\ l \notin 1..L
    <3>1. k - L = l - L
      BY <1>7, <2>1, <2>3
    <3> QED
      BY <1>2, <3>1
  <2>4. (k \in 1..L) <=> (l \in 1..L)
    <3>1. ~ (n \in 1..(n - 1))
      BY <1>1
    <3> QED
      BY <1>7, <2>1, <3>1
  <2> QED
    BY <2>2, <2>3, <2>4
<1>10. IsPlaced(r, c, v, ss, n)
  BY <1>5, <1>6, <1>7, <1>9 DEF IsPlaced
<1> QED
  BY <1>10 DEF v

LEMMA FlattenPlaces ==
  ASSUME NEW X, NEW ss \in Seq(Seq(X))
  PROVE  \E row, col : IsPlaced(row, col, FlattenSeq(ss), ss, Len(ss))
<1> DEFINE N == Len(ss)
<1>1. PICK u : IsUnfolding(u, ss, X) /\ FlattenSeq(ss) = u[N]
  BY FlattenUnfolds
<1>2. N \in Nat /\ u \in [0..N -> Seq(X)] /\ u[0] = <<>> /\ \A i \in 1..N : u[i] = u[i - 1] \o ss[i]
  <2>1. N \in Nat
    OBVIOUS
  <2> QED
    BY <1>1, <2>1 DEF IsUnfolding
<1> DEFINE T == {i \in 0..N : \E row, col : IsPlaced(row, col, u[i], ss, i)}
<1>3. 0 \in T
  <2> DEFINE none == [k \in 1..0 |-> 0]
  <2>0. none \in [1..Len(u[0]) -> Nat] /\ Len(u[0]) = 0
    BY <1>2
  <2> HIDE DEF none
  <2>1. IsPlaced(none, none, u[0], ss, 0)
    BY <2>0 DEF IsPlaced
  <2>2. \E row, col : IsPlaced(row, col, u[0], ss, 0)
    BY <2>1
  <2> QED
    BY <1>2, <2>2
<1>4. ASSUME NEW i \in 1..N, i - 1 \in T PROVE i \in T
  <2>1. PICK row, col : IsPlaced(row, col, u[i - 1], ss, i - 1)
    BY <1>4
  <2>2. i - 1 \in 0..N /\ i \in 0..N /\ i \in 1..Len(ss)
    BY <1>2
  <2>3. u[i - 1] \in Seq(X)
    BY <1>2, <2>2
  <2>4. \E r, c : IsPlaced(r, c, u[i - 1] \o ss[i], ss, i)
    BY <2>1, <2>2, <2>3, PlacedOneMore
  <2>5. \E r, c : IsPlaced(r, c, u[i], ss, i)
    BY <1>2, <2>4
  <2> QED
    BY <2>2, <2>5
<1> HIDE DEF T
<1>5. N \in T
  <2>1. 0..N \subseteq T
    BY <1>2, <1>3, <1>4, InductionUpTo
  <2> QED
    BY <1>2, <2>1
<1> QED
  BY <1>1, <1>5 DEF T

(* What is picked are the elements at the positions, each once.            *)
IsPicking(at, w, s, S) ==
  /\ at \in [1..Len(w) -> S]
  /\ \A k \in 1..Len(w) : w[k] = s[at[k]]
  /\ \A k, l \in 1..Len(w) : at[k] = at[l] => k = l
  /\ \A i \in S : \E k \in 1..Len(w) : at[k] = i

Singles(s, S) == [i \in DOMAIN s |-> IF i \in S THEN <<s[i]>> ELSE <<>>]

LEMMA SinglesTyped ==
  ASSUME NEW X, NEW s \in Seq(X), NEW S
  PROVE  /\ Singles(s, S) \in Seq(Seq(X)) /\ Len(Singles(s, S)) = Len(s)
         /\ \A i \in 1..Len(s) : Singles(s, S)[i] = IF i \in S THEN <<s[i]>> ELSE <<>>
<1>1. DOMAIN s = 1..Len(s) /\ Len(s) \in Nat
  OBVIOUS
<1>2. \A i \in 1..Len(s) : (IF i \in S THEN <<s[i]>> ELSE <<>>) \in Seq(X)
  <2> TAKE i \in 1..Len(s)
  <2>1. s[i] \in X
    BY ElementOfSeq
  <2> QED
    BY <2>1
<1>3. Singles(s, S) \in [1..Len(s) -> Seq(X)]
  BY <1>1, <1>2 DEF Singles
<1>4. Singles(s, S) \in Seq(Seq(X)) /\ Len(Singles(s, S)) = Len(s)
  BY <1>1, <1>3
<1> QED
  BY <1>1, <1>4 DEF Singles

LEMMA PickedIs ==
  ASSUME NEW s, NEW S
  PROVE  Picked(s, S) = FlattenSeq(Singles(s, S))
BY DEF Picked, Singles

LEMMA PickedPlaces ==
  ASSUME NEW X, NEW s \in Seq(X), NEW S \in SUBSET (1..Len(s))
  PROVE  Picked(s, S) \in Seq(X) /\ \E at : IsPicking(at, Picked(s, S), s, S)
<1> DEFINE ss == Singles(s, S)
           w == Picked(s, S)
<1>1. /\ ss \in Seq(Seq(X)) /\ Len(ss) = Len(s)
      /\ \A i \in 1..Len(s) : ss[i] = IF i \in S THEN <<s[i]>> ELSE <<>>
  BY SinglesTyped
<1>2. w = FlattenSeq(ss)
  BY PickedIs
<1> HIDE DEF ss, w
<1>3. w \in Seq(X)
  BY <1>1, <1>2, FlattenTyped
<1>4. PICK row, col : IsPlaced(row, col, w, ss, Len(s))
  BY <1>1, <1>2, FlattenPlaces
<1>5. \A i \in 1..Len(s) : IF i \in S THEN Len(ss[i]) = 1 /\ ss[i][1] = s[i] ELSE Len(ss[i]) = 0
  <2> TAKE i \in 1..Len(s)
  <2>1. ss[i] = IF i \in S THEN <<s[i]>> ELSE <<>>
    BY <1>1
  <2>2. CASE i \in S
    <3>1. ss[i] = <<s[i]>>
      BY <2>1, <2>2
    <3> QED
      BY <2>2, <3>1
  <2>3. CASE i \notin S
    <3>1. ss[i] = <<>>
      BY <2>1, <2>3
    <3> QED
      BY <2>3, <3>1
  <2> QED
    BY <2>2, <2>3
<1>6. ASSUME NEW k \in 1..Len(w) PROVE row[k] \in S /\ col[k] = 1 /\ w[k] = s[row[k]]
  <2>1. row[k] \in 1..Len(s) /\ col[k] \in 1..Len(ss[row[k]]) /\ w[k] = ss[row[k]][col[k]]
    BY <1>4 DEF IsPlaced
  <2>2. row[k] \in S
    BY <1>5, <2>1
  <2>3. Len(ss[row[k]]) = 1 /\ ss[row[k]][1] = s[row[k]]
    BY <1>5, <2>1, <2>2
  <2>4. col[k] = 1
    BY <2>1, <2>3
  <2> QED
    BY <2>1, <2>2, <2>3, <2>4
<1>7. row \in [1..Len(w) -> S]
  BY <1>4, <1>6 DEF IsPlaced
<1>8. ASSUME NEW i \in S PROVE \E k \in 1..Len(w) : row[k] = i
  <2>1. 1 \in 1..Len(ss[i]) /\ i \in 1..Len(s)
    BY <1>5
  <2> QED
    BY <1>4, <2>1 DEF IsPlaced
<1>9. ASSUME NEW k \in 1..Len(w), NEW l \in 1..Len(w), row[k] = row[l] PROVE k = l
  <2>1. col[k] = col[l]
    BY <1>6
  <2> QED
    BY <1>4, <1>9, <2>1 DEF IsPlaced
<1>10. IsPicking(row, w, s, S)
  BY <1>6, <1>7, <1>8, <1>9 DEF IsPicking
<1> QED
  BY <1>3, <1>10 DEF w

-----------------------------------------------------------------------------
(* What every pass leaves behind, as a function of the program.            *)

At == [GetAction2Tbls |-> 1, findStatefulActions |-> 2, createStatefulTables |-> 3,
       GetAction2Nodes |-> 4, distinguishPopularActions |-> 5,
       distinguishPopularActionsForControl |-> 6, distinguishDefaultPopularActions |-> 7,
       RemoveNodes |-> 8, AssignAction2Bitmap |-> 9, addStatefulTblActions |-> 10,
       addModifyTables |-> 11, AddVisitedHdr |-> 12, markActionVisited |-> 13,
       addVisitedType |-> 14, redirectDroppedPacket |-> 15, correctPort |-> 16,
       instrumentRules |-> 17, DTModifier |-> 18, done |-> 19]

StateActions(p) == {a \in DOMAIN p.actions : p.actions[a] = <<"exec">>}
TableState(p) ==
  LET alone == {t \in DOMAIN p.tables : Len(p.tables[t].actions) = 1 /\ p.tables[t].actions[1] \in StateActions(p)}
  IN  [t \in alone |-> p.tables[t].actions[1]]

NodesRead(p) ==
  [a \in DOMAIN p.actions |->
     [stmts |-> [i \in DOMAIN p.actions[a] |-> Stmt(p.actions[a][i])], removed |-> FALSE]]
NodesWithCopies(p, ns) ==
  LET copies == {Distinct(m[1], m[2]) : m \in Range(Shared(p))}
      of(n) == IF n \in copies THEN (CHOOSE m \in Range(Shared(p)) : Distinct(m[1], m[2]) = n)[1] ELSE n
  IN  [n \in DOMAIN ns \cup copies |-> ns[of(n)]]
NodesWithout(tbls, ns) == [a \in DOMAIN ns |-> [ns[a] EXCEPT !.removed = IsPopular(tbls, a)]]
NodesMarking(tbls, stateful, ns) ==
  [a \in DOMAIN ns |-> IF IsPopular(tbls, a) \/ a \in stateful THEN ns[a]
                       ELSE [ns[a] EXCEPT !.stmts = Append(@, Mark(a))]]
NodesNotDropping(ns) == [a \in DOMAIN ns |-> [ns[a] EXCEPT !.stmts = Redirected(@)]]

NodesCopied(p) == NodesWithCopies(p, NodesRead(p))
NodesRemoved(p) == NodesWithout(ActionTables(p), NodesCopied(p))
NodesMarked(p) == NodesMarking(ActionTables(p), StateActions(p), NodesRemoved(p))
NodesRedirected(p) == NodesNotDropping(NodesMarked(p))

TablesCopied(p) ==
  [t \in DOMAIN p.tables |->
     [p.tables[t] EXCEPT !.actions = [i \in DOMAIN @ |-> BitOf(ActionTables(p), @[i], t)]]]
TablesDefault(tbls, names) ==
  [t \in DOMAIN tbls |-> [tbls[t] EXCEPT !.default = RenamedDefaults(@, t, names)]]
TablesRenamed(p) == TablesDefault(TablesCopied(p), PopularActions(p))

BlocksRenamed(p) == RenamedCases(p.blocks, Range(PopularActions(p)))
BlocksMarked(p) == WithMarkers(BlocksRenamed(p), Walked(p), DOMAIN TableState(p))
BlocksWithEnds(p, bs) == [n \in DOMAIN bs |-> bs[n] \o Behind(p, n)]
BlocksEnded(p) == BlocksWithEnds(p, BlocksMarked(p))

ExtraState(p) == <<>> \o SetToSeq({[table |-> TState \o t, sets |-> TableState(p)[t]] : t \in DOMAIN TableState(p)})
WithAsserts(p, es) ==
  LET asserts == AssertsMet(p)
  IN  es \o [i \in DOMAIN asserts |-> [table |-> AssertTable(asserts[i].num), sets |-> AssertBit(asserts[i].num)]]
ExtraAsserts(p) == WithAsserts(p, ExtraState(p))
ExtraVisited(p) == Append(ExtraAsserts(p), [table |-> VisitedType, sets |-> PktType])
ExtraPort(p) == Append(ExtraVisited(p), [table |-> PortCorrection, sets |-> None])
AssertRulesOf(p) ==
  LET asserts == AssertsMet(p)
  IN  [i \in DOMAIN asserts |-> <<asserts[i].num>> \o AssertRange(p.asserts[asserts[i].num + 1])]

Bits(p) == BitsOf(p, ActionTables(p))
HeaderOf(p) == Layout(InOrder(Bits(p)), Len(Mentions(p)), Len(p.asserts))
RulesCopied(p) ==
  Append([i \in DOMAIN p.rules |-> RenamedRule(p.rules[i], PopularActions(p), p.target)],
         [table |-> PortCorrection, cmd |-> "entry", action |-> PortCorrection, args |-> <<>>])

(* The inductive invariant: what the passes up to this one have made.      *)
NodesMade ==
  nodes = IF At[pass] =< 4 THEN <<>> ELSE IF At[pass] =< 5 THEN NodesRead(prog)
          ELSE IF At[pass] =< 8 THEN NodesCopied(prog) ELSE IF At[pass] =< 13 THEN NodesRemoved(prog)
          ELSE IF At[pass] =< 15 THEN NodesMarked(prog) ELSE NodesRedirected(prog)
BlocksMade ==
  blocks = IF At[pass] =< 6 THEN prog.blocks ELSE IF At[pass] =< 11 THEN BlocksRenamed(prog)
           ELSE IF At[pass] =< 14 THEN BlocksMarked(prog) ELSE BlocksEnded(prog)
ExtraMade ==
  extra = IF At[pass] =< 10 THEN <<>> ELSE IF At[pass] =< 11 THEN ExtraState(prog)
          ELSE IF At[pass] =< 14 THEN ExtraAsserts(prog) ELSE IF At[pass] =< 16 THEN ExtraVisited(prog)
          ELSE ExtraPort(prog)
TablesMade ==
  tables = IF At[pass] =< 5 THEN prog.tables ELSE IF At[pass] =< 7 THEN TablesCopied(prog)
           ELSE TablesRenamed(prog)
MapsMade ==
  /\ actionTables = IF At[pass] =< 1 THEN <<>> ELSE ActionTables(prog)
  /\ stateActions = IF At[pass] =< 2 THEN {} ELSE StateActions(prog)
  /\ tableState = IF At[pass] =< 3 THEN <<>> ELSE TableState(prog)
  /\ popular = IF At[pass] =< 5 THEN <<>> ELSE PopularActions(prog)
  /\ bits = IF At[pass] =< 5 THEN <<>> ELSE IF At[pass] =< 9 THEN Bits(prog) ELSE InOrder(Bits(prog))
OutputMade ==
  /\ rules = IF At[pass] =< 17 THEN prog.rules ELSE RulesCopied(prog)
  /\ assertRules = IF At[pass] =< 11 THEN <<>> ELSE AssertRulesOf(prog)
  /\ header = IF At[pass] =< 12 THEN <<>> ELSE HeaderOf(prog)
  /\ tester = IF At[pass] =< 18 THEN <<>> ELSE HeaderOf(prog)
PassesMade ==
  /\ prog \in Programs
  /\ pass \in DOMAIN At
  /\ NodesMade /\ BlocksMade /\ ExtraMade /\ TablesMade /\ MapsMade /\ OutputMade

LEMMA Stages ==
  /\ "GetAction2Tbls" \in DOMAIN At /\ At["GetAction2Tbls"] = 1
  /\ "findStatefulActions" \in DOMAIN At /\ At["findStatefulActions"] = 2
  /\ "createStatefulTables" \in DOMAIN At /\ At["createStatefulTables"] = 3
  /\ "GetAction2Nodes" \in DOMAIN At /\ At["GetAction2Nodes"] = 4
  /\ "distinguishPopularActions" \in DOMAIN At /\ At["distinguishPopularActions"] = 5
  /\ "distinguishPopularActionsForControl" \in DOMAIN At /\ At["distinguishPopularActionsForControl"] = 6
  /\ "distinguishDefaultPopularActions" \in DOMAIN At /\ At["distinguishDefaultPopularActions"] = 7
  /\ "RemoveNodes" \in DOMAIN At /\ At["RemoveNodes"] = 8
  /\ "AssignAction2Bitmap" \in DOMAIN At /\ At["AssignAction2Bitmap"] = 9
  /\ "addStatefulTblActions" \in DOMAIN At /\ At["addStatefulTblActions"] = 10
  /\ "addModifyTables" \in DOMAIN At /\ At["addModifyTables"] = 11
  /\ "AddVisitedHdr" \in DOMAIN At /\ At["AddVisitedHdr"] = 12
  /\ "markActionVisited" \in DOMAIN At /\ At["markActionVisited"] = 13
  /\ "addVisitedType" \in DOMAIN At /\ At["addVisitedType"] = 14
  /\ "redirectDroppedPacket" \in DOMAIN At /\ At["redirectDroppedPacket"] = 15
  /\ "correctPort" \in DOMAIN At /\ At["correctPort"] = 16
  /\ "instrumentRules" \in DOMAIN At /\ At["instrumentRules"] = 17
  /\ "DTModifier" \in DOMAIN At /\ At["DTModifier"] = 18
  /\ "done" \in DOMAIN At /\ At["done"] = 19
BY DEF At

LEMMA InitMade == Init => PassesMade
BY Stages DEF Init, PassesMade, NodesMade, BlocksMade, ExtraMade, TablesMade, MapsMade, OutputMade

LEMMA NextMade == PassesMade /\ [Next]_vars => PassesMade'
<1> SUFFICES ASSUME PassesMade, [Next]_vars PROVE PassesMade'
  OBVIOUS
<1>0. prog \in Programs /\ NodesMade /\ BlocksMade /\ ExtraMade /\ TablesMade /\ MapsMade /\ OutputMade
  BY DEF PassesMade
<1>1. CASE GetAction2Tbls
  <2>1. /\ pass = "GetAction2Tbls" /\ pass' = "findStatefulActions" /\ prog' = prog
        /\ UNCHANGED <<stateActions, tableState, popular, bits, tables, blocks, rules, nodes, extra, assertRules, header, tester>>
    BY <1>1 DEF GetAction2Tbls, Pass
  <2>2. actionTables' = ActionTables(prog)
    BY <1>1 DEF GetAction2Tbls
  <2>3. NodesMade'
    BY <1>0, <2>1, <2>2, Stages DEF NodesMade
  <2>4. BlocksMade'
    BY <1>0, <2>1, <2>2, Stages DEF BlocksMade
  <2>5. ExtraMade'
    BY <1>0, <2>1, <2>2, Stages DEF ExtraMade
  <2>6. TablesMade'
    BY <1>0, <2>1, <2>2, Stages DEF TablesMade
  <2>7. MapsMade'
    BY <1>0, <2>1, <2>2, Stages DEF MapsMade
  <2>8. OutputMade'
    BY <1>0, <2>1, <2>2, Stages DEF OutputMade
  <2> QED
    BY <1>0, <2>1, <2>3, <2>4, <2>5, <2>6, <2>7, <2>8, Stages DEF PassesMade
<1>2. CASE FindStatefulActions
  <2>1. /\ pass = "findStatefulActions" /\ pass' = "createStatefulTables" /\ prog' = prog
        /\ UNCHANGED <<actionTables, tableState, popular, bits, tables, blocks, rules, nodes, extra, assertRules, header, tester>>
    BY <1>2 DEF FindStatefulActions, Pass
  <2>2. stateActions' = StateActions(prog)
    BY <1>2 DEF FindStatefulActions, StateActions
  <2>3. NodesMade'
    BY <1>0, <2>1, <2>2, Stages DEF NodesMade
  <2>4. BlocksMade'
    BY <1>0, <2>1, <2>2, Stages DEF BlocksMade
  <2>5. ExtraMade'
    BY <1>0, <2>1, <2>2, Stages DEF ExtraMade
  <2>6. TablesMade'
    BY <1>0, <2>1, <2>2, Stages DEF TablesMade
  <2>7. MapsMade'
    BY <1>0, <2>1, <2>2, Stages DEF MapsMade
  <2>8. OutputMade'
    BY <1>0, <2>1, <2>2, Stages DEF OutputMade
  <2> QED
    BY <1>0, <2>1, <2>3, <2>4, <2>5, <2>6, <2>7, <2>8, Stages DEF PassesMade
<1>3. CASE CreateStatefulTables
  <2>1. /\ pass = "createStatefulTables" /\ pass' = "GetAction2Nodes" /\ prog' = prog
        /\ UNCHANGED <<actionTables, stateActions, popular, bits, tables, blocks, rules, nodes, extra, assertRules, header, tester>>
    BY <1>3 DEF CreateStatefulTables, Pass
  <2>2. stateActions = StateActions(prog) /\ tables = prog.tables
    BY <1>0, <2>1, Stages DEF NodesMade, BlocksMade, ExtraMade, TablesMade, MapsMade, OutputMade
  <2>3. tableState' = TableState(prog)
    BY <1>3, <2>2 DEF CreateStatefulTables, TableState
  <2>4. NodesMade'
    BY <1>0, <2>1, <2>3, Stages DEF NodesMade
  <2>5. BlocksMade'
    BY <1>0, <2>1, <2>3, Stages DEF BlocksMade
  <2>6. ExtraMade'
    BY <1>0, <2>1, <2>3, Stages DEF ExtraMade
  <2>7. TablesMade'
    BY <1>0, <2>1, <2>3, Stages DEF TablesMade
  <2>8. MapsMade'
    BY <1>0, <2>1, <2>3, Stages DEF MapsMade
  <2>9. OutputMade'
    BY <1>0, <2>1, <2>3, Stages DEF OutputMade
  <2> QED
    BY <1>0, <2>1, <2>4, <2>5, <2>6, <2>7, <2>8, <2>9, Stages DEF PassesMade
<1>4. CASE GetAction2Nodes
  <2>1. /\ pass = "GetAction2Nodes" /\ pass' = "distinguishPopularActions" /\ prog' = prog
        /\ UNCHANGED <<actionTables, stateActions, tableState, popular, bits, tables, blocks, rules, extra, assertRules, header, tester>>
    BY <1>4 DEF GetAction2Nodes, Pass
  <2>2. nodes' = NodesRead(prog)
    BY <1>4 DEF GetAction2Nodes, NodesRead
  <2>3. NodesMade'
    BY <1>0, <2>1, <2>2, Stages DEF NodesMade
  <2>4. BlocksMade'
    BY <1>0, <2>1, <2>2, Stages DEF BlocksMade
  <2>5. ExtraMade'
    BY <1>0, <2>1, <2>2, Stages DEF ExtraMade
  <2>6. TablesMade'
    BY <1>0, <2>1, <2>2, Stages DEF TablesMade
  <2>7. MapsMade'
    BY <1>0, <2>1, <2>2, Stages DEF MapsMade
  <2>8. OutputMade'
    BY <1>0, <2>1, <2>2, Stages DEF OutputMade
  <2> QED
    BY <1>0, <2>1, <2>3, <2>4, <2>5, <2>6, <2>7, <2>8, Stages DEF PassesMade
<1>5. CASE DistinguishPopularActions
  <2>1. /\ pass = "distinguishPopularActions" /\ pass' = "distinguishPopularActionsForControl" /\ prog' = prog
        /\ UNCHANGED <<actionTables, stateActions, tableState, blocks, rules, extra, assertRules, header, tester>>
    BY <1>5 DEF DistinguishPopularActions, Pass
  <2>2. nodes' = NodesWithCopies(prog, nodes)
    BY <1>5 DEF DistinguishPopularActions, NodesWithCopies
  <2>3. popular' = PopularActions(prog)
    BY <1>5 DEF DistinguishPopularActions
  <2>4. actionTables = ActionTables(prog)
    BY <1>0, <2>1, Stages DEF NodesMade, BlocksMade, ExtraMade, TablesMade, MapsMade, OutputMade
  <2>5. bits' = Bits(prog)
    BY <1>5, <2>4 DEF DistinguishPopularActions, Bits
  <2>6. actionTables = ActionTables(prog) /\ tables = prog.tables
    BY <1>0, <2>1, Stages DEF NodesMade, BlocksMade, ExtraMade, TablesMade, MapsMade, OutputMade
  <2>7. tables' = TablesCopied(prog)
    BY <1>5, <2>6 DEF DistinguishPopularActions, TablesCopied
  <2>8. NodesMade'
    BY <1>0, <2>1, <2>2, <2>3, <2>5, <2>7, Stages DEF NodesMade, MapsMade, NodesCopied
  <2>9. BlocksMade'
    BY <1>0, <2>1, <2>2, <2>3, <2>5, <2>7, Stages DEF BlocksMade, MapsMade, NodesCopied
  <2>10. ExtraMade'
    BY <1>0, <2>1, <2>2, <2>3, <2>5, <2>7, Stages DEF ExtraMade, MapsMade, NodesCopied
  <2>11. TablesMade'
    BY <1>0, <2>1, <2>2, <2>3, <2>5, <2>7, Stages DEF TablesMade, MapsMade, NodesCopied
  <2>12. MapsMade'
    BY <1>0, <2>1, <2>2, <2>3, <2>5, <2>7, Stages DEF MapsMade, NodesCopied
  <2>13. OutputMade'
    BY <1>0, <2>1, <2>2, <2>3, <2>5, <2>7, Stages DEF OutputMade, MapsMade, NodesCopied
  <2> QED
    BY <1>0, <2>1, <2>8, <2>9, <2>10, <2>11, <2>12, <2>13, Stages DEF PassesMade
<1>6. CASE DistinguishPopularActionsForControl
  <2>1. /\ pass = "distinguishPopularActionsForControl" /\ pass' = "distinguishDefaultPopularActions" /\ prog' = prog
        /\ UNCHANGED <<actionTables, stateActions, tableState, popular, bits, tables, rules, nodes, extra, assertRules, header, tester>>
    BY <1>6 DEF DistinguishPopularActionsForControl, Pass
  <2>2. popular = PopularActions(prog) /\ blocks = prog.blocks
    BY <1>0, <2>1, Stages DEF NodesMade, BlocksMade, ExtraMade, TablesMade, MapsMade, OutputMade
  <2>3. blocks' = BlocksRenamed(prog)
    BY <1>6, <2>2 DEF DistinguishPopularActionsForControl, BlocksRenamed
  <2>4. NodesMade'
    BY <1>0, <2>1, <2>3, Stages DEF NodesMade
  <2>5. BlocksMade'
    BY <1>0, <2>1, <2>3, Stages DEF BlocksMade
  <2>6. ExtraMade'
    BY <1>0, <2>1, <2>3, Stages DEF ExtraMade
  <2>7. TablesMade'
    BY <1>0, <2>1, <2>3, Stages DEF TablesMade
  <2>8. MapsMade'
    BY <1>0, <2>1, <2>3, Stages DEF MapsMade
  <2>9. OutputMade'
    BY <1>0, <2>1, <2>3, Stages DEF OutputMade
  <2> QED
    BY <1>0, <2>1, <2>4, <2>5, <2>6, <2>7, <2>8, <2>9, Stages DEF PassesMade
<1>7. CASE DistinguishDefaultPopularActions
  <2>1. /\ pass = "distinguishDefaultPopularActions" /\ pass' = "RemoveNodes" /\ prog' = prog
        /\ UNCHANGED <<actionTables, stateActions, tableState, popular, bits, blocks, rules, nodes, extra, assertRules, header, tester>>
    BY <1>7 DEF DistinguishDefaultPopularActions, Pass
  <2>2. tables' = TablesDefault(tables, popular)
    BY <1>7 DEF DistinguishDefaultPopularActions, TablesDefault
  <2>3. NodesMade'
    BY <1>0, <2>1, <2>2, Stages DEF NodesMade, MapsMade, TablesRenamed
  <2>4. BlocksMade'
    BY <1>0, <2>1, <2>2, Stages DEF BlocksMade, MapsMade, TablesRenamed
  <2>5. ExtraMade'
    BY <1>0, <2>1, <2>2, Stages DEF ExtraMade, MapsMade, TablesRenamed
  <2>6. TablesMade'
    BY <1>0, <2>1, <2>2, Stages DEF TablesMade, MapsMade, TablesRenamed
  <2>7. MapsMade'
    BY <1>0, <2>1, <2>2, Stages DEF MapsMade, TablesRenamed
  <2>8. OutputMade'
    BY <1>0, <2>1, <2>2, Stages DEF OutputMade, MapsMade, TablesRenamed
  <2> QED
    BY <1>0, <2>1, <2>3, <2>4, <2>5, <2>6, <2>7, <2>8, Stages DEF PassesMade
<1>8. CASE RemoveNodes
  <2>1. /\ pass = "RemoveNodes" /\ pass' = "AssignAction2Bitmap" /\ prog' = prog
        /\ UNCHANGED <<actionTables, stateActions, tableState, popular, bits, tables, blocks, rules, extra, assertRules, header, tester>>
    BY <1>8 DEF RemoveNodes, Pass
  <2>2. nodes' = NodesWithout(actionTables, nodes)
    BY <1>8 DEF RemoveNodes, NodesWithout
  <2>3. NodesMade'
    BY <1>0, <2>1, <2>2, Stages DEF NodesMade, MapsMade, NodesRemoved
  <2>4. BlocksMade'
    BY <1>0, <2>1, <2>2, Stages DEF BlocksMade, MapsMade, NodesRemoved
  <2>5. ExtraMade'
    BY <1>0, <2>1, <2>2, Stages DEF ExtraMade, MapsMade, NodesRemoved
  <2>6. TablesMade'
    BY <1>0, <2>1, <2>2, Stages DEF TablesMade, MapsMade, NodesRemoved
  <2>7. MapsMade'
    BY <1>0, <2>1, <2>2, Stages DEF MapsMade, NodesRemoved
  <2>8. OutputMade'
    BY <1>0, <2>1, <2>2, Stages DEF OutputMade, MapsMade, NodesRemoved
  <2> QED
    BY <1>0, <2>1, <2>3, <2>4, <2>5, <2>6, <2>7, <2>8, Stages DEF PassesMade
<1>9. CASE AssignAction2Bitmap
  <2>1. /\ pass = "AssignAction2Bitmap" /\ pass' = "addStatefulTblActions" /\ prog' = prog
        /\ UNCHANGED <<actionTables, stateActions, tableState, popular, tables, blocks, rules, nodes, extra, assertRules, header, tester>>
    BY <1>9 DEF AssignAction2Bitmap, Pass
  <2>2. bits' = InOrder(bits)
    BY <1>9 DEF AssignAction2Bitmap
  <2>3. NodesMade'
    BY <1>0, <2>1, <2>2, Stages DEF NodesMade
  <2>4. BlocksMade'
    BY <1>0, <2>1, <2>2, Stages DEF BlocksMade
  <2>5. ExtraMade'
    BY <1>0, <2>1, <2>2, Stages DEF ExtraMade
  <2>6. TablesMade'
    BY <1>0, <2>1, <2>2, Stages DEF TablesMade
  <2>7. MapsMade'
    BY <1>0, <2>1, <2>2, Stages DEF MapsMade
  <2>8. OutputMade'
    BY <1>0, <2>1, <2>2, Stages DEF OutputMade
  <2> QED
    BY <1>0, <2>1, <2>3, <2>4, <2>5, <2>6, <2>7, <2>8, Stages DEF PassesMade
<1>10. CASE AddStatefulTblActions
  <2>1. /\ pass = "addStatefulTblActions" /\ pass' = "addModifyTables" /\ prog' = prog
        /\ UNCHANGED <<actionTables, stateActions, tableState, popular, bits, tables, blocks, rules, nodes, assertRules, header, tester>>
    BY <1>10 DEF AddStatefulTblActions, Pass
  <2>2. extra = <<>> /\ tableState = TableState(prog)
    BY <1>0, <2>1, Stages DEF NodesMade, BlocksMade, ExtraMade, TablesMade, MapsMade, OutputMade
  <2>3. extra' = ExtraState(prog)
    BY <1>10, <2>2 DEF AddStatefulTblActions, ExtraState
  <2>4. NodesMade'
    BY <1>0, <2>1, <2>3, Stages DEF NodesMade
  <2>5. BlocksMade'
    BY <1>0, <2>1, <2>3, Stages DEF BlocksMade
  <2>6. ExtraMade'
    BY <1>0, <2>1, <2>3, Stages DEF ExtraMade
  <2>7. TablesMade'
    BY <1>0, <2>1, <2>3, Stages DEF TablesMade
  <2>8. MapsMade'
    BY <1>0, <2>1, <2>3, Stages DEF MapsMade
  <2>9. OutputMade'
    BY <1>0, <2>1, <2>3, Stages DEF OutputMade
  <2> QED
    BY <1>0, <2>1, <2>4, <2>5, <2>6, <2>7, <2>8, <2>9, Stages DEF PassesMade
<1>11. CASE AddModifyTables
  <2>1. /\ pass = "addModifyTables" /\ pass' = "AddVisitedHdr" /\ prog' = prog
        /\ UNCHANGED <<actionTables, stateActions, tableState, popular, bits, tables, rules, nodes, header, tester>>
    BY <1>11 DEF AddModifyTables, Pass
  <2>2. blocks' = WithMarkers(blocks, Walked(prog), DOMAIN tableState)
    BY <1>11 DEF AddModifyTables
  <2>3. extra' = WithAsserts(prog, extra)
    BY <1>11 DEF AddModifyTables, WithAsserts
  <2>4. assertRules' = AssertRulesOf(prog)
    BY <1>11 DEF AddModifyTables, AssertRulesOf
  <2>5. NodesMade'
    BY <1>0, <2>1, <2>2, <2>3, <2>4, Stages DEF NodesMade, MapsMade, BlocksMarked, ExtraAsserts
  <2>6. BlocksMade'
    BY <1>0, <2>1, <2>2, <2>3, <2>4, Stages DEF BlocksMade, MapsMade, BlocksMarked, ExtraAsserts
  <2>7. ExtraMade'
    BY <1>0, <2>1, <2>2, <2>3, <2>4, Stages DEF ExtraMade, MapsMade, BlocksMarked, ExtraAsserts
  <2>8. TablesMade'
    BY <1>0, <2>1, <2>2, <2>3, <2>4, Stages DEF TablesMade, MapsMade, BlocksMarked, ExtraAsserts
  <2>9. MapsMade'
    BY <1>0, <2>1, <2>2, <2>3, <2>4, Stages DEF MapsMade, BlocksMarked, ExtraAsserts
  <2>10. OutputMade'
    BY <1>0, <2>1, <2>2, <2>3, <2>4, Stages DEF OutputMade, MapsMade, BlocksMarked, ExtraAsserts
  <2> QED
    BY <1>0, <2>1, <2>5, <2>6, <2>7, <2>8, <2>9, <2>10, Stages DEF PassesMade
<1>12. CASE AddVisitedHdr
  <2>1. /\ pass = "AddVisitedHdr" /\ pass' = "markActionVisited" /\ prog' = prog
        /\ UNCHANGED <<actionTables, stateActions, tableState, popular, bits, tables, blocks, rules, nodes, extra, assertRules, tester>>
    BY <1>12 DEF AddVisitedHdr, Pass
  <2>2. bits = InOrder(Bits(prog))
    BY <1>0, <2>1, Stages DEF NodesMade, BlocksMade, ExtraMade, TablesMade, MapsMade, OutputMade
  <2>3. header' = HeaderOf(prog)
    BY <1>12, <2>2 DEF AddVisitedHdr, HeaderOf
  <2>4. NodesMade'
    BY <1>0, <2>1, <2>3, Stages DEF NodesMade
  <2>5. BlocksMade'
    BY <1>0, <2>1, <2>3, Stages DEF BlocksMade
  <2>6. ExtraMade'
    BY <1>0, <2>1, <2>3, Stages DEF ExtraMade
  <2>7. TablesMade'
    BY <1>0, <2>1, <2>3, Stages DEF TablesMade
  <2>8. MapsMade'
    BY <1>0, <2>1, <2>3, Stages DEF MapsMade
  <2>9. OutputMade'
    BY <1>0, <2>1, <2>3, Stages DEF OutputMade
  <2> QED
    BY <1>0, <2>1, <2>4, <2>5, <2>6, <2>7, <2>8, <2>9, Stages DEF PassesMade
<1>13. CASE MarkActionVisited
  <2>1. /\ pass = "markActionVisited" /\ pass' = "addVisitedType" /\ prog' = prog
        /\ UNCHANGED <<actionTables, stateActions, tableState, popular, bits, tables, blocks, rules, extra, assertRules, header, tester>>
    BY <1>13 DEF MarkActionVisited, Pass
  <2>2. nodes' = NodesMarking(actionTables, stateActions, nodes)
    BY <1>13 DEF MarkActionVisited, Marked, NodesMarking
  <2>3. NodesMade'
    BY <1>0, <2>1, <2>2, Stages DEF NodesMade, MapsMade, NodesMarked
  <2>4. BlocksMade'
    BY <1>0, <2>1, <2>2, Stages DEF BlocksMade, MapsMade, NodesMarked
  <2>5. ExtraMade'
    BY <1>0, <2>1, <2>2, Stages DEF ExtraMade, MapsMade, NodesMarked
  <2>6. TablesMade'
    BY <1>0, <2>1, <2>2, Stages DEF TablesMade, MapsMade, NodesMarked
  <2>7. MapsMade'
    BY <1>0, <2>1, <2>2, Stages DEF MapsMade, NodesMarked
  <2>8. OutputMade'
    BY <1>0, <2>1, <2>2, Stages DEF OutputMade, MapsMade, NodesMarked
  <2> QED
    BY <1>0, <2>1, <2>3, <2>4, <2>5, <2>6, <2>7, <2>8, Stages DEF PassesMade
<1>14. CASE AddVisitedType
  <2>1. /\ pass = "addVisitedType" /\ pass' = "redirectDroppedPacket" /\ prog' = prog
        /\ UNCHANGED <<actionTables, stateActions, tableState, popular, bits, tables, rules, nodes, assertRules, header, tester>>
    BY <1>14 DEF AddVisitedType, Pass
  <2>2. blocks' = BlocksWithEnds(prog, blocks)
    BY <1>14 DEF AddVisitedType, BlocksWithEnds
  <2>3. extra = ExtraAsserts(prog)
    BY <1>0, <2>1, Stages DEF NodesMade, BlocksMade, ExtraMade, TablesMade, MapsMade, OutputMade
  <2>4. extra' = ExtraVisited(prog)
    BY <1>14, <2>3 DEF AddVisitedType, ExtraVisited
  <2>5. NodesMade'
    BY <1>0, <2>1, <2>2, <2>4, Stages DEF NodesMade, MapsMade, BlocksEnded
  <2>6. BlocksMade'
    BY <1>0, <2>1, <2>2, <2>4, Stages DEF BlocksMade, MapsMade, BlocksEnded
  <2>7. ExtraMade'
    BY <1>0, <2>1, <2>2, <2>4, Stages DEF ExtraMade, MapsMade, BlocksEnded
  <2>8. TablesMade'
    BY <1>0, <2>1, <2>2, <2>4, Stages DEF TablesMade, MapsMade, BlocksEnded
  <2>9. MapsMade'
    BY <1>0, <2>1, <2>2, <2>4, Stages DEF MapsMade, BlocksEnded
  <2>10. OutputMade'
    BY <1>0, <2>1, <2>2, <2>4, Stages DEF OutputMade, MapsMade, BlocksEnded
  <2> QED
    BY <1>0, <2>1, <2>5, <2>6, <2>7, <2>8, <2>9, <2>10, Stages DEF PassesMade
<1>15. CASE RedirectDroppedPacket
  <2>1. /\ pass = "redirectDroppedPacket" /\ pass' = "correctPort" /\ prog' = prog
        /\ UNCHANGED <<actionTables, stateActions, tableState, popular, bits, tables, blocks, rules, extra, assertRules, header, tester>>
    BY <1>15 DEF RedirectDroppedPacket, Pass
  <2>2. nodes' = NodesNotDropping(nodes)
    BY <1>15 DEF RedirectDroppedPacket, NodesNotDropping
  <2>3. NodesMade'
    BY <1>0, <2>1, <2>2, Stages DEF NodesMade, MapsMade, NodesRedirected
  <2>4. BlocksMade'
    BY <1>0, <2>1, <2>2, Stages DEF BlocksMade, MapsMade, NodesRedirected
  <2>5. ExtraMade'
    BY <1>0, <2>1, <2>2, Stages DEF ExtraMade, MapsMade, NodesRedirected
  <2>6. TablesMade'
    BY <1>0, <2>1, <2>2, Stages DEF TablesMade, MapsMade, NodesRedirected
  <2>7. MapsMade'
    BY <1>0, <2>1, <2>2, Stages DEF MapsMade, NodesRedirected
  <2>8. OutputMade'
    BY <1>0, <2>1, <2>2, Stages DEF OutputMade, MapsMade, NodesRedirected
  <2> QED
    BY <1>0, <2>1, <2>3, <2>4, <2>5, <2>6, <2>7, <2>8, Stages DEF PassesMade
<1>16. CASE CorrectPort
  <2>1. /\ pass = "correctPort" /\ pass' = "instrumentRules" /\ prog' = prog
        /\ UNCHANGED <<actionTables, stateActions, tableState, popular, bits, tables, blocks, rules, nodes, assertRules, header, tester>>
    BY <1>16 DEF CorrectPort, Pass
  <2>2. extra = ExtraVisited(prog)
    BY <1>0, <2>1, Stages DEF NodesMade, BlocksMade, ExtraMade, TablesMade, MapsMade, OutputMade
  <2>3. extra' = ExtraPort(prog)
    BY <1>16, <2>2 DEF CorrectPort, ExtraPort
  <2>4. NodesMade'
    BY <1>0, <2>1, <2>3, Stages DEF NodesMade
  <2>5. BlocksMade'
    BY <1>0, <2>1, <2>3, Stages DEF BlocksMade
  <2>6. ExtraMade'
    BY <1>0, <2>1, <2>3, Stages DEF ExtraMade
  <2>7. TablesMade'
    BY <1>0, <2>1, <2>3, Stages DEF TablesMade
  <2>8. MapsMade'
    BY <1>0, <2>1, <2>3, Stages DEF MapsMade
  <2>9. OutputMade'
    BY <1>0, <2>1, <2>3, Stages DEF OutputMade
  <2> QED
    BY <1>0, <2>1, <2>4, <2>5, <2>6, <2>7, <2>8, <2>9, Stages DEF PassesMade
<1>17. CASE InstrumentRules
  <2>1. /\ pass = "instrumentRules" /\ pass' = "DTModifier" /\ prog' = prog
        /\ UNCHANGED <<actionTables, stateActions, tableState, popular, bits, tables, blocks, nodes, extra, assertRules, header, tester>>
    BY <1>17 DEF InstrumentRules, Pass
  <2>2. rules = prog.rules /\ popular = PopularActions(prog)
    BY <1>0, <2>1, Stages DEF NodesMade, BlocksMade, ExtraMade, TablesMade, MapsMade, OutputMade
  <2>3. rules' = RulesCopied(prog)
    BY <1>17, <2>2 DEF InstrumentRules, RulesCopied
  <2>4. NodesMade'
    BY <1>0, <2>1, <2>3, Stages DEF NodesMade
  <2>5. BlocksMade'
    BY <1>0, <2>1, <2>3, Stages DEF BlocksMade
  <2>6. ExtraMade'
    BY <1>0, <2>1, <2>3, Stages DEF ExtraMade
  <2>7. TablesMade'
    BY <1>0, <2>1, <2>3, Stages DEF TablesMade
  <2>8. MapsMade'
    BY <1>0, <2>1, <2>3, Stages DEF MapsMade
  <2>9. OutputMade'
    BY <1>0, <2>1, <2>3, Stages DEF OutputMade
  <2> QED
    BY <1>0, <2>1, <2>4, <2>5, <2>6, <2>7, <2>8, <2>9, Stages DEF PassesMade
<1>18. CASE DTModifier
  <2>1. /\ pass = "DTModifier" /\ pass' = "done" /\ prog' = prog
        /\ UNCHANGED <<actionTables, stateActions, tableState, popular, bits, tables, blocks, rules, nodes, extra, assertRules, header>>
    BY <1>18 DEF DTModifier, Pass
  <2>2. tester' = HeaderOf(prog)
    BY <1>18 DEF DTModifier, HeaderOf, Bits
  <2>3. NodesMade'
    BY <1>0, <2>1, <2>2, Stages DEF NodesMade
  <2>4. BlocksMade'
    BY <1>0, <2>1, <2>2, Stages DEF BlocksMade
  <2>5. ExtraMade'
    BY <1>0, <2>1, <2>2, Stages DEF ExtraMade
  <2>6. TablesMade'
    BY <1>0, <2>1, <2>2, Stages DEF TablesMade
  <2>7. MapsMade'
    BY <1>0, <2>1, <2>2, Stages DEF MapsMade
  <2>8. OutputMade'
    BY <1>0, <2>1, <2>2, Stages DEF OutputMade
  <2> QED
    BY <1>0, <2>1, <2>3, <2>4, <2>5, <2>6, <2>7, <2>8, Stages DEF PassesMade
<1>19. CASE UNCHANGED vars
  BY <1>0, <1>19 DEF vars, PassesMade, NodesMade, BlocksMade, ExtraMade, TablesMade, MapsMade, OutputMade
<1> QED
  BY <1>1, <1>2, <1>3, <1>4, <1>5, <1>6, <1>7, <1>8, <1>9, <1>10, <1>11, <1>12, <1>13, <1>14, <1>15, <1>16,
     <1>17, <1>18, <1>19 DEF Next

(* Every variable is what its passes make of the program.                  *)
THEOREM InstrumentedAs == Spec => []PassesMade
BY InitMade, NextMade, PTL DEF Spec

LEMMA DoneMade ==
  ASSUME PassesMade, Done
  PROVE  /\ prog \in Programs
         /\ actionTables = ActionTables(prog) /\ stateActions = StateActions(prog)
         /\ tableState = TableState(prog) /\ popular = PopularActions(prog)
         /\ bits = InOrder(Bits(prog)) /\ tables = TablesRenamed(prog) /\ blocks = BlocksEnded(prog)
         /\ rules = RulesCopied(prog) /\ nodes = NodesRedirected(prog) /\ extra = ExtraPort(prog)
         /\ assertRules = AssertRulesOf(prog) /\ header = HeaderOf(prog) /\ tester = HeaderOf(prog)
<1>1. At[pass] = 19
  BY Stages DEF Done
<1>2. prog \in Programs /\ NodesMade /\ BlocksMade /\ ExtraMade /\ TablesMade /\ MapsMade /\ OutputMade
  BY DEF PassesMade
<1>3. nodes = NodesRedirected(prog) /\ blocks = BlocksEnded(prog)
  BY <1>1, <1>2 DEF NodesMade, BlocksMade
<1>4. extra = ExtraPort(prog) /\ tables = TablesRenamed(prog)
  BY <1>1, <1>2 DEF ExtraMade, TablesMade
<1> QED
  BY <1>1, <1>2, <1>3, <1>4 DEF MapsMade, OutputMade

-----------------------------------------------------------------------------
(* Sequences, once more.                                                   *)

LEMMA SeqIs ==
  ASSUME NEW X, NEW s \in Seq(X)
  PROVE  /\ DOMAIN s = 1..Len(s) /\ Len(s) \in Nat
         /\ \A i \in 1..Len(s) : s[i] \in X /\ s[i] \in Range(s)
         /\ \A x \in Range(s) : x \in X /\ \E i \in 1..Len(s) : s[i] = x
         /\ IsInjective(s) <=> \A i, j \in 1..Len(s) : s[i] = s[j] => i = j
<1>1. DOMAIN s = 1..Len(s) /\ Len(s) \in Nat /\ \A i \in 1..Len(s) : s[i] \in X
  OBVIOUS
<1>2. \A i \in 1..Len(s) : s[i] \in Range(s)
  BY <1>1 DEF Range
<1>3. \A x \in Range(s) : x \in X /\ \E i \in 1..Len(s) : s[i] = x
  BY <1>1 DEF Range
<1>4. IsInjective(s) <=> \A i, j \in 1..Len(s) : s[i] = s[j] => i = j
  BY <1>1 DEF IsInjective
<1> QED
  BY <1>1, <1>2, <1>3, <1>4

LEMMA InRange ==
  ASSUME NEW X, NEW s \in Seq(X), NEW x \in Range(s)
  PROVE  x \in X /\ \E i \in 1..Len(s) : s[i] = x
BY SeqIs

LEMMA FunctionAsSeq ==
  ASSUME NEW X, NEW s, NEW n \in Nat, s \in [1..n -> X]
  PROVE  s \in Seq(X) /\ Len(s) = n
OBVIOUS

IsConcat(c, s, t, X) ==
  /\ c \in Seq(X) /\ Len(c) = Len(s) + Len(t)
  /\ \A i \in 1..Len(s) : c[i] = s[i]
  /\ \A i \in 1..Len(t) : c[Len(s) + i] = t[i]

LEMMA ConcatIs ==
  ASSUME NEW X, NEW s \in Seq(X), NEW t \in Seq(X)
  PROVE  IsConcat(s \o t, s, t, X)
BY DEF IsConcat
-----------------------------------------------------------------------------
(* Names: a word of the passes stands in one place only.                   *)

LEMMA ProgramIs ==
  ASSUME NEW p \in Programs
  PROVE  /\ \A a \in DOMAIN p.actions : Name(a) /\ p.actions[a] \in Seq({"drop", "forward", "exec", "other"})
         /\ p.order \in Seq(Range(p.order)) /\ IsInjective(p.order)
         /\ DOMAIN p.tables = Range(p.order) /\ \A t \in DOMAIN p.tables : Name(t)
         /\ \A t \in DOMAIN p.tables :
              /\ p.tables[t] = [actions |-> p.tables[t].actions, default |-> p.tables[t].default]
              /\ p.tables[t].actions \in Seq(DOMAIN p.actions) /\ IsInjective(p.tables[t].actions)
              /\ \/ p.tables[t].default = None
                 \/ /\ p.tables[t].default \in [name : DOMAIN p.actions, args : {"bare", "digits", "other"}]
                    /\ p.tables[t].default.name \in Range(p.tables[t].actions)
         /\ p.asserts \in Seq([op : {"==", "<=", ">="}, value : Nat])
         /\ p.rules \in Seq(RulesOf(p)) /\ p.target \in {"hw", "sim"}
<1>1. WellFormed(p)
  BY ProgramsAssumption
<1>2. /\ \A a \in DOMAIN p.actions : Name(a) /\ p.actions[a] \in Seq({"drop", "forward", "exec", "other"})
      /\ p.order \in Seq(Range(p.order)) /\ IsInjective(p.order)
      /\ p.asserts \in Seq([op : {"==", "<=", ">="}, value : Nat])
      /\ p.rules \in Seq(RulesOf(p)) /\ p.target \in {"hw", "sim"}
  BY <1>1 DEF WellFormed
<1>3. p.tables \in [Range(p.order) -> TablesOf(p)] /\ \A t \in Range(p.order) : Name(t)
  BY <1>1 DEF WellFormed
<1>4. DOMAIN p.tables = Range(p.order) /\ \A t \in DOMAIN p.tables : Name(t)
  BY <1>3
<1>5. ASSUME NEW t \in DOMAIN p.tables
      PROVE  /\ p.tables[t] = [actions |-> p.tables[t].actions, default |-> p.tables[t].default]
             /\ p.tables[t].actions \in Seq(DOMAIN p.actions) /\ IsInjective(p.tables[t].actions)
             /\ \/ p.tables[t].default = None
                \/ /\ p.tables[t].default \in [name : DOMAIN p.actions, args : {"bare", "digits", "other"}]
                   /\ p.tables[t].default.name \in Range(p.tables[t].actions)
  <2>1. p.tables[t] \in TablesOf(p)
    BY <1>3, <1>4
  <2>2. /\ IsInjective(p.tables[t].actions)
        /\ p.tables[t].default # None => p.tables[t].default.name \in Range(p.tables[t].actions)
    BY <1>1 DEF WellFormed
  <2> QED
    BY <2>1, <2>2 DEF TablesOf
<1> QED
  BY <1>2, <1>4, <1>5

LEMMA NameIs ==
  ASSUME NEW n, Name(n)
  PROVE  n \in Seq(Nat) /\ Len(n) \in Nat /\ \A i \in 1..Len(n) : n[i] \in Nat /\ n[i] \notin 51..59
<1>1. n \in Seq(Nat) /\ \A i \in DOMAIN n : n[i] \notin 51..59
  BY DEF Name
<1> QED
  BY <1>1

IsDistinct(d, a, t) ==
  /\ d \in Seq(Nat) /\ Len(d) = Len(a) + 3 + Len(t)
  /\ \A i \in 1..Len(a) : d[i] = a[i]
  /\ d[Len(a) + 1] = 50 /\ d[Len(a) + 2] = 51 /\ d[Len(a) + 3] = 50
  /\ \A i \in 1..Len(t) : d[Len(a) + 3 + i] = t[i]

LEMMA DistinctIs ==
  ASSUME NEW a \in Seq(Nat), NEW t \in Seq(Nat)
  PROVE  IsDistinct(Distinct(a, t), a, t)
<1> DEFINE m == a \o Fp4
           L == Len(a)
           d == m \o t
<1>1. Fp4 \in Seq(Nat) /\ Len(Fp4) = 3 /\ Fp4[1] = 50 /\ Fp4[2] = 51 /\ Fp4[3] = 50 /\ L \in Nat /\ Len(t) \in Nat
  BY DEF Fp4
<1>2. /\ m \in Seq(Nat) /\ Len(m) = L + 3
      /\ \A i \in 1..L : m[i] = a[i]
      /\ \A i \in 1..3 : m[L + i] = Fp4[i]
  <2>1. IsConcat(m, a, Fp4, Nat)
    BY <1>1, ConcatIs
  <2> HIDE DEF m
  <2> QED
    BY <1>1, <2>1 DEF IsConcat
<1>3. Distinct(a, t) = d
  BY DEF Distinct
<1> HIDE DEF m
<1>4. /\ d \in Seq(Nat) /\ Len(d) = (L + 3) + Len(t)
      /\ \A i \in 1..(L + 3) : d[i] = m[i]
      /\ \A i \in 1..Len(t) : d[(L + 3) + i] = t[i]
  <2>1. IsConcat(d, m, t, Nat)
    BY <1>1, <1>2, ConcatIs
  <2> HIDE DEF d, L
  <2> QED
    BY <1>1, <1>2, <2>1 DEF IsConcat
<1> HIDE DEF d, L
<1>5. \A i \in 1..L : d[i] = a[i]
  BY <1>1, <1>2, <1>4
<1>6. d[L + 1] = 50 /\ d[L + 2] = 51 /\ d[L + 3] = 50
  BY <1>1, <1>2, <1>4
<1>7. d \in Seq(Nat) /\ Len(d) = L + 3 + Len(t) /\ \A i \in 1..Len(t) : d[L + 3 + i] = t[i]
  BY <1>1, <1>4
<1>8. IsDistinct(d, a, t)
  BY <1>5, <1>6, <1>7 DEF IsDistinct, L
<1> QED
  BY <1>3, <1>8

LEMMA DistinctTellsApart ==
  ASSUME NEW a, NEW t, NEW b, NEW u, Name(a), Name(t), Name(b), Name(u),
         Distinct(a, t) = Distinct(b, u)
  PROVE  a = b /\ t = u
<1>1. /\ a \in Seq(Nat) /\ Len(a) \in Nat /\ \A i \in 1..Len(a) : a[i] \notin 51..59
      /\ b \in Seq(Nat) /\ Len(b) \in Nat /\ \A i \in 1..Len(b) : b[i] \notin 51..59
      /\ t \in Seq(Nat) /\ Len(t) \in Nat /\ u \in Seq(Nat) /\ Len(u) \in Nat
  BY NameIs
<1> DEFINE d == Distinct(a, t)
<1>2. IsDistinct(d, a, t) /\ IsDistinct(d, b, u)
  BY <1>1, DistinctIs
<1> HIDE DEF d
<1>3. /\ Len(d) = Len(a) + 3 + Len(t) /\ Len(d) = Len(b) + 3 + Len(u)
      /\ \A i \in 1..Len(a) : d[i] = a[i]
      /\ \A i \in 1..Len(b) : d[i] = b[i]
      /\ d[Len(a) + 1] = 50 /\ d[Len(a) + 2] = 51 /\ d[Len(a) + 3] = 50
      /\ d[Len(b) + 1] = 50 /\ d[Len(b) + 2] = 51 /\ d[Len(b) + 3] = 50
      /\ \A i \in 1..Len(t) : d[Len(a) + 3 + i] = t[i]
      /\ \A i \in 1..Len(u) : d[Len(b) + 3 + i] = u[i]
  BY <1>2 DEF IsDistinct
<1>4. Len(a) = Len(b)
  <2>1. ASSUME Len(a) < Len(b) PROVE FALSE
    <3>1. CASE Len(a) + 2 <= Len(b)
      <4>1. Len(a) + 2 \in 1..Len(b)
        BY <1>1, <3>1
      <4>2. b[Len(a) + 2] = 51
        BY <1>3, <4>1
      <4> QED
        BY <1>1, <4>1, <4>2
    <3>2. CASE Len(a) + 1 = Len(b)
      BY <1>1, <1>3, <2>1, <3>2, (Len(a) + 1) + 1 = Len(a) + 2
    <3> QED
      BY <1>1, <2>1, <3>1, <3>2
  <2>2. ASSUME Len(b) < Len(a) PROVE FALSE
    <3>1. CASE Len(b) + 2 <= Len(a)
      <4>1. Len(b) + 2 \in 1..Len(a)
        BY <1>1, <3>1
      <4>2. a[Len(b) + 2] = 51
        BY <1>3, <4>1
      <4> QED
        BY <1>1, <4>1, <4>2
    <3>2. CASE Len(b) + 1 = Len(a)
      BY <1>1, <1>3, <2>2, <3>2, (Len(b) + 1) + 1 = Len(b) + 2
    <3> QED
      BY <1>1, <2>2, <3>1, <3>2
  <2> QED
    BY <1>1, <2>1, <2>2
<1>5. Len(t) = Len(u)
  BY <1>1, <1>3, <1>4
<1>6. \A i \in 1..Len(a) : a[i] = b[i]
  BY <1>3, <1>4
<1>7. \A i \in 1..Len(t) : t[i] = u[i]
  BY <1>3, <1>4, <1>5
<1>8. a = b
  BY <1>1, <1>4, <1>6, SeqEqual
<1>9. t = u
  BY <1>1, <1>5, <1>7, SeqEqual
<1> QED
  BY <1>8, <1>9

LEMMA DistinctIsNoName ==
  ASSUME NEW a, NEW t, Name(a), Name(t)
  PROVE  ~ Name(Distinct(a, t))
<1>1. a \in Seq(Nat) /\ t \in Seq(Nat) /\ Len(a) \in Nat /\ Len(t) \in Nat
  BY NameIs
<1>2. Len(Distinct(a, t)) = Len(a) + 3 + Len(t) /\ Distinct(a, t)[Len(a) + 2] = 51
  BY <1>1, DistinctIs DEF IsDistinct
<1> DEFINE d == Distinct(a, t)
<1> HIDE DEF d
<1>3. Len(a) + 2 \in 1..Len(d) /\ d[Len(a) + 2] = 51
  BY <1>1, <1>2 DEF d
<1>4. ~ Name(d)
  BY <1>3, NameIs
<1> QED
  BY <1>4 DEF d
-----------------------------------------------------------------------------
(* The mentions of actions in tables.                                      *)

MentionsAt(p, i) ==
  LET t == Reverse(p.order)[i] IN [j \in DOMAIN p.tables[t].actions |-> <<p.tables[t].actions[j], t>>]
Pairs(p) == (DOMAIN p.actions) \X (DOMAIN p.tables)

LEMMA ReverseIs ==
  ASSUME NEW X, NEW s \in Seq(X)
  PROVE  /\ Reverse(s) \in Seq(X) /\ Len(Reverse(s)) = Len(s)
         /\ \A i \in 1..Len(s) : Reverse(s)[i] = s[(Len(s) - i) + 1]
<1>1. Len(s) \in Nat
  OBVIOUS
<1>2. \A i \in 1..Len(s) : (Len(s) - i) + 1 \in 1..Len(s)
  BY <1>1
<1>3. \A i \in 1..Len(s) : s[(Len(s) - i) + 1] \in X
  BY <1>2
<1>4. Reverse(s) \in [1..Len(s) -> X]
  BY <1>3 DEF Reverse
<1> QED
  BY <1>1, <1>4 DEF Reverse

MentionsParts(p) == [i \in DOMAIN p.order |-> MentionsAt(p, i)]

LEMMA MentionsPartsTyped ==
  ASSUME NEW p \in Programs
  PROVE  /\ MentionsParts(p) \in Seq(Seq(Pairs(p))) /\ Len(MentionsParts(p)) = Len(p.order)
         /\ Mentions(p) = FlattenSeq(MentionsParts(p))
         /\ \A i \in 1..Len(p.order) :
              LET t == Reverse(p.order)[i]
              IN  /\ t \in DOMAIN p.tables
                  /\ Len(MentionsParts(p)[i]) = Len(p.tables[t].actions)
                  /\ \A j \in 1..Len(p.tables[t].actions) : MentionsParts(p)[i][j] = <<p.tables[t].actions[j], t>>
<1>1. /\ p.order \in Seq(DOMAIN p.tables)
      /\ \A t \in DOMAIN p.tables : p.tables[t].actions \in Seq(DOMAIN p.actions)
  BY ProgramIs
<1>2. /\ Reverse(p.order) \in Seq(DOMAIN p.tables) /\ Len(Reverse(p.order)) = Len(p.order)
      /\ DOMAIN p.order = 1..Len(p.order) /\ Len(p.order) \in Nat
  BY <1>1, ReverseIs
<1>3. ASSUME NEW i \in 1..Len(p.order)
      PROVE  LET t == Reverse(p.order)[i]
             IN  /\ t \in DOMAIN p.tables /\ MentionsAt(p, i) \in Seq(Pairs(p))
                 /\ Len(MentionsAt(p, i)) = Len(p.tables[t].actions)
                 /\ \A j \in 1..Len(p.tables[t].actions) : MentionsAt(p, i)[j] = <<p.tables[t].actions[j], t>>
  <2> DEFINE t == Reverse(p.order)[i]
             acts == p.tables[t].actions
  <2>1. t \in DOMAIN p.tables
    BY <1>2
  <2>2. acts \in Seq(DOMAIN p.actions)
    BY <1>1, <2>1
  <2>3. MentionsAt(p, i) = [j \in DOMAIN acts |-> <<acts[j], t>>]
    BY DEF MentionsAt
  <2> HIDE DEF acts, t
  <2>4. DOMAIN acts = 1..Len(acts) /\ Len(acts) \in Nat /\ \A j \in 1..Len(acts) : acts[j] \in DOMAIN p.actions
    BY <2>2, SeqIs
  <2>8. \A j \in 1..Len(acts) : <<acts[j], t>> \in Pairs(p)
    BY <2>1, <2>4 DEF Pairs
  <2>5. MentionsAt(p, i) \in [1..Len(acts) -> Pairs(p)]
    BY <2>3, <2>4, <2>8
  <2>6. MentionsAt(p, i) \in Seq(Pairs(p)) /\ Len(MentionsAt(p, i)) = Len(acts)
    BY <2>4, <2>5, FunctionAsSeq
  <2>7. \A j \in 1..Len(acts) : MentionsAt(p, i)[j] = <<acts[j], t>>
    BY <2>3, <2>4
  <2> QED
    BY <2>1, <2>6, <2>7 DEF acts, t
<1>4. MentionsParts(p) \in [1..Len(p.order) -> Seq(Pairs(p))]
  BY <1>2, <1>3 DEF MentionsParts
<1>5. MentionsParts(p) \in Seq(Seq(Pairs(p))) /\ Len(MentionsParts(p)) = Len(p.order)
  BY <1>2, <1>4
<1>6. \A i \in 1..Len(p.order) : MentionsParts(p)[i] = MentionsAt(p, i)
  BY <1>2 DEF MentionsParts
<1>7. Mentions(p) = FlattenSeq(MentionsParts(p))
  BY DEF Mentions, MentionsParts, MentionsAt
<1> QED
  BY <1>3, <1>5, <1>6, <1>7

(* Each action of a table is mentioned once with it.                       *)
LEMMA MentionsAre ==
  ASSUME NEW p \in Programs
  PROVE  /\ Mentions(p) \in Seq(Pairs(p))
         /\ \A k \in 1..Len(Mentions(p)) :
              LET m == Mentions(p)[k] IN m \in Pairs(p) /\ m = <<m[1], m[2]>> /\ m[1] \in Range(p.tables[m[2]].actions)
         /\ \A k, l \in 1..Len(Mentions(p)) : Mentions(p)[k] = Mentions(p)[l] => k = l
         /\ \A t \in DOMAIN p.tables : \A a \in Range(p.tables[t].actions) :
              \E k \in 1..Len(Mentions(p)) : Mentions(p)[k] = <<a, t>>
<1> DEFINE ms == Mentions(p)
           ss == MentionsParts(p)
           rev == Reverse(p.order)
           N == Len(p.order)
<1>1. /\ ss \in Seq(Seq(Pairs(p))) /\ Len(ss) = N /\ ms = FlattenSeq(ss)
      /\ \A i \in 1..N :
              /\ rev[i] \in DOMAIN p.tables
              /\ Len(ss[i]) = Len(p.tables[rev[i]].actions)
              /\ \A j \in 1..Len(p.tables[rev[i]].actions) : ss[i][j] = <<p.tables[rev[i]].actions[j], rev[i]>>
  BY MentionsPartsTyped
<1>2. /\ p.order \in Seq(DOMAIN p.tables) /\ IsInjective(p.order) /\ DOMAIN p.tables = Range(p.order)
      /\ \A t \in DOMAIN p.tables : p.tables[t].actions \in Seq(DOMAIN p.actions) /\ IsInjective(p.tables[t].actions)
  BY ProgramIs
<1>3. N \in Nat /\ DOMAIN p.order = 1..N /\ \A i \in 1..N : rev[i] = p.order[(N - i) + 1]
  BY <1>2, ReverseIs
<1>4. \A i, j \in 1..N : rev[i] = rev[j] => i = j
  <2> SUFFICES ASSUME NEW i \in 1..N, NEW j \in 1..N, rev[i] = rev[j] PROVE i = j
    OBVIOUS
  <2>1. (N - i) + 1 \in 1..N /\ (N - j) + 1 \in 1..N
    BY <1>3
  <2>2. p.order[(N - i) + 1] = p.order[(N - j) + 1]
    BY <1>3
  <2>3. (N - i) + 1 = (N - j) + 1
    BY <1>2, <1>3, <2>1, <2>2 DEF IsInjective
  <2> QED
    BY <1>3, <2>3
<1>5. \A t \in DOMAIN p.tables : \E i \in 1..N : rev[i] = t
  <2> SUFFICES ASSUME NEW t \in DOMAIN p.tables PROVE \E i \in 1..N : rev[i] = t
    OBVIOUS
  <2>1. PICK j \in 1..N : p.order[j] = t
    BY <1>2, <1>3 DEF Range
  <2>2. (N - j) + 1 \in 1..N /\ (N - ((N - j) + 1)) + 1 = j
    BY <1>3
  <2>3. rev[(N - j) + 1] = p.order[(N - ((N - j) + 1)) + 1]
    BY <1>3, <2>2
  <2> QED
    BY <2>1, <2>2, <2>3
<1> HIDE DEF ms, ss, rev, N
<1>6. ms \in Seq(Pairs(p))
  BY <1>1, FlattenTyped
<1>7. PICK row, col : IsPlaced(row, col, ms, ss, N)
  BY <1>1, FlattenPlaces
<1>8. ASSUME NEW k \in 1..Len(ms)
      PROVE  /\ row[k] \in 1..N /\ rev[row[k]] \in DOMAIN p.tables
             /\ col[k] \in 1..Len(p.tables[rev[row[k]]].actions)
             /\ ms[k] = <<p.tables[rev[row[k]]].actions[col[k]], rev[row[k]]>>
  <2>1. row[k] \in 1..N /\ col[k] \in 1..Len(ss[row[k]]) /\ ms[k] = ss[row[k]][col[k]]
    BY <1>7 DEF IsPlaced
  <2>2. rev[row[k]] \in DOMAIN p.tables /\ Len(ss[row[k]]) = Len(p.tables[rev[row[k]]].actions)
    BY <1>1, <2>1
  <2>3. col[k] \in 1..Len(p.tables[rev[row[k]]].actions)
    BY <2>1, <2>2
  <2>4. ss[row[k]][col[k]] = <<p.tables[rev[row[k]]].actions[col[k]], rev[row[k]]>>
    BY <1>1, <2>1, <2>3
  <2> QED
    BY <2>1, <2>2, <2>3, <2>4
<1>9. ASSUME NEW k \in 1..Len(ms)
      PROVE  ms[k] \in Pairs(p) /\ ms[k] = <<ms[k][1], ms[k][2]>> /\ ms[k][1] \in Range(p.tables[ms[k][2]].actions)
  <2> DEFINE t == rev[row[k]]
             acts == p.tables[t].actions
  <2>1. t \in DOMAIN p.tables /\ col[k] \in 1..Len(acts) /\ ms[k] = <<acts[col[k]], t>>
    BY <1>8
  <2>2. acts \in Seq(DOMAIN p.actions)
    BY <1>2, <2>1
  <2>3. acts[col[k]] \in Range(acts)
    <3> HIDE DEF acts
    <3> QED
      BY <2>1, <2>2, SeqIs
  <2>4. ms[k][1] = acts[col[k]] /\ ms[k][2] = t
    BY <2>1
  <2>5. ms[k] \in Pairs(p)
    BY <1>6
  <2> QED
    BY <2>1, <2>3, <2>4, <2>5
<1>10. ASSUME NEW k \in 1..Len(ms), NEW l \in 1..Len(ms), ms[k] = ms[l] PROVE k = l
  <2>1. /\ row[k] \in 1..N /\ rev[row[k]] \in DOMAIN p.tables
        /\ col[k] \in 1..Len(p.tables[rev[row[k]]].actions)
        /\ ms[k] = <<p.tables[rev[row[k]]].actions[col[k]], rev[row[k]]>>
    BY <1>8
  <2>2. /\ row[l] \in 1..N /\ rev[row[l]] \in DOMAIN p.tables
        /\ col[l] \in 1..Len(p.tables[rev[row[l]]].actions)
        /\ ms[l] = <<p.tables[rev[row[l]]].actions[col[l]], rev[row[l]]>>
    BY <1>8
  <2>3. rev[row[k]] = rev[row[l]] /\ p.tables[rev[row[k]]].actions[col[k]] = p.tables[rev[row[k]]].actions[col[l]]
    <3>1. <<p.tables[rev[row[k]]].actions[col[k]], rev[row[k]]>> = <<p.tables[rev[row[l]]].actions[col[l]], rev[row[l]]>>
      BY <1>10, <2>1, <2>2
    <3>2. rev[row[k]] = rev[row[l]] /\ p.tables[rev[row[k]]].actions[col[k]] = p.tables[rev[row[l]]].actions[col[l]]
      BY <3>1
    <3> QED
      BY <3>2
  <2>4. row[k] = row[l]
    BY <1>4, <2>1, <2>2, <2>3
  <2> DEFINE acts == p.tables[rev[row[k]]].actions
  <2>5. acts \in Seq(DOMAIN p.actions) /\ IsInjective(acts) /\ col[k] \in 1..Len(acts) /\ col[l] \in 1..Len(acts) /\ acts[col[k]] = acts[col[l]]
    BY <1>2, <2>1, <2>2, <2>3
  <2> HIDE DEF acts
  <2>6. col[k] = col[l]
    BY <2>5, SeqIs
  <2> QED
    BY <1>7, <2>4, <2>6 DEF IsPlaced
<1>11. ASSUME NEW t \in DOMAIN p.tables, NEW a \in Range(p.tables[t].actions)
       PROVE  \E k \in 1..Len(ms) : ms[k] = <<a, t>>
  <2>1. PICK i \in 1..N : rev[i] = t
    BY <1>5
  <2> DEFINE acts == p.tables[t].actions
  <2>2. acts \in Seq(DOMAIN p.actions) /\ a \in Range(acts)
    BY <1>2
  <2>3. Len(ss[i]) = Len(acts) /\ \A j \in 1..Len(acts) : ss[i][j] = <<acts[j], t>>
    BY <1>1, <2>1
  <2>8. \A s : s \in Seq(DOMAIN p.actions) /\ a \in Range(s) => \E j \in 1..Len(s) : s[j] = a
    BY InRange
  <2>9. \E j \in 1..Len(acts) : acts[j] = a
    BY <2>2, <2>8, Zenon
  <2> HIDE DEF acts
  <2>4. PICK j \in 1..Len(acts) : acts[j] = a
    BY <2>9
  <2>5. j \in 1..Len(ss[i]) /\ ss[i][j] = <<a, t>>
    BY <2>3, <2>4
  <2>6. PICK k \in 1..Len(ms) : row[k] = i /\ col[k] = j
    BY <1>7, <2>5 DEF IsPlaced
  <2>7. ms[k] = ss[i][j]
    BY <1>7, <2>6 DEF IsPlaced
  <2> QED
    BY <2>5, <2>7
<1> QED
  BY <1>6, <1>9, <1>10, <1>11 DEF ms

-----------------------------------------------------------------------------
(* std::sort puts the names in an order of their own, each once.           *)

BeforeAt(m, n, k) ==
  /\ k <= Len(m) + 1
  /\ \A j \in 1..(k - 1) : m[j] = n[j]
  /\ k = Len(m) + 1 \/ (k <= Len(m) /\ m[k] < n[k])

LEMMA PrefixIs ==
  ASSUME NEW m \in Seq(Nat), NEW n \in Seq(Nat)
  PROVE  IsPrefix(m, n) <=> (Len(m) <= Len(n) /\ \A j \in 1..Len(m) : m[j] = n[j])
<1>1. Len(m) \in Nat /\ Len(n) \in Nat /\ (\A j \in 1..Len(m) : m[j] \in Nat) /\ (\A j \in 1..Len(n) : n[j] \in Nat)
  OBVIOUS
<1>2. CASE Len(m) <= Len(n)
  <2>1. /\ SubSeq(m, 1, Len(m)) \in Seq(Nat) /\ Len(SubSeq(m, 1, Len(m))) = Len(m)
        /\ \A j \in 1..Len(m) : SubSeq(m, 1, Len(m))[j] = m[j]
    BY <1>1
  <2>2. /\ SubSeq(n, 1, Len(m)) \in Seq(Nat) /\ Len(SubSeq(n, 1, Len(m))) = Len(m)
        /\ \A j \in 1..Len(m) : SubSeq(n, 1, Len(m))[j] = n[j]
    BY <1>1, <1>2
  <2>3. (\A j \in 1..Len(m) : m[j] = n[j]) => SubSeq(m, 1, Len(m)) = SubSeq(n, 1, Len(m))
    <3> DEFINE a == SubSeq(m, 1, Len(m))
               b == SubSeq(n, 1, Len(m))
    <3> HIDE DEF a, b
    <3>1. a \in Seq(Nat) /\ b \in Seq(Nat) /\ Len(a) = Len(m) /\ Len(b) = Len(m)
      BY <2>1, <2>2 DEF a, b
    <3>2. \A j \in 1..Len(m) : a[j] = m[j] /\ b[j] = n[j]
      BY <2>1, <2>2 DEF a, b
    <3>3. (\A j \in 1..Len(m) : m[j] = n[j]) => a = b
      BY <3>1, <3>2, SeqEqual
    <3> QED
      BY <3>3 DEF a, b
  <2>4. SubSeq(m, 1, Len(m)) = SubSeq(n, 1, Len(m)) => \A j \in 1..Len(m) : m[j] = n[j]
    BY <2>1, <2>2
  <2> QED
    BY <1>2, <2>3, <2>4 DEF IsPrefix
<1>3. CASE ~ (Len(m) <= Len(n))
  BY <1>3 DEF IsPrefix
<1> QED
  BY <1>2, <1>3

LEMMA NameBeforeIs ==
  ASSUME NEW m \in Seq(Nat), NEW n \in Seq(Nat)
  PROVE  NameBefore(m, n) <=> \E k \in 1..Len(n) : BeforeAt(m, n, k)
<1>1. Len(m) \in Nat /\ Len(n) \in Nat /\ (\A j \in 1..Len(m) : m[j] \in Nat) /\ (\A j \in 1..Len(n) : n[j] \in Nat)
  OBVIOUS
<1>2. IsStrictPrefix(m, n) <=> IsPrefix(m, n) /\ Len(m) < Len(n)
  <2>1. IsPrefix(m, n) /\ Len(m) = Len(n) => m = n
    BY <1>1, PrefixIs, SeqEqual
  <2> QED
    BY <1>1, <2>1, PrefixIs DEF IsStrictPrefix
<1>3. IsStrictPrefix(m, n) <=> (Len(m) + 1 <= Len(n) /\ \A j \in 1..Len(m) : m[j] = n[j])
  BY <1>1, <1>2, PrefixIs
<1>4. ASSUME NameBefore(m, n) PROVE \E k \in 1..Len(n) : BeforeAt(m, n, k)
  <2>1. CASE IsStrictPrefix(m, n)
    <3>1. Len(m) + 1 \in 1..Len(n) /\ (Len(m) + 1) - 1 = Len(m)
      BY <1>1, <1>3, <2>1
    <3>2. BeforeAt(m, n, Len(m) + 1)
      BY <1>1, <1>3, <2>1, <3>1 DEF BeforeAt
    <3> QED
      BY <3>1, <3>2
  <2>2. CASE ~ IsStrictPrefix(m, n)
    <3>1. PICK k \in 1..Len(m) : k <= Len(n) /\ m[k] < n[k] /\ \A j \in 1..(k - 1) : m[j] = n[j]
      BY <1>4, <2>2 DEF NameBefore
    <3>2. k \in 1..Len(n) /\ BeforeAt(m, n, k)
      BY <1>1, <3>1 DEF BeforeAt
    <3> QED
      BY <3>2
  <2> QED
    BY <2>1, <2>2
<1>5. ASSUME NEW k \in 1..Len(n), BeforeAt(m, n, k) PROVE NameBefore(m, n)
  <2>1. CASE k = Len(m) + 1
    <3>1. Len(m) + 1 <= Len(n) /\ k - 1 = Len(m)
      BY <1>1, <2>1
    <3>2. \A j \in 1..Len(m) : m[j] = n[j]
      BY <1>5, <3>1 DEF BeforeAt
    <3> QED
      BY <1>3, <3>1, <3>2 DEF NameBefore
  <2>2. CASE k # Len(m) + 1
    <3>1. k \in 1..Len(m) /\ k <= Len(n) /\ m[k] < n[k] /\ \A j \in 1..(k - 1) : m[j] = n[j]
      BY <1>1, <1>5, <2>2 DEF BeforeAt
    <3> QED
      BY <3>1 DEF NameBefore
  <2> QED
    BY <2>1, <2>2
<1> QED
  BY <1>4, <1>5

LEMMA BeforeTransitive ==
  ASSUME NEW m \in Seq(Nat), NEW n \in Seq(Nat), NEW o \in Seq(Nat), NameBefore(m, n), NameBefore(n, o)
  PROVE  NameBefore(m, o)
<1>1. /\ Len(m) \in Nat /\ Len(n) \in Nat /\ Len(o) \in Nat
      /\ \A j \in 1..Len(m) : m[j] \in Nat
      /\ \A j \in 1..Len(n) : n[j] \in Nat
      /\ \A j \in 1..Len(o) : o[j] \in Nat
  OBVIOUS
<1>2. PICK k \in 1..Len(n) : BeforeAt(m, n, k)
  BY NameBeforeIs
<1>3. PICK l \in 1..Len(o) : BeforeAt(n, o, l)
  BY NameBeforeIs
<1>4. k <= Len(m) + 1 /\ (\A j \in 1..(k - 1) : m[j] = n[j]) /\ (k = Len(m) + 1 \/ (k <= Len(m) /\ m[k] < n[k]))
  BY <1>2 DEF BeforeAt
<1>5. l <= Len(n) + 1 /\ (\A j \in 1..(l - 1) : n[j] = o[j]) /\ (l = Len(n) + 1 \/ (l <= Len(n) /\ n[l] < o[l]))
  BY <1>3 DEF BeforeAt
<1>6. CASE k < l
  <2>1. k \in 1..Len(o) /\ k \in 1..(l - 1) /\ n[k] = o[k]
    BY <1>1, <1>5, <1>6
  <2>2. \A j \in 1..(k - 1) : m[j] = o[j]
    <3> SUFFICES ASSUME NEW j \in 1..(k - 1) PROVE m[j] = o[j]
      OBVIOUS
    <3>1. j \in 1..(l - 1)
      BY <1>1, <1>6
    <3> QED
      BY <1>4, <1>5, <3>1
  <2>3. BeforeAt(m, o, k)
    BY <1>1, <1>4, <2>1, <2>2 DEF BeforeAt
  <2> QED
    BY <2>1, <2>3, NameBeforeIs
<1>7. CASE k >= l
  <2>1. l \in 1..Len(n) /\ l <= Len(m) + 1 /\ n[l] < o[l]
    BY <1>1, <1>4, <1>5, <1>7
  <2>2. \A j \in 1..(l - 1) : m[j] = o[j]
    <3> SUFFICES ASSUME NEW j \in 1..(l - 1) PROVE m[j] = o[j]
      OBVIOUS
    <3>1. j \in 1..(k - 1)
      BY <1>1, <1>7
    <3> QED
      BY <1>4, <1>5, <3>1
  <2>3. l = Len(m) + 1 \/ (l <= Len(m) /\ m[l] < o[l])
    <3>1. CASE l = k
      BY <1>1, <1>4, <2>1, <3>1
    <3>2. CASE l # k
      <4>1. l \in 1..(k - 1) /\ l <= Len(m)
        BY <1>1, <1>4, <1>7, <3>2
      <4> QED
        BY <1>4, <2>1, <4>1
    <3> QED
      BY <3>1, <3>2
  <2>4. BeforeAt(m, o, l)
    BY <2>1, <2>2, <2>3 DEF BeforeAt
  <2> QED
    BY <2>4, NameBeforeIs
<1> QED
  BY <1>1, <1>6, <1>7

LEMMA BeforeIrreflexive ==
  ASSUME NEW m \in Seq(Nat)
  PROVE  ~ NameBefore(m, m)
<1>1. Len(m) \in Nat /\ \A j \in 1..Len(m) : m[j] \in Nat
  OBVIOUS
<1>2. \A k \in 1..Len(m) : ~ BeforeAt(m, m, k)
  BY <1>1 DEF BeforeAt
<1> QED
  BY <1>2, NameBeforeIs

LEMMA BeforeTotal ==
  ASSUME NEW m \in Seq(Nat), NEW n \in Seq(Nat), m # n
  PROVE  NameBefore(m, n) \/ NameBefore(n, m)
<1>1. Len(m) \in Nat /\ Len(n) \in Nat /\ (\A j \in 1..Len(m) : m[j] \in Nat) /\ (\A j \in 1..Len(n) : n[j] \in Nat)
  OBVIOUS
<1> DEFINE D == {k \in 1..Len(m) : k <= Len(n) /\ m[k] # n[k]}
<1>2. CASE D = {}
  <2>1. \A k \in 1..Len(m) : k <= Len(n) => m[k] = n[k]
    BY <1>2
  <2>2. Len(m) # Len(n)
    BY <1>1, <2>1, SeqEqual
  <2>3. CASE Len(m) < Len(n)
    <3>1. Len(m) + 1 \in 1..Len(n)
      BY <1>1, <2>3
    <3>2. BeforeAt(m, n, Len(m) + 1)
      BY <1>1, <2>1, <2>3 DEF BeforeAt
    <3> QED
      BY <3>1, <3>2, NameBeforeIs
  <2>4. CASE Len(n) < Len(m)
    <3>1. Len(n) + 1 \in 1..Len(m)
      BY <1>1, <2>4
    <3>2. BeforeAt(n, m, Len(n) + 1)
      BY <1>1, <2>1, <2>4 DEF BeforeAt
    <3> QED
      BY <3>1, <3>2, NameBeforeIs
  <2> QED
    BY <1>1, <2>2, <2>3, <2>4
<1>3. CASE D # {}
  <2>1. PICK k \in D : \A j \in D : k <= j
    BY <1>1, <1>3, LeastNatural, D \in SUBSET Nat
  <2>2. k \in 1..Len(m) /\ k \in 1..Len(n) /\ m[k] # n[k]
    BY <1>1
  <2>3. \A j \in 1..(k - 1) : m[j] = n[j]
    <3> SUFFICES ASSUME NEW j \in 1..(k - 1), m[j] # n[j] PROVE FALSE
      OBVIOUS
    <3>1. j \in 1..Len(m) /\ j <= Len(n) /\ j < k
      BY <1>1, <2>2
    <3>2. j \in D
      BY <3>1
    <3> QED
      BY <2>1, <2>2, <3>1, <3>2
  <2>4. m[k] < n[k] \/ n[k] < m[k]
    BY <1>1, <2>2
  <2>5. m[k] < n[k] => BeforeAt(m, n, k)
    BY <1>1, <2>2, <2>3 DEF BeforeAt
  <2>6. n[k] < m[k] => BeforeAt(n, m, k)
    BY <1>1, <2>2, <2>3 DEF BeforeAt
  <2> QED
    BY <2>2, <2>4, <2>5, <2>6, NameBeforeIs
<1> QED
  BY <1>2, <1>3

(* The places are a numbering: none is taken twice, none left out.         *)
Until(names, i) == {j \in DOMAIN names : NameBefore(names[j], names[i]) \/ (names[j] = names[i] /\ j <= i)}

LEMMA PlaceNumbers ==
  ASSUME NEW names \in Seq(Seq(Nat))
  PROVE  /\ \A i \in 1..Len(names) : Place(names, i) \in 1..Len(names)
         /\ \A i, j \in 1..Len(names) : Place(names, i) = Place(names, j) => i = j
         /\ \A k \in 1..Len(names) : \E i \in 1..Len(names) : Place(names, i) = k
<1> DEFINE N == Len(names)
           U(i) == Until(names, i)
<1>1. N \in Nat /\ DOMAIN names = 1..N /\ \A i \in 1..N : names[i] \in Seq(Nat)
  OBVIOUS
<1> HIDE DEF N
<1>2. \A i \in 1..N : Place(names, i) = Cardinality(Until(names, i))
  BY DEF Place, Until
<1>3. \A i, j \in 1..N : j \in Until(names, i) <=> NameBefore(names[j], names[i]) \/ (names[j] = names[i] /\ j <= i)
  BY <1>1 DEF Until
<1>4. IsFiniteSet(1..N) /\ Cardinality(1..N) = N
  BY <1>1, FS_Interval
<1>5. \A i \in 1..N : Until(names, i) \in SUBSET (1..N) /\ IsFiniteSet(Until(names, i)) /\ Cardinality(Until(names, i)) \in Nat
  <2> TAKE i \in 1..N
  <2>1. Until(names, i) \in SUBSET (1..N)
    BY <1>1 DEF Until
  <2>2. IsFiniteSet(Until(names, i))
    BY <1>4, <2>1, FS_Subset
  <2> QED
    BY <2>1, <2>2, FS_CardinalityType
<1>6. \A i \in 1..N : i \in Until(names, i)
  BY <1>1, <1>3
<1>7. \A i, j \in 1..N : i = j \/ i \in Until(names, j) \/ j \in Until(names, i)
  <2> TAKE i, j \in 1..N
  <2>1. names[i] = names[j] \/ NameBefore(names[i], names[j]) \/ NameBefore(names[j], names[i])
    BY <1>1, BeforeTotal
  <2> QED
    BY <1>1, <1>3, <2>1
<1>8. \A i, j \in 1..N : i # j /\ i \in Until(names, j) => j \notin Until(names, i)
  <2> TAKE i, j \in 1..N
  <2> HAVE i # j /\ i \in Until(names, j)
  <2>1. ~ (NameBefore(names[i], names[j]) /\ NameBefore(names[j], names[i]))
    BY <1>1, BeforeTransitive, BeforeIrreflexive
  <2>2. names[i] = names[j] => ~ NameBefore(names[i], names[j]) /\ ~ NameBefore(names[j], names[i])
    BY <1>1, BeforeIrreflexive
  <2> QED
    BY <1>1, <1>3, <2>1, <2>2
<1>9. \A i, j \in 1..N : i \in Until(names, j) => Until(names, i) \subseteq Until(names, j)
  <2> SUFFICES ASSUME NEW i \in 1..N, NEW j \in 1..N, i \in Until(names, j), NEW l \in Until(names, i) PROVE l \in Until(names, j)
    OBVIOUS
  <2>1. l \in 1..N /\ names[l] \in Seq(Nat) /\ names[i] \in Seq(Nat) /\ names[j] \in Seq(Nat)
    BY <1>1, <1>5
  <2>2. NameBefore(names[l], names[i]) \/ (names[l] = names[i] /\ l <= i)
    BY <1>3, <2>1
  <2>3. NameBefore(names[i], names[j]) \/ (names[i] = names[j] /\ i <= j)
    BY <1>3
  <2>4. NameBefore(names[l], names[i]) /\ NameBefore(names[i], names[j]) => NameBefore(names[l], names[j])
    BY <2>1, BeforeTransitive
  <2>5. NameBefore(names[l], names[j]) \/ (names[l] = names[j] /\ l <= j)
    BY <1>1, <2>1, <2>2, <2>3, <2>4
  <2> QED
    BY <1>3, <2>1, <2>5
<1>10. \A i, j \in 1..N : i # j /\ i \in Until(names, j) => Cardinality(Until(names, i)) # Cardinality(Until(names, j))
  <2> TAKE i, j \in 1..N
  <2> HAVE i # j /\ i \in Until(names, j)
  <2>1. Until(names, i) \in SUBSET Until(names, j) /\ j \in Until(names, j) /\ j \notin Until(names, i)
    BY <1>6, <1>8, <1>9
  <2>2. IsFiniteSet(Until(names, j)) /\ Until(names, i) # Until(names, j)
    BY <1>5, <2>1
  <2> QED
    BY <2>1, <2>2, FS_Subset
<1>11. \A i, j \in 1..N : Place(names, i) = Place(names, j) => i = j
  BY <1>2, <1>7, <1>10
<1>12. \A i \in 1..N : Place(names, i) \in 1..N
  <2> TAKE i \in 1..N
  <2>1. Cardinality(Until(names, i)) <= N
    BY <1>4, <1>5, FS_Subset
  <2>2. Cardinality(Until(names, i)) # 0
    BY <1>5, <1>6, FS_EmptySet
  <2> QED
    BY <1>1, <1>2, <1>5, <2>1, <2>2
<1> DEFINE f == [i \in 1..N |-> Place(names, i)]
<1>13. f \in [1..N -> 1..N] /\ \A i \in 1..N : f[i] = Place(names, i)
  BY <1>12
<1> HIDE DEF f
<1>14. f \in Injection(1..N, 1..N)
  BY <1>11, <1>13 DEF Injection, IsInjective
<1>15. f \in Surjection(1..N, 1..N)
  BY <1>4, <1>14, FS_Injection
<1>16. \A k \in 1..N : \E i \in 1..N : f[i] = k
  BY <1>15 DEF Surjection
<1>17. \A k \in 1..N : \E i \in 1..N : Place(names, i) = k
  BY <1>13, <1>16
<1> QED
  BY <1>11, <1>12, <1>17 DEF N

LEMMA InOrderIs ==
  ASSUME NEW names \in Seq(Seq(Nat))
  PROVE  /\ InOrder(names) \in Seq(Seq(Nat)) /\ Len(InOrder(names)) = Len(names)
         /\ \A i \in 1..Len(names) : Place(names, i) \in 1..Len(names) /\ InOrder(names)[Place(names, i)] = names[i]
         /\ \A k \in 1..Len(names) : \E i \in 1..Len(names) : k = Place(names, i) /\ InOrder(names)[k] = names[i]
<1> DEFINE N == Len(names)
           At1(k) == CHOOSE i \in DOMAIN names : Place(names, i) = k
<1>1. N \in Nat /\ DOMAIN names = 1..N /\ \A i \in 1..N : names[i] \in Seq(Nat)
  OBVIOUS
<1> HIDE DEF N
<1>2. /\ \A i \in 1..N : Place(names, i) \in 1..N
      /\ \A i, j \in 1..N : Place(names, i) = Place(names, j) => i = j
      /\ \A k \in 1..N : \E i \in 1..N : Place(names, i) = k
  BY PlaceNumbers DEF N
<1>3. InOrder(names) = [k \in 1..N |-> names[At1(k)]]
  BY <1>1 DEF InOrder
<1>4. \A k \in 1..N : At1(k) \in 1..N /\ Place(names, At1(k)) = k
  <2> TAKE k \in 1..N
  <2>1. \E i \in DOMAIN names : Place(names, i) = k
    BY <1>1, <1>2
  <2>2. At1(k) \in DOMAIN names /\ Place(names, At1(k)) = k
    BY <2>1
  <2> QED
    BY <1>1, <2>2
<1>5. \A i \in 1..N : At1(Place(names, i)) = i
  BY <1>2, <1>4
<1> HIDE DEF At1
<1>6. InOrder(names) \in [1..N -> Seq(Nat)]
  BY <1>1, <1>3, <1>4
<1>7. InOrder(names) \in Seq(Seq(Nat)) /\ Len(InOrder(names)) = N
  BY <1>1, <1>6, FunctionAsSeq
<1>8. \A i \in 1..N : InOrder(names)[Place(names, i)] = names[i]
  BY <1>2, <1>3, <1>5
<1>9. \A k \in 1..N : k = Place(names, At1(k)) /\ InOrder(names)[k] = names[At1(k)]
  BY <1>3, <1>4
<1>10. \A k \in 1..N : \E i \in 1..N : k = Place(names, i) /\ InOrder(names)[k] = names[i]
  BY <1>4, <1>9
<1> QED
  BY <1>2, <1>7, <1>8, <1>10 DEF N

-----------------------------------------------------------------------------
(* The bits.                                                               *)

LEMMA InPairs ==
  ASSUME NEW p, NEW m \in Pairs(p)
  PROVE  m[1] \in DOMAIN p.actions /\ m[2] \in DOMAIN p.tables /\ m = <<m[1], m[2]>>
BY DEF Pairs

LEMMA ActionTablesAre ==
  ASSUME NEW p \in Programs
  PROVE  /\ DOMAIN ActionTables(p) = DOMAIN p.actions
         /\ \A a \in DOMAIN p.actions : \A t : t \in ActionTables(p)[a] <=> t \in DOMAIN p.tables /\ a \in Range(p.tables[t].actions)
         /\ \A a : IsPopular(ActionTables(p), a) <=>
              a \in DOMAIN p.actions /\ \E t, u \in DOMAIN p.tables :
                 t # u /\ a \in Range(p.tables[t].actions) /\ a \in Range(p.tables[u].actions)
<1>1. DOMAIN ActionTables(p) = DOMAIN p.actions
  BY DEF ActionTables
<1>2. ASSUME NEW a \in DOMAIN p.actions, NEW t
      PROVE  t \in ActionTables(p)[a] <=> t \in DOMAIN p.tables /\ a \in Range(p.tables[t].actions)
  BY DEF ActionTables
<1>3. ASSUME NEW a
      PROVE  IsPopular(ActionTables(p), a) <=>
               a \in DOMAIN p.actions /\ \E t, u \in DOMAIN p.tables :
                 t # u /\ a \in Range(p.tables[t].actions) /\ a \in Range(p.tables[u].actions)
  <2>1. IsPopular(ActionTables(p), a) <=> a \in DOMAIN p.actions /\ \E t, u \in ActionTables(p)[a] : t # u
    BY <1>1 DEF IsPopular
  <2> QED
    BY <1>2, <2>1
<1> QED
  BY <1>1, <1>2, <1>3

(* The name that becomes of an action in a table.                          *)
LEMMA BitIs ==
  ASSUME NEW p \in Programs, NEW a \in DOMAIN p.actions, NEW t \in DOMAIN p.tables
  PROVE  /\ BitOf(ActionTables(p), a, t) \in Seq(Nat)
         /\ Name(a) /\ Name(t)
         /\ IsPopular(ActionTables(p), a) => /\ BitOf(ActionTables(p), a, t) = Distinct(a, t)
                                             /\ ~ Name(BitOf(ActionTables(p), a, t))
         /\ ~ IsPopular(ActionTables(p), a) => BitOf(ActionTables(p), a, t) = a
<1>1. Name(a) /\ Name(t)
  BY ProgramIs
<1>2. a \in Seq(Nat) /\ t \in Seq(Nat)
  BY <1>1, NameIs
<1>3. Distinct(a, t) \in Seq(Nat)
  BY <1>2, DistinctIs DEF IsDistinct
<1>4. ~ Name(Distinct(a, t))
  BY <1>1, DistinctIsNoName
<1> QED
  BY <1>1, <1>2, <1>3, <1>4 DEF BitOf

LEMMA ActionOfTable ==
  ASSUME NEW p \in Programs, NEW t \in DOMAIN p.tables, NEW a \in Range(p.tables[t].actions)
  PROVE  a \in DOMAIN p.actions
<1>1. p.tables[t].actions \in Seq(DOMAIN p.actions)
  BY ProgramIs
<1> QED
  BY <1>1, InRange

LEMMA BitTellsApart ==
  ASSUME NEW p \in Programs,
         NEW t \in DOMAIN p.tables, NEW a \in Range(p.tables[t].actions),
         NEW u \in DOMAIN p.tables, NEW b \in Range(p.tables[u].actions),
         BitOf(ActionTables(p), a, t) = BitOf(ActionTables(p), b, u)
  PROVE  a = b /\ t = u
<1>1. a \in DOMAIN p.actions /\ b \in DOMAIN p.actions
  BY ActionOfTable
<1>2. Name(a) /\ Name(b) /\ Name(t) /\ Name(u)
  BY <1>1, BitIs
<1>3. CASE IsPopular(ActionTables(p), a) /\ IsPopular(ActionTables(p), b)
  <2>1. Distinct(a, t) = Distinct(b, u)
    BY <1>1, <1>3, BitIs
  <2> QED
    BY <1>2, <2>1, DistinctTellsApart
<1>4. CASE ~ IsPopular(ActionTables(p), a) /\ ~ IsPopular(ActionTables(p), b)
  <2>1. a = b
    BY <1>1, <1>4, BitIs
  <2>2. t = u
    BY <1>1, <1>4, <2>1, ActionTablesAre
  <2> QED
    BY <2>1, <2>2
<1>5. CASE ~ (IsPopular(ActionTables(p), a) <=> IsPopular(ActionTables(p), b))
  BY <1>1, <1>2, <1>5, BitIs
<1> QED
  BY <1>3, <1>4, <1>5

LEMMA BitsAre ==
  ASSUME NEW p \in Programs
  PROVE  /\ Bits(p) \in Seq(Seq(Nat)) /\ Len(Bits(p)) = Len(Mentions(p)) /\ Len(Mentions(p)) \in Nat
         /\ \A k \in 1..Len(Mentions(p)) : Bits(p)[k] = BitOf(ActionTables(p), Mentions(p)[k][1], Mentions(p)[k][2])
         /\ \A k, l \in 1..Len(Mentions(p)) : Bits(p)[k] = Bits(p)[l] => k = l
         /\ \A t \in DOMAIN p.tables : \A a \in Range(p.tables[t].actions) :
              \E k \in 1..Len(Mentions(p)) : Bits(p)[k] = BitOf(ActionTables(p), a, t)
<1> DEFINE ms == Mentions(p)
<1>1. /\ ms \in Seq(Pairs(p))
      /\ \A k \in 1..Len(ms) : ms[k] \in Pairs(p) /\ ms[k] = <<ms[k][1], ms[k][2]>> /\ ms[k][1] \in Range(p.tables[ms[k][2]].actions)
      /\ \A k, l \in 1..Len(ms) : ms[k] = ms[l] => k = l
      /\ \A t \in DOMAIN p.tables : \A a \in Range(p.tables[t].actions) :
              \E k \in 1..Len(ms) : ms[k] = <<a, t>>
  BY MentionsAre
<1>2. Bits(p) = [i \in DOMAIN ms |-> BitOf(ActionTables(p), ms[i][1], ms[i][2])]
  BY DEF Bits, BitsOf
<1> HIDE DEF ms
<1>3. DOMAIN ms = 1..Len(ms) /\ Len(ms) \in Nat
  BY <1>1
<1>4. \A k \in 1..Len(ms) : ms[k][1] \in DOMAIN p.actions /\ ms[k][2] \in DOMAIN p.tables
  BY <1>1, InPairs
<1>5. \A k \in 1..Len(ms) : BitOf(ActionTables(p), ms[k][1], ms[k][2]) \in Seq(Nat)
  BY <1>4, BitIs
<1>6. \A k \in 1..Len(ms) : Bits(p)[k] = BitOf(ActionTables(p), ms[k][1], ms[k][2])
  BY <1>2, <1>3
<1>7. Bits(p) \in [1..Len(ms) -> Seq(Nat)]
  BY <1>2, <1>3, <1>5
<1>8. Bits(p) \in Seq(Seq(Nat)) /\ Len(Bits(p)) = Len(ms)
  BY <1>3, <1>7, FunctionAsSeq
<1>9. \A k, l \in 1..Len(ms) : Bits(p)[k] = Bits(p)[l] => k = l
  <2> SUFFICES ASSUME NEW k \in 1..Len(ms), NEW l \in 1..Len(ms), Bits(p)[k] = Bits(p)[l] PROVE k = l
    OBVIOUS
  <2>1. BitOf(ActionTables(p), ms[k][1], ms[k][2]) = BitOf(ActionTables(p), ms[l][1], ms[l][2])
    BY <1>6
  <2>2. ms[k][1] = ms[l][1] /\ ms[k][2] = ms[l][2]
    BY <1>1, <1>4, <2>1, BitTellsApart
  <2>3. ms[k] = ms[l]
    BY <1>1, <2>2
  <2> QED
    BY <1>1, <2>3
<1>10. \A t \in DOMAIN p.tables : \A a \in Range(p.tables[t].actions) :
              \E k \in 1..Len(ms) : Bits(p)[k] = BitOf(ActionTables(p), a, t)
  <2> SUFFICES ASSUME NEW t \in DOMAIN p.tables, NEW a \in Range(p.tables[t].actions)
               PROVE  \E k \in 1..Len(ms) : Bits(p)[k] = BitOf(ActionTables(p), a, t)
    OBVIOUS
  <2>1. PICK k \in 1..Len(ms) : ms[k] = <<a, t>>
    BY <1>1
  <2>2. ms[k][1] = a /\ ms[k][2] = t
    BY <2>1
  <2> QED
    BY <1>6, <2>2
<1> QED
  BY <1>3, <1>6, <1>8, <1>9, <1>10 DEF ms
-----------------------------------------------------------------------------
(* The layout.                                                             *)

Field == Seq(Nat) \X Nat
Ones(names) == [i \in DOMAIN names |-> <<names[i], 1>>]
AssertOnes(n) == [i \in 1..n |-> <<AssertBit(i - 1), 1>>]
Padding(left) == IF left > 0 THEN <<<<Pad, 8 - left>>>> ELSE <<>>

IsLayout(h, names, asserts) ==
  LET left == (Len(names) + asserts + 50) % 8
  IN  /\ h \in Seq(Field) /\ left \in 0..7
      /\ Len(h) = 2 + Len(names) + asserts + (IF left > 0 THEN 1 ELSE 0)
      /\ h[1] = <<Preamble, 48>> /\ h[2] = <<PktType, 2>>
      /\ \A i \in 1..Len(names) : h[2 + i] = <<names[i], 1>>
      /\ \A i \in 1..asserts : h[2 + Len(names) + i] = <<AssertBit(i - 1), 1>>
      /\ left > 0 => h[3 + Len(names) + asserts] = <<Pad, 8 - left>>

LEMMA LayoutIs ==
  ASSUME NEW names \in Seq(Seq(Nat)), NEW asserts \in Nat
  PROVE  IsLayout(Layout(names, Len(names), asserts), names, asserts)
<1> DEFINE left == (Len(names) + asserts + 50) % 8
           A == <<<<Preamble, 48>>, <<PktType, 2>>>>
           B == Ones(names)
           C == AssertOnes(asserts)
           D == Padding(left)
           N == Len(names)
<1>1. N \in Nat /\ DOMAIN names = 1..N /\ \A i \in 1..N : names[i] \in Seq(Nat)
  OBVIOUS
<1>2. left \in 0..7
  BY <1>1
<1>3. Layout(names, Len(names), asserts) = ((A \o B) \o C) \o D
  BY DEF Layout, Ones, AssertOnes, Padding
<1>4. A \in Seq(Field) /\ Len(A) = 2 /\ A[1] = <<Preamble, 48>> /\ A[2] = <<PktType, 2>>
  <2>1. Preamble \in Seq(Nat) /\ PktType \in Seq(Nat)
    BY DEF Preamble, PktType
  <2>2. <<Preamble, 48>> \in Field /\ <<PktType, 2>> \in Field
    BY <2>1 DEF Field
  <2> QED
    BY <2>2
<1>5. B \in Seq(Field) /\ Len(B) = N /\ \A i \in 1..N : B[i] = <<names[i], 1>>
  <2>1. B \in [1..N -> Field]
    BY <1>1 DEF Ones, Field
  <2>2. B \in Seq(Field) /\ Len(B) = N
    BY <1>1, <2>1, FunctionAsSeq
  <2> QED
    BY <1>1, <2>2 DEF Ones
<1>6. C \in Seq(Field) /\ Len(C) = asserts /\ \A i \in 1..asserts : C[i] = <<AssertBit(i - 1), 1>>
  <2>1. \A i \in 1..asserts : AssertBit(i - 1) \in Seq(Nat)
    BY DEF AssertBit
  <2>2. C \in [1..asserts -> Field]
    BY <2>1 DEF AssertOnes, Field
  <2>3. C \in Seq(Field) /\ Len(C) = asserts
    BY <2>2, FunctionAsSeq
  <2> QED
    BY <2>3 DEF AssertOnes
<1>7. /\ D \in Seq(Field) /\ Len(D) = IF left > 0 THEN 1 ELSE 0
      /\ left > 0 => D[1] = <<Pad, 8 - left>>
  <2> HIDE DEF left
  <2>1. CASE left > 0
    <3>1. D = <<<<Pad, 8 - left>>>>
      BY <2>1 DEF Padding
    <3>2. Pad \in Seq(Nat) /\ 8 - left \in Nat
      BY <1>2 DEF Pad
    <3>3. <<Pad, 8 - left>> \in Field
      BY <3>2 DEF Field
    <3> HIDE DEF D
    <3> QED
      BY <2>1, <3>1, <3>3
  <2>2. CASE ~ (left > 0)
    <3>1. D = <<>>
      BY <2>2 DEF Padding
    <3> HIDE DEF D
    <3> QED
      BY <2>2, <3>1
  <2> QED
    BY <2>1, <2>2
<1> HIDE DEF A, B, C, D
<1>8. IsConcat(A \o B, A, B, Field)
  BY <1>4, <1>5, ConcatIs
<1> DEFINE AB == A \o B
<1>9. AB \in Seq(Field) /\ Len(AB) = 2 + N /\ AB[1] = A[1] /\ AB[2] = A[2] /\ \A i \in 1..N : AB[2 + i] = B[i]
  BY <1>1, <1>4, <1>5, <1>8 DEF IsConcat
<1> HIDE DEF AB
<1>10. IsConcat(AB \o C, AB, C, Field)
  BY <1>6, <1>9, ConcatIs
<1> DEFINE ABC == AB \o C
<1>11. /\ ABC \in Seq(Field) /\ Len(ABC) = 2 + N + asserts /\ \A i \in 1..(2 + N) : ABC[i] = AB[i]
       /\ \A i \in 1..asserts : ABC[2 + N + i] = C[i]
  BY <1>1, <1>6, <1>9, <1>10 DEF IsConcat
<1> HIDE DEF ABC
<1>12. IsConcat(ABC \o D, ABC, D, Field)
  BY <1>7, <1>11, ConcatIs
<1> DEFINE h == ABC \o D
<1>13. /\ h \in Seq(Field) /\ Len(h) = 2 + N + asserts + Len(D)
       /\ \A i \in 1..(2 + N + asserts) : h[i] = ABC[i]
       /\ \A i \in 1..Len(D) : h[2 + N + asserts + i] = D[i]
  BY <1>1, <1>7, <1>11, <1>12 DEF IsConcat
<1>14. Layout(names, Len(names), asserts) = h
  BY <1>3 DEF AB, ABC
<1> HIDE DEF h, left, N
<1>15. h[1] = <<Preamble, 48>> /\ h[2] = <<PktType, 2>>
  <2>1. 1 \in 1..(2 + N) /\ 2 \in 1..(2 + N) /\ 1 \in 1..(2 + N + asserts) /\ 2 \in 1..(2 + N + asserts)
    BY <1>1
  <2> QED
    BY <1>4, <1>9, <1>11, <1>13, <2>1
<1>16. \A i \in 1..N : h[2 + i] = <<names[i], 1>>
  <2> TAKE i \in 1..N
  <2>1. 2 + i \in 1..(2 + N) /\ 2 + i \in 1..(2 + N + asserts)
    BY <1>1
  <2> QED
    BY <1>5, <1>9, <1>11, <1>13, <2>1
<1>17. \A i \in 1..asserts : h[2 + N + i] = <<AssertBit(i - 1), 1>>
  <2> TAKE i \in 1..asserts
  <2>1. 2 + N + i \in 1..(2 + N + asserts)
    BY <1>1
  <2> QED
    BY <1>6, <1>11, <1>13, <2>1
<1>18. left > 0 => h[3 + N + asserts] = <<Pad, 8 - left>>
  <2> HAVE left > 0
  <2>1. Len(D) = 1 /\ D[1] = <<Pad, 8 - left>>
    BY <1>7
  <2>2. h[2 + N + asserts + 1] = D[1]
    BY <1>13, <2>1
  <2>3. 2 + N + asserts + 1 = 3 + N + asserts
    BY <1>1
  <2> QED
    BY <2>1, <2>2, <2>3
<1>19. IsLayout(h, names, asserts)
  BY <1>2, <1>7, <1>13, <1>15, <1>16, <1>17, <1>18 DEF IsLayout, N, left
<1> QED
  BY <1>14, <1>19

-----------------------------------------------------------------------------
(* The header ends on a byte.                                              *)

LEMMA WidthIs ==
  ASSUME NEW fields \in Seq(Field)
  PROVE  \E u \in [0..Len(fields) -> Nat] :
           u[0] = 0 /\ (\A i \in 1..Len(fields) : u[i] = u[i - 1] + fields[i][2]) /\ Width(fields) = u[Len(fields)]
<1> DEFINE N == Len(fields)
           Step == [i \in 1..N |-> [l \in Nat |-> l + fields[i][2]]]
           Is(u) == u = [i \in 0..N |-> IF i = 0 THEN 0 ELSE u[i - 1] + fields[i][2]]
<1>1. N \in Nat /\ \A i \in 1..N : fields[i][2] \in Nat
  <2>1. \A i \in 1..N : fields[i] \in Field
    OBVIOUS
  <2> QED
    BY <2>1 DEF Field
<1> HIDE DEF N
<1>2. IsStep(Step, N, Nat)
  BY <1>1 DEF IsStep
<1>3. PICK f : IsRecursive(f, N, Nat, 0, Step)
  <2> HIDE DEF Step
  <2> QED
    BY <1>1, <1>2, RecursionUpTo
<1>4. f \in [0..N -> Nat] /\ f[0] = 0 /\ \A i \in 1..N : f[i] = Step[i][f[i - 1]]
  <2> HIDE DEF Step
  <2> QED
    BY <1>3 DEF IsRecursive
<1>5. \A i \in 1..N : i - 1 \in 0..N /\ f[i] = f[i - 1] + fields[i][2]
  <2> TAKE i \in 1..N
  <2>1. i - 1 \in 0..N
    BY <1>1
  <2>2. f[i - 1] \in Nat
    BY <1>4, <2>1
  <2>3. Step[i][f[i - 1]] = f[i - 1] + fields[i][2]
    BY <2>2
  <2> HIDE DEF Step
  <2> QED
    BY <1>4, <2>1, <2>3
<1> HIDE DEF Step
<1>6. Is(f)
  <2>1. f = [i \in 0..N |-> f[i]]
    BY <1>4
  <2>2. \A i \in 0..N : f[i] = IF i = 0 THEN 0 ELSE f[i - 1] + fields[i][2]
    BY <1>1, <1>4, <1>5
  <2> QED
    BY <2>1, <2>2
<1> DEFINE U == CHOOSE u : Is(u)
<1>7. Width(fields) = U[N]
  BY DEF Width, N
<1>8. Is(U)
  <2> HIDE DEF Is
  <2> QED
    BY <1>6
<1> HIDE DEF U
<1>9. U[0] = 0 /\ \A i \in 1..N : U[i] = U[i - 1] + fields[i][2]
  BY <1>1, <1>8
<1> HIDE DEF Is
<1> DEFINE T == {i \in 0..N : U[i] = f[i]}
<1>10. 0 \in T /\ \A i \in 1..N : i - 1 \in T => i \in T
  BY <1>1, <1>4, <1>5, <1>9
<1> HIDE DEF T
<1>11. N \in T
  <2>1. 0..N \subseteq T
    BY <1>1, <1>10, InductionUpTo
  <2> QED
    BY <1>1, <2>1
<1>12. Width(fields) = f[N]
  BY <1>7, <1>11 DEF T
<1> QED
  BY <1>4, <1>5, <1>12 DEF N

LEMMA LayoutOnBytes ==
  ASSUME NEW names \in Seq(Seq(Nat)), NEW asserts \in Nat, NEW h, IsLayout(h, names, asserts)
  PROVE  Width(h) % 8 = 0
<1> DEFINE n == Len(names)
           left == (n + asserts + 50) % 8
<1>1. /\ h \in Seq(Field) /\ left \in 0..7
      /\ Len(h) = 2 + n + asserts + (IF left > 0 THEN 1 ELSE 0)
      /\ h[1] = <<Preamble, 48>> /\ h[2] = <<PktType, 2>>
      /\ \A i \in 1..n : h[2 + i] = <<names[i], 1>>
      /\ \A i \in 1..asserts : h[2 + n + i] = <<AssertBit(i - 1), 1>>
      /\ left > 0 => h[3 + n + asserts] = <<Pad, 8 - left>>
  BY DEF IsLayout
<1>2. PICK u \in [0..Len(h) -> Nat] :
        u[0] = 0 /\ (\A i \in 1..Len(h) : u[i] = u[i - 1] + h[i][2]) /\ Width(h) = u[Len(h)]
  BY <1>1, WidthIs
<1>3. n \in Nat
  OBVIOUS
<1> DEFINE x == n + asserts + 50
<1>4. x \in Nat /\ left = x % 8
  BY <1>3
<1> HIDE DEF n, left
<1>5. u[2] = 50
  <2>1. 1 \in 1..Len(h) /\ 2 \in 1..Len(h)
    BY <1>1, <1>3
  <2>2. h[1][2] = 48 /\ h[2][2] = 2
    BY <1>1
  <2>3. u[1] = u[0] + 48 /\ u[2] = u[1] + 2
    BY <1>2, <2>1, <2>2, 1 - 1 = 0, 2 - 1 = 1
  <2> QED
    BY <1>2, <2>3
<1> DEFINE T == {i \in 0..(n + asserts) : u[2 + i] = 50 + i}
<1>6. 0 \in T
  BY <1>3, <1>5
<1>7. ASSUME NEW i \in 1..(n + asserts), i - 1 \in T PROVE i \in T
  <2>1. u[2 + (i - 1)] = 50 + (i - 1)
    <3>1. PICK k \in T : k = i - 1
      BY <1>7
    <3> QED
      BY <3>1
  <2>2. 2 + i \in 1..Len(h) /\ (2 + i) - 1 = 2 + (i - 1)
    BY <1>1, <1>3
  <2>3. h[2 + i][2] = 1
    <3>1. CASE i <= n
      <4>0. i \in 1..n
        BY <1>3, <3>1
      <4>1. h[2 + i] = <<names[i], 1>>
        BY <1>1, <4>0
      <4> QED
        BY <4>1
    <3>2. CASE ~ (i <= n)
      <4>1. i - n \in 1..asserts /\ 2 + n + (i - n) = 2 + i
        BY <1>3, <3>2
      <4>2. h[2 + n + (i - n)] = <<AssertBit((i - n) - 1), 1>>
        BY <1>1, <4>1
      <4>3. h[2 + i] = <<AssertBit((i - n) - 1), 1>>
        BY <4>1, <4>2
      <4> QED
        BY <4>3
    <3> QED
      BY <3>1, <3>2
  <2>4. u[2 + i] = u[2 + (i - 1)] + 1
    BY <1>2, <2>2, <2>3
  <2>5. u[2 + i] = 50 + i /\ i \in 0..(n + asserts)
    BY <1>3, <2>1, <2>4
  <2> QED
    BY <2>5
<1> HIDE DEF T
<1>8. n + asserts \in T
  <2>1. 0..(n + asserts) \subseteq T
    <3>1. n + asserts \in Nat
      BY <1>3
    <3> QED
      BY <1>6, <1>7, <3>1, InductionUpTo
  <2> QED
    BY <1>3, <2>1
<1>9. u[2 + (n + asserts)] = x
  BY <1>3, <1>8 DEF T
<1>10. CASE left = 0
  <2>1. Len(h) = 2 + (n + asserts)
    BY <1>1, <1>3, <1>10
  <2> QED
    BY <1>2, <1>4, <1>9, <1>10, <2>1
<1>11. CASE left > 0
  <2>1. Len(h) = 3 + n + asserts /\ Len(h) \in 1..Len(h) /\ Len(h) - 1 = 2 + (n + asserts)
    BY <1>1, <1>3, <1>11
  <2>2. h[Len(h)] = <<Pad, 8 - left>>
    BY <1>1, <1>11, <2>1
  <2>3. h[Len(h)][2] = 8 - left
    BY <2>2
  <2>4. Width(h) = x + (8 - left)
    BY <1>2, <1>9, <2>1, <2>3
  <2> HIDE DEF x
  <2>5. (x + (8 - left)) % 8 = 0
    BY <1>4
  <2> QED
    BY <2>4, <2>5
<1> QED
  BY <1>1, <1>10, <1>11

LEMMA HeaderIs ==
  ASSUME NEW p \in Programs
  PROVE  /\ IsLayout(HeaderOf(p), InOrder(Bits(p)), Len(p.asserts))
         /\ Width(HeaderOf(p)) % 8 = 0
         /\ InOrder(Bits(p)) \in Seq(Seq(Nat)) /\ Len(InOrder(Bits(p))) = Len(Mentions(p))
         /\ Len(p.asserts) \in Nat
<1>1. Bits(p) \in Seq(Seq(Nat)) /\ Len(Bits(p)) = Len(Mentions(p))
  BY BitsAre
<1>2. InOrder(Bits(p)) \in Seq(Seq(Nat)) /\ Len(InOrder(Bits(p))) = Len(Mentions(p))
  BY <1>1, InOrderIs
<1>3. Len(p.asserts) \in Nat
  BY ProgramIs, SeqIs
<1>4. IsLayout(HeaderOf(p), InOrder(Bits(p)), Len(p.asserts))
  BY <1>2, <1>3, LayoutIs DEF HeaderOf
<1> QED
  BY <1>2, <1>3, <1>4, LayoutOnBytes

LEMMA LayoutsAgreeHolds == PassesMade => LayoutsAgree
<1> SUFFICES ASSUME PassesMade, Done PROVE header = tester /\ Width(header) % 8 = 0
  BY DEF LayoutsAgree
<1>1. prog \in Programs /\ header = HeaderOf(prog) /\ tester = HeaderOf(prog)
  BY DoneMade
<1> QED
  BY <1>1, HeaderIs

(* The tester parses the header the program under test sends.              *)
THEOREM LayoutsAgreeAlways == Spec => []LayoutsAgree
BY InstrumentedAs, LayoutsAgreeHolds, PTL
-----------------------------------------------------------------------------
(* The popular actions: those of several tables, each listed once.         *)

LEMMA SharedIs ==
  ASSUME NEW p \in Programs
  PROVE  /\ Shared(p) \in Seq(Pairs(p))
         /\ Range(Shared(p)) = {m \in Pairs(p) : m[1] \in Range(p.tables[m[2]].actions) /\ IsPopular(ActionTables(p), m[1])}
<1> DEFINE ms == Mentions(p)
           S == {i \in DOMAIN ms : IsPopular(ActionTables(p), ms[i][1])}
           sh == Shared(p)
<1>1. /\ ms \in Seq(Pairs(p))
      /\ \A k \in 1..Len(ms) : ms[k] \in Pairs(p) /\ ms[k] = <<ms[k][1], ms[k][2]>> /\ ms[k][1] \in Range(p.tables[ms[k][2]].actions)
      /\ \A t \in DOMAIN p.tables : \A a \in Range(p.tables[t].actions) : \E k \in 1..Len(ms) : ms[k] = <<a, t>>
  BY MentionsAre
<1>2. sh = Picked(ms, S)
  BY DEF Shared
<1> HIDE DEF ms, sh
<1>3. S \in SUBSET (1..Len(ms)) /\ \A i \in 1..Len(ms) : i \in S <=> IsPopular(ActionTables(p), ms[i][1])
  BY <1>1
<1> HIDE DEF S
<1>4. sh \in Seq(Pairs(p))
  BY <1>1, <1>2, <1>3, PickedPlaces
<1>5. PICK at : IsPicking(at, sh, ms, S)
  BY <1>1, <1>2, <1>3, PickedPlaces
<1>6. /\ \A k \in 1..Len(sh) : at[k] \in S /\ sh[k] = ms[at[k]]
      /\ \A i \in S : \E k \in 1..Len(sh) : at[k] = i
  BY <1>5 DEF IsPicking
<1>7. \A m \in Range(sh) : m \in Pairs(p) /\ m[1] \in Range(p.tables[m[2]].actions) /\ IsPopular(ActionTables(p), m[1])
  <2> SUFFICES ASSUME NEW m \in Range(sh)
               PROVE  m \in Pairs(p) /\ m[1] \in Range(p.tables[m[2]].actions) /\ IsPopular(ActionTables(p), m[1])
    OBVIOUS
  <2>1. PICK k \in 1..Len(sh) : sh[k] = m
    BY <1>4, InRange
  <2>2. at[k] \in 1..Len(ms) /\ at[k] \in S /\ m = ms[at[k]]
    BY <1>3, <1>6, <2>1
  <2> QED
    BY <1>1, <1>3, <2>2
<1>8. ASSUME NEW m \in Pairs(p), m[1] \in Range(p.tables[m[2]].actions), IsPopular(ActionTables(p), m[1])
      PROVE  m \in Range(sh)
  <2>1. m[2] \in DOMAIN p.tables /\ m = <<m[1], m[2]>>
    BY InPairs
  <2>2. PICK k \in 1..Len(ms) : ms[k] = m
    BY <1>1, <1>8, <2>1
  <2>3. k \in S
    BY <1>3, <1>8, <2>2
  <2>4. PICK l \in 1..Len(sh) : at[l] = k
    BY <1>6, <2>3
  <2>5. sh[l] = m
    BY <1>6, <2>2, <2>4
  <2> QED
    BY <1>4, <2>5, SeqIs
<1> QED
  BY <1>4, <1>7, <1>8 DEF sh

LEMMA PopularAre ==
  ASSUME NEW p \in Programs
  PROVE  /\ PopularActions(p) \in Seq(DOMAIN p.actions) /\ IsInjective(PopularActions(p))
         /\ \A a : a \in Range(PopularActions(p)) <=> IsPopular(ActionTables(p), a)
<1> DEFINE sh == Shared(p)
           F == {i \in DOMAIN sh : \A j \in 1..(i - 1) : sh[j][1] # sh[i][1]}
           once == Picked(sh, F)
           names == PopularActions(p)
<1>1. /\ sh \in Seq(Pairs(p))
      /\ Range(sh) = {m \in Pairs(p) : m[1] \in Range(p.tables[m[2]].actions) /\ IsPopular(ActionTables(p), m[1])}
  BY SharedIs
<1>2. names = [i \in DOMAIN once |-> once[i][1]]
  BY DEF PopularActions
<1> HIDE DEF sh, names
<1>3. /\ F \in SUBSET (1..Len(sh)) /\ Len(sh) \in Nat
      /\ \A i \in 1..Len(sh) : i \in F <=> \A j \in 1..(i - 1) : sh[j][1] # sh[i][1]
  BY <1>1
<1> HIDE DEF F
<1>4. once \in Seq(Pairs(p))
  BY <1>1, <1>3, PickedPlaces
<1>5. PICK at : IsPicking(at, once, sh, F)
  BY <1>1, <1>3, PickedPlaces
<1> HIDE DEF once
<1>6. /\ \A k \in 1..Len(once) : at[k] \in F /\ once[k] = sh[at[k]]
      /\ \A k, l \in 1..Len(once) : at[k] = at[l] => k = l
      /\ \A i \in F : \E k \in 1..Len(once) : at[k] = i
  BY <1>5 DEF IsPicking
<1>7. DOMAIN once = 1..Len(once) /\ Len(once) \in Nat /\ \A k \in 1..Len(once) : once[k] \in Pairs(p)
  BY <1>4
<1>8. names \in [1..Len(once) -> DOMAIN p.actions] /\ \A k \in 1..Len(once) : names[k] = once[k][1]
  <2>1. \A k \in 1..Len(once) : once[k][1] \in DOMAIN p.actions
    BY <1>7, InPairs
  <2> QED
    BY <1>2, <1>7, <2>1
<1>9. names \in Seq(DOMAIN p.actions) /\ Len(names) = Len(once)
  BY <1>7, <1>8, FunctionAsSeq
<1>10. ASSUME NEW k \in 1..Len(once), NEW l \in 1..Len(once), names[k] = names[l] PROVE k = l
  <2>1. at[k] \in F /\ at[l] \in F /\ at[k] \in 1..Len(sh) /\ at[l] \in 1..Len(sh)
    BY <1>3, <1>6
  <2>2. sh[at[k]][1] = sh[at[l]][1]
    BY <1>6, <1>8, <1>10
  <2>3. ~ (at[k] < at[l])
    <3> SUFFICES ASSUME at[k] < at[l] PROVE FALSE
      OBVIOUS
    <3>1. at[k] \in 1..(at[l] - 1)
      BY <2>1
    <3> QED
      BY <1>3, <2>1, <2>2, <3>1
  <2>4. ~ (at[l] < at[k])
    <3> SUFFICES ASSUME at[l] < at[k] PROVE FALSE
      OBVIOUS
    <3>1. at[l] \in 1..(at[k] - 1)
      BY <2>1
    <3> QED
      BY <1>3, <2>1, <2>2, <3>1
  <2>5. at[k] = at[l]
    BY <2>1, <2>3, <2>4
  <2> QED
    BY <1>6, <2>5
<1>11. IsInjective(names)
  BY <1>9, <1>10, SeqIs
<1>12. ASSUME NEW a \in Range(names) PROVE IsPopular(ActionTables(p), a)
  <2>1. PICK k \in 1..Len(names) : names[k] = a
    BY <1>9, InRange
  <2>2. a = sh[at[k]][1] /\ at[k] \in 1..Len(sh)
    BY <1>3, <1>6, <1>8, <1>9, <2>1
  <2>3. sh[at[k]] \in Range(sh)
    BY <1>1, <2>2, SeqIs
  <2> QED
    BY <1>1, <2>2, <2>3
<1>13. ASSUME NEW a, IsPopular(ActionTables(p), a) PROVE a \in Range(names)
  <2>1. a \in DOMAIN p.actions /\ \E t \in DOMAIN p.tables : a \in Range(p.tables[t].actions)
    BY <1>13, ActionTablesAre
  <2>2. PICK t \in DOMAIN p.tables : a \in Range(p.tables[t].actions)
    BY <2>1
  <2>3. <<a, t>> \in Pairs(p)
    BY <2>1, <2>2 DEF Pairs
  <2>4. <<a, t>> \in Range(sh)
    <3> DEFINE m == <<a, t>>
    <3>1. m[1] = a /\ m[2] = t
      OBVIOUS
    <3> HIDE DEF m
    <3>2. m \in Pairs(p) /\ m[1] \in Range(p.tables[m[2]].actions) /\ IsPopular(ActionTables(p), m[1])
      BY <1>13, <2>2, <2>3, <3>1 DEF m
    <3>3. m \in Range(sh)
      BY <1>1, <3>2
    <3> QED
      BY <3>3 DEF m
  <2>5. PICK i \in 1..Len(sh) : sh[i] = <<a, t>>
    BY <1>1, <2>4, InRange
  <2> DEFINE Q == {j \in 1..Len(sh) : sh[j][1] = a}
  <2>6. PICK j \in Q : \A k \in Q : j <= k
    <3>1. i \in Q
      BY <2>5
    <3>2. Q \in SUBSET Nat /\ Q # {}
      BY <3>1
    <3> HIDE DEF Q
    <3> QED
      BY <3>2, LeastNatural
  <2>7. j \in F
    <3>1. \A k \in 1..(j - 1) : k \in 1..Len(sh) /\ ~ (j <= k)
      BY <1>3
    <3> QED
      BY <1>3, <2>6, <3>1
  <2>8. PICK k \in 1..Len(once) : at[k] = j
    BY <1>6, <2>7
  <2>9. names[k] = a /\ k \in 1..Len(names)
    BY <1>6, <1>8, <1>9, <2>8
  <2> QED
    BY <1>9, <2>9, SeqIs
<1> QED
  BY <1>9, <1>11, <1>12, <1>13 DEF names

-----------------------------------------------------------------------------
(* The copied rules.                                                       *)

IsRenaming(u, r, names, N, target) ==
  /\ u[0] = r /\ \A i \in 1..N : u[i] = Renamed(u[i - 1], names[i], target)
  /\ RenamedRule(r, names, target) = u[N]

LEMMA RenamedRuleIs ==
  ASSUME NEW r, NEW names, NEW N \in Nat, Len(names) = N, NEW target
  PROVE  \E u : IsRenaming(u, r, names, N, target)
<1> DEFINE Is(u) == u = [i \in 0..N |-> IF i = 0 THEN r ELSE Renamed(u[i - 1], names[i], target)]
           Upto(n, u) == /\ DOMAIN u = 0..n /\ u[0] = r
                         /\ \A i \in 1..n : u[i] = Renamed(u[i - 1], names[i], target)
           T == {n \in 0..N : \E u : Upto(n, u)}
<1>1. 0 \in T
  <2> DEFINE g == [i \in 0..0 |-> r]
  <2>1. DOMAIN g = 0..0 /\ g[0] = r
    OBVIOUS
  <2> HIDE DEF g
  <2>2. Upto(0, g)
    BY <2>1
  <2> HIDE DEF Upto
  <2> QED
    BY <2>2
<1>2. ASSUME NEW n \in 1..N, n - 1 \in T PROVE n \in T
  <2>1. PICK f : Upto(n - 1, f)
    <3> HIDE DEF Upto
    <3> QED
      BY <1>2
  <2> DEFINE y == Renamed(f[n - 1], names[n], target)
             g == [i \in 0..n |-> IF i = n THEN y ELSE f[i]]
  <2>2. DOMAIN g = 0..n /\ g[n] = y /\ \A i \in 0..(n - 1) : g[i] = f[i]
    OBVIOUS
  <2> HIDE DEF g
  <2>3. g[0] = r
    BY <2>1, <2>2
  <2>4. \A i \in 1..(n - 1) : g[i] = Renamed(g[i - 1], names[i], target)
    <3> TAKE i \in 1..(n - 1)
    <3>1. i \in 0..(n - 1) /\ i - 1 \in 0..(n - 1)
      OBVIOUS
    <3> QED
      BY <2>1, <2>2, <3>1
  <2>5. g[n] = Renamed(g[n - 1], names[n], target)
    BY <2>2
  <2>6. \A i \in 1..n : i = n \/ i \in 1..(n - 1)
    OBVIOUS
  <2>7. \A i \in 1..n : g[i] = Renamed(g[i - 1], names[i], target)
    BY <2>4, <2>5, <2>6
  <2>8. Upto(n, g)
    BY <2>2, <2>3, <2>7
  <2> HIDE DEF Upto
  <2> QED
    BY <2>8
<1>3. \E f : Upto(N, f)
  <2> HIDE DEF T
  <2>1. 0..N \subseteq T
    BY <1>1, <1>2, InductionUpTo
  <2>2. N \in T
    BY <2>1
  <2> QED
    BY <2>2 DEF T
<1>4. PICK f : Upto(N, f)
  <2> HIDE DEF Upto
  <2> QED
    BY <1>3
<1> DEFINE g == [i \in 0..N |-> f[i]]
<1>5. Is(g)
  <2>1. \A i \in 0..N : g[i] = f[i]
    OBVIOUS
  <2>2. g = [i \in 0..N |-> g[i]]
    OBVIOUS
  <2> HIDE DEF g
  <2>3. ASSUME NEW i \in 0..N PROVE g[i] = IF i = 0 THEN r ELSE Renamed(g[i - 1], names[i], target)
    <3>1. CASE i = 0
      BY <1>4, <2>1, <3>1
    <3>2. CASE i # 0
      <4>1. i \in 1..N /\ i - 1 \in 0..N
        BY <3>2
      <4>2. f[i] = Renamed(f[i - 1], names[i], target)
        BY <1>4, <4>1
      <4> QED
        BY <2>1, <3>2, <4>1, <4>2
    <3> QED
      BY <3>1, <3>2
  <2> QED
    BY <2>2, <2>3
<1> HIDE DEF g
<1> DEFINE U == CHOOSE u : Is(u)
<1>6. RenamedRule(r, names, target) = U[N]
  BY DEF RenamedRule
<1>7. Is(U)
  <2> HIDE DEF Is
  <2> QED
    BY <1>5
<1> HIDE DEF U
<1>8. U[0] = r
  BY <1>7
<1>9. \A i \in 1..N : U[i] = Renamed(U[i - 1], names[i], target)
  BY <1>7
<1>10. IsRenaming(U, r, names, N, target)
  BY <1>6, <1>8, <1>9 DEF IsRenaming
<1> QED
  BY <1>10

(* A rule that instrumentRules is to find its way in.                      *)
PlainRule(p, r) ==
  LET names == PopularActions(p)
      becomes == BitOf(ActionTables(p), r.action, r.table)
  IN  /\ r.cmd = "default" => r.args = <<>>
      /\ \A b \in Range(names) : IsPrefix(b, becomes) => b = r.action
      /\ p.target = "sim" => Plain(r.table) /\ \A a \in Range(names) : Cuts(r, a) = {}

LEMMA PrefixOfDistinct ==
  ASSUME NEW a \in Seq(Nat), NEW t \in Seq(Nat)
  PROVE  /\ IsPrefix(a, a) /\ Rest(a, a) = <<>>
         /\ \A b \in Seq(Nat) : IsPrefix(b, a) => IsPrefix(b, Distinct(a, t))
<1>1. Len(a) \in Nat /\ Len(t) \in Nat
  OBVIOUS
<1>2. IsDistinct(Distinct(a, t), a, t)
  BY DistinctIs
<1> DEFINE d == Distinct(a, t)
<1>3. d \in Seq(Nat) /\ Len(a) <= Len(d) /\ \A i \in 1..Len(a) : d[i] = a[i]
  BY <1>1, <1>2 DEF IsDistinct
<1> HIDE DEF d
<1>4. \A b \in Seq(Nat) : IsPrefix(b, a) => IsPrefix(b, d)
  <2> SUFFICES ASSUME NEW b \in Seq(Nat), IsPrefix(b, a) PROVE IsPrefix(b, d)
    OBVIOUS
  <2>1. Len(b) \in Nat /\ Len(b) <= Len(a) /\ \A i \in 1..Len(b) : b[i] = a[i]
    BY PrefixIs
  <2>2. Len(b) <= Len(d) /\ \A i \in 1..Len(b) : b[i] = d[i]
    BY <1>1, <1>3, <2>1
  <2> QED
    BY <1>3, <2>2, PrefixIs
<1>5. IsPrefix(a, a)
  BY <1>1, PrefixIs
<1>6. Rest(a, a) = <<>>
  BY <1>1, SubSeqEmpty DEF Rest
<1> QED
  BY <1>4, <1>5, <1>6 DEF d

LEMMA LeftAlone ==
  ASSUME NEW r, NEW a, NEW target \in {"hw", "sim"}, ~ IsPrefix(a, r.action), target = "sim" => Cuts(r, a) = {}
  PROVE  Renamed(r, a, target) = r
BY DEF Renamed

LEMMA RenamedHere ==
  ASSUME NEW r \in [table : Seq(Nat), cmd : {"entry", "default"}, action : Seq(Nat), args : Seq(Seq(Nat))],
         NEW target \in {"hw", "sim"}, target = "sim" => Plain(r.table),
         r.cmd = "default" => r.args = <<>>
  PROVE  Renamed(r, r.action, target) = [r EXCEPT !.action = Distinct(r.action, r.table)]
<1>1. r.action \in Seq(Nat) /\ r.table \in Seq(Nat) /\ r.args \in Seq(Seq(Nat)) /\ r.cmd \in {"entry", "default"}
  OBVIOUS
<1>2. IsPrefix(r.action, r.action) /\ Rest(r.action, r.action) = <<>>
  BY <1>1, PrefixOfDistinct
<1>3. (IF Rest(r.action, r.action) = <<>> THEN <<>> ELSE <<Rest(r.action, r.action)>>) \o r.args = r.args
  <2>1. <<>> \o r.args = r.args
    BY <1>1, ConcatEmptySeq
  <2> QED
    BY <1>2, <2>1
<1>4. target = "hw" \/ Plain(r.table)
  OBVIOUS
<1>5. r.cmd = "entry" \/ r.args = <<>>
  BY <1>1
<1>6. Renamed(r, r.action, target) = [r EXCEPT !.action = Distinct(r.action, r.table), !.args = r.args]
  BY <1>2, <1>3, <1>4, <1>5 DEF Renamed
<1>7. [r EXCEPT !.action = Distinct(r.action, r.table), !.args = r.args] = [r EXCEPT !.action = Distinct(r.action, r.table)]
  OBVIOUS
<1> QED
  BY <1>6, <1>7

LEMMA PlainRuleRenamed ==
  ASSUME NEW p \in Programs, NEW r \in RulesOf(p), PlainRule(p, r)
  PROVE  RenamedRule(r, PopularActions(p), p.target)
           = [r EXCEPT !.action = BitOf(ActionTables(p), r.action, r.table)]
<1> DEFINE names == PopularActions(p)
           N == Len(names)
           a == r.action
           t == r.table
           becomes == BitOf(ActionTables(p), a, t)
           new == [r EXCEPT !.action = becomes]
<1>1. names \in Seq(DOMAIN p.actions) /\ IsInjective(names) /\ \A b : b \in Range(names) <=> IsPopular(ActionTables(p), b)
  BY PopularAre
<1>2. a \in DOMAIN p.actions /\ t \in DOMAIN p.tables /\ r.cmd \in {"entry", "default"} /\ r.args \in Seq(Seq(Nat))
      /\ r = [table |-> r.table, cmd |-> r.cmd, action |-> r.action, args |-> r.args]
  BY DEF RulesOf
<1>3. /\ Name(a) /\ Name(t) /\ becomes \in Seq(Nat)
      /\ IsPopular(ActionTables(p), a) => becomes = Distinct(a, t)
      /\ ~ IsPopular(ActionTables(p), a) => becomes = a
  BY <1>2, BitIs
<1>4. a \in Seq(Nat) /\ t \in Seq(Nat)
  BY <1>3, NameIs
<1>5. /\ r.cmd = "default" => r.args = <<>>
      /\ \A b \in Range(names) : IsPrefix(b, becomes) => b = a
      /\ p.target = "sim" => Plain(t) /\ \A b \in Range(names) : Cuts(r, b) = {}
  BY DEF PlainRule
<1>6. p.target \in {"hw", "sim"}
  BY ProgramIs
<1> HIDE DEF names, a, t, becomes
<1>7. N \in Nat /\ (\A i \in 1..N : names[i] \in Range(names)) /\ \A i, j \in 1..N : names[i] = names[j] => i = j
  BY <1>1, SeqIs
<1>8. \A b \in Range(names) : b \in Seq(Nat)
  <2> TAKE b \in Range(names)
  <2>1. b \in DOMAIN p.actions
    BY <1>1, InRange
  <2>2. Name(b)
    BY <2>1, ProgramIs
  <2> QED
    BY <2>2, NameIs
<1>9. new.action = becomes /\ new.table = t /\ new.cmd = r.cmd /\ new.args = r.args
  BY <1>2 DEF a, t
<1>10. \A b \in Range(names) : Cuts(new, b) = Cuts(r, b)
  BY <1>9 DEF Cuts, t
<1> HIDE DEF new
<1>11. \A b \in Range(names) : b # a => Renamed(r, b, p.target) = r /\ Renamed(new, b, p.target) = new
  <2> SUFFICES ASSUME NEW b \in Range(names), b # a PROVE Renamed(r, b, p.target) = r /\ Renamed(new, b, p.target) = new
    OBVIOUS
  <2>1. ~ IsPrefix(b, becomes)
    BY <1>5
  <2>2. ~ IsPrefix(b, a)
    BY <1>3, <1>4, <1>8, <2>1, PrefixOfDistinct
  <2>3. p.target = "sim" => Cuts(r, b) = {} /\ Cuts(new, b) = {}
    BY <1>5, <1>10
  <2>4. ~ IsPrefix(b, r.action) /\ ~ IsPrefix(b, new.action)
    BY <1>9, <2>1, <2>2 DEF a
  <2> QED
    BY <1>6, <2>3, <2>4, LeftAlone
<1>12. PICK u : IsRenaming(u, r, names, N, p.target)
  <2>1. Len(names) = N
    OBVIOUS
  <2> HIDE DEF N
  <2> QED
    BY <1>7, <2>1, RenamedRuleIs
<1>13. CASE ~ IsPopular(ActionTables(p), a)
  <2>1. new = r
    BY <1>2, <1>3, <1>13 DEF new, a
  <2> DEFINE T == {i \in 0..N : u[i] = r}
  <2>2. 0 \in T
    BY <1>7, <1>12 DEF IsRenaming
  <2>3. ASSUME NEW i \in 1..N, i - 1 \in T PROVE i \in T
    <3>1. u[i - 1] = r
      <4>1. PICK k \in T : k = i - 1
        BY <2>3
      <4> QED
        BY <4>1
    <3>2. names[i] \in Range(names) /\ names[i] # a
      BY <1>1, <1>7, <1>13
    <3>3. u[i] = r /\ i \in 0..N
      BY <1>7, <1>11, <1>12, <3>1, <3>2 DEF IsRenaming
    <3> QED
      BY <3>3
  <2> HIDE DEF T
  <2>4. N \in T
    <3>1. 0..N \subseteq T
      BY <1>7, <2>2, <2>3, InductionUpTo
    <3> QED
      BY <1>7, <3>1
  <2>5. u[N] = r
    BY <2>4 DEF T
  <2> QED
    BY <1>12, <2>1, <2>5 DEF names, new, a, t, becomes, IsRenaming
<1>14. CASE IsPopular(ActionTables(p), a)
  <2>1. PICK k \in 1..N : names[k] = a
    BY <1>1, <1>14, InRange
  <2>2. Renamed(r, a, p.target) = new
    <3>1. r \in [table : Seq(Nat), cmd : {"entry", "default"}, action : Seq(Nat), args : Seq(Seq(Nat))]
      BY <1>2, <1>4 DEF a, t
    <3>2. p.target = "sim" => Plain(r.table)
      BY <1>5 DEF t
    <3>3. Renamed(r, r.action, p.target) = [r EXCEPT !.action = Distinct(r.action, r.table)]
      BY <1>5, <1>6, <3>1, <3>2, RenamedHere
    <3> QED
      BY <1>3, <1>14, <3>3 DEF new, a, t
  <2> DEFINE T == {i \in 0..N : u[i] = IF i < k THEN r ELSE new}
  <2>3. 0 \in T
    BY <1>7, <1>12 DEF IsRenaming
  <2>4. ASSUME NEW i \in 1..N, i - 1 \in T PROVE i \in T
    <3>1. u[i - 1] = IF i - 1 < k THEN r ELSE new
      <4>1. PICK l \in T : l = i - 1
        BY <2>4
      <4> QED
        BY <4>1
    <3>2. names[i] \in Range(names) /\ (names[i] = a <=> i = k)
      BY <1>7, <2>1
    <3>3. u[i] = Renamed(u[i - 1], names[i], p.target) /\ i \in 0..N
      BY <1>7, <1>12 DEF IsRenaming
    <3>4. CASE i = k
      <4>1. u[i - 1] = r /\ names[i] = a /\ ~ (i < k)
        BY <1>7, <3>1, <3>2, <3>4
      <4> QED
        BY <2>2, <3>3, <4>1
    <3>5. CASE i < k
      <4>1. u[i - 1] = r /\ names[i] # a
        BY <1>7, <3>1, <3>2, <3>5
      <4>2. u[i] = r
        BY <1>11, <3>2, <3>3, <4>1
      <4> QED
        BY <3>3, <3>5, <4>2
    <3>6. CASE i > k
      <4>1. u[i - 1] = new /\ names[i] # a /\ ~ (i < k)
        BY <1>7, <3>1, <3>2, <3>6
      <4>2. u[i] = new
        BY <1>11, <3>2, <3>3, <4>1
      <4> QED
        BY <3>3, <4>1, <4>2
    <3> QED
      BY <1>7, <3>4, <3>5, <3>6
  <2> HIDE DEF T
  <2>5. N \in T
    <3>1. 0..N \subseteq T
      BY <1>7, <2>3, <2>4, InductionUpTo
    <3> QED
      BY <1>7, <3>1
  <2>6. u[N] = new
    BY <1>7, <2>5 DEF T
  <2> QED
    BY <1>12, <2>6 DEF names, new, a, t, becomes, IsRenaming
<1> QED
  BY <1>13, <1>14

LEMMA RulesRenamedHolds == PassesMade => RulesRenamed
<1> SUFFICES ASSUME PassesMade, Done, NEW i \in DOMAIN prog.rules,
                    prog.rules[i].cmd = "default" => prog.rules[i].args = <<>>,
                    NoneBegins(prog.rules[i].action, prog.rules[i].table),
                    prog.target = "sim" => Plain(prog.rules[i].table)
                                           /\ \A a \in Range(popular) : Cuts(prog.rules[i], a) = {}
             PROVE  rules[i] = [prog.rules[i] EXCEPT !.action = Taken(@, prog.rules[i].table)]
  BY DEF RulesRenamed
<1>1. prog \in Programs /\ popular = PopularActions(prog) /\ rules = RulesCopied(prog)
  BY DoneMade
<1>2. PlainRule(prog, prog.rules[i])
  BY <1>1 DEF PlainRule, NoneBegins, Taken
<1>3. prog.rules \in Seq(RulesOf(prog))
  BY <1>1, ProgramIs
<1>4. i \in 1..Len(prog.rules) /\ prog.rules[i] \in RulesOf(prog) /\ DOMAIN prog.rules = 1..Len(prog.rules) /\ Len(prog.rules) \in Nat
  BY <1>3
<1>5. RenamedRule(prog.rules[i], PopularActions(prog), prog.target)
        = [prog.rules[i] EXCEPT !.action = Taken(prog.rules[i].action, prog.rules[i].table)]
  BY <1>1, <1>2, <1>4, PlainRuleRenamed DEF Taken
<1>6. rules[i] = RenamedRule(prog.rules[i], PopularActions(prog), prog.target)
  <2> DEFINE own == [j \in DOMAIN prog.rules |-> RenamedRule(prog.rules[j], PopularActions(prog), prog.target)]
  <2>1. own \in [1..Len(prog.rules) -> {own[j] : j \in 1..Len(prog.rules)}]
    BY <1>4
  <2>2. own[i] = RenamedRule(prog.rules[i], PopularActions(prog), prog.target)
    BY <1>4
  <2>3. \E e : rules = Append(own, e)
    BY <1>1 DEF RulesCopied
  <2> HIDE DEF own
  <2>4. own \in Seq({own[j] : j \in 1..Len(prog.rules)}) /\ Len(own) = Len(prog.rules)
    BY <1>4, <2>1, FunctionAsSeq
  <2>5. rules[i] = own[i]
    BY <1>4, <2>3, <2>4
  <2> QED
    BY <2>2, <2>5
<1> QED
  BY <1>5, <1>6

(* The copied entries name the actions their tables now have.              *)
THEOREM RulesRenamedAlways == Spec => []RulesRenamed
BY InstrumentedAs, RulesRenamedHolds, PTL

-----------------------------------------------------------------------------
(* The blocks of a program.                                                *)

IsApply(p, n, s) ==
  /\ s.kind = "apply" /\ s = [kind |-> "apply", table |-> s.table, cases |-> s.cases]
  /\ s.table \in DOMAIN p.tables /\ s.cases \in Seq([on : DOMAIN p.actions, block : 1..(n - 1)])
IsCall(p, n, s) == s.kind = "call" /\ s.block \in 1..(n - 1)
IsIf(p, n, s) ==
  /\ s.kind = "if" /\ s.then \in 1..(n - 1) /\ s.elseif \in BOOLEAN
  /\ s.else = <<>> \/ \E m \in 1..(n - 1) : s.else = <<m>>
IsAssert(p, n, s) ==
  s.kind = "assert" /\ s.num \in 0..(Len(p.asserts) - 1) /\ s = [kind |-> "assert", num |-> s.num]

LEMMA StatementIs ==
  ASSUME NEW p, NEW n, NEW s \in Statements(p, n)
  PROVE  IsApply(p, n, s) \/ IsCall(p, n, s) \/ IsIf(p, n, s) \/ IsAssert(p, n, s)
<1>1. CASE s \in [kind : {"apply"}, table : DOMAIN p.tables, cases : Seq([on : DOMAIN p.actions, block : 1..(n - 1)])]
  BY <1>1 DEF IsApply
<1>2. CASE s \in [kind : {"call"}, block : 1..(n - 1)]
  BY <1>2 DEF IsCall
<1>3. CASE s \in [kind : {"if"}, then : 1..(n - 1), else : {<<>>} \cup {<<m>> : m \in 1..(n - 1)}, elseif : BOOLEAN]
  BY <1>3 DEF IsIf
<1>4. CASE s \in [kind : {"assert"}, num : 0..(Len(p.asserts) - 1)]
  BY <1>4 DEF IsAssert
<1> QED
  BY <1>1, <1>2, <1>3, <1>4 DEF Statements

Part(p, n, i) == p.blocks[n][i]
LEMMA BlocksAre ==
  ASSUME NEW p \in Programs
  PROVE  /\ p.blocks \in Seq(Range(p.blocks)) /\ DOMAIN p.blocks = 1..Len(p.blocks) /\ Len(p.blocks) \in Nat
         /\ \A n \in DOMAIN p.blocks :
              /\ p.blocks[n] \in Seq(Statements(p, n)) /\ DOMAIN p.blocks[n] = 1..Len(p.blocks[n]) /\ Len(p.blocks[n]) \in Nat
              /\ \A i \in DOMAIN p.blocks[n] : Part(p, n, i) \in Statements(p, n)
              /\ \A i \in DOMAIN p.blocks[n] :
                   Part(p, n, i).kind = "if" /\ Part(p, n, i).elseif =>
                     /\ Part(p, n, i).else # <<>> /\ Len(p.blocks[Part(p, n, i).else[1]]) = 1
                     /\ Part(p, Part(p, n, i).else[1], 1).kind = "if"
         /\ p.roots \in Seq(DOMAIN p.blocks) /\ Len(p.roots) \in 1..2
<1>1. WellFormed(p)
  BY ProgramsAssumption
<1>2. p.blocks \in Seq(Range(p.blocks)) /\ p.roots \in Seq(DOMAIN p.blocks) /\ Len(p.roots) \in 1..2
  BY <1>1 DEF WellFormed
<1>3. DOMAIN p.blocks = 1..Len(p.blocks) /\ Len(p.blocks) \in Nat
  BY <1>2, SeqIs
<1>4. ASSUME NEW n \in DOMAIN p.blocks
      PROVE  /\ p.blocks[n] \in Seq(Statements(p, n)) /\ DOMAIN p.blocks[n] = 1..Len(p.blocks[n]) /\ Len(p.blocks[n]) \in Nat
             /\ \A i \in DOMAIN p.blocks[n] : Part(p, n, i) \in Statements(p, n)
  <2>1. p.blocks[n] \in Seq(Statements(p, n))
    BY <1>1 DEF WellFormed
  <2> QED
    BY <2>1, SeqIs DEF Part
<1>5. ASSUME NEW n \in DOMAIN p.blocks, NEW i \in DOMAIN p.blocks[n]
      PROVE  Part(p, n, i).kind = "if" /\ Part(p, n, i).elseif =>
               /\ Part(p, n, i).else # <<>> /\ Len(p.blocks[Part(p, n, i).else[1]]) = 1
               /\ Part(p, Part(p, n, i).else[1], 1).kind = "if"
  BY <1>1 DEF WellFormed, Part
<1> QED
  BY <1>2, <1>3, <1>4, <1>5

LEMMA InnerIs ==
  ASSUME NEW p \in Programs, NEW n \in DOMAIN p.blocks, NEW i \in DOMAIN p.blocks[n]
  PROVE  Inner(p.blocks, Part(p, n, i)) \in Seq(1..(n - 1))
<1> DEFINE s == Part(p, n, i)
           B == 1..(n - 1)
<1>1. s \in Statements(p, n) /\ n \in 1..Len(p.blocks) /\ Len(p.blocks) \in Nat
  BY BlocksAre
<1>2. CASE IsApply(p, n, s)
  <2>1. Inner(p.blocks, s) = [j \in DOMAIN s.cases |-> s.cases[j].block]
    BY <1>2 DEF Inner, IsApply
  <2>2. s.cases \in Seq([on : DOMAIN p.actions, block : 1..(n - 1)])
    BY <1>2 DEF IsApply
  <2>3. Len(s.cases) \in Nat /\ DOMAIN s.cases = 1..Len(s.cases) /\ \A j \in 1..Len(s.cases) : s.cases[j].block \in B
    <3> DEFINE C == [on : DOMAIN p.actions, block : 1..(n - 1)]
    <3>1. \A c \in C : c.block \in B
      OBVIOUS
    <3>2. s.cases \in Seq(C)
      BY <2>2
    <3> HIDE DEF s, B, C
    <3> QED
      BY <3>1, <3>2, SeqIs
  <2>4. Inner(p.blocks, s) \in [1..Len(s.cases) -> B]
    <3> HIDE DEF s, B
    <3> QED
      BY <2>1, <2>3
  <2> HIDE DEF s, B
  <2>5. Inner(p.blocks, s) \in Seq(B)
    BY <2>3, <2>4, FunctionAsSeq
  <2> QED
    BY <2>5 DEF s, B
<1>3. CASE IsCall(p, n, s)
  <2>1. Inner(p.blocks, s) = <<s.block>> /\ s.block \in 1..(n - 1)
    BY <1>3 DEF Inner, IsCall
  <2>2. s.block \in B
    BY <2>1
  <2> HIDE DEF s, B
  <2>3. Inner(p.blocks, s) \in Seq(B)
    BY <2>1, <2>2
  <2> QED
    BY <2>3 DEF s, B
<1>4. CASE IsIf(p, n, s)
  <2>1. Inner(p.blocks, s) = <<s.then>> \o IF s.elseif THEN <<p.blocks[s.else[1]][1].then>> ELSE s.else
    BY <1>4 DEF Inner, IsIf
  <2>2. s.then \in 1..(n - 1) /\ s.elseif \in BOOLEAN /\ (s.else = <<>> \/ \E m \in 1..(n - 1) : s.else = <<m>>)
    BY <1>4 DEF IsIf
  <2>3. CASE ~ s.elseif
    <3>1. s.else \in Seq(B) /\ <<s.then>> \in Seq(B)
      <4>1. s.then \in B /\ (s.else = <<>> \/ \E m \in B : s.else = <<m>>)
        BY <2>2
      <4> HIDE DEF s, B
      <4>2. \A m \in B : <<m>> \in Seq(B)
        OBVIOUS
      <4>3. <<>> \in Seq(B)
        OBVIOUS
      <4> QED
        BY <4>1, <4>2, <4>3
    <3>2. Inner(p.blocks, s) = <<s.then>> \o s.else
      BY <2>1, <2>3
    <3> HIDE DEF s, B
    <3>3. Inner(p.blocks, s) \in Seq(B)
      BY <3>1, <3>2, ConcatIs DEF IsConcat
    <3> QED
      BY <3>3 DEF s, B
  <2>4. CASE s.elseif
    <3>1. s.else # <<>> /\ Len(p.blocks[s.else[1]]) = 1 /\ Part(p, s.else[1], 1).kind = "if"
      BY <1>4, <2>4, BlocksAre DEF IsIf
    <3>2. PICK m \in 1..(n - 1) : s.else = <<m>>
      BY <2>2, <3>1
    <3>3. m \in DOMAIN p.blocks /\ s.else[1] = m
      BY <1>1, <3>2, BlocksAre
    <3>4. 1 \in DOMAIN p.blocks[m]
      BY <3>1, <3>3, BlocksAre
    <3>5. Part(p, m, 1) \in Statements(p, m) /\ Part(p, m, 1).kind = "if"
      BY <3>1, <3>3, <3>4, BlocksAre
    <3>6. Part(p, m, 1).then \in 1..(m - 1)
      BY <3>5, StatementIs DEF IsApply, IsCall, IsIf, IsAssert
    <3>7. Part(p, m, 1).then \in 1..(n - 1)
      BY <1>1, <3>2, <3>6
    <3>8. Inner(p.blocks, s) = <<s.then>> \o <<Part(p, m, 1).then>>
      BY <2>1, <2>4, <3>3 DEF Part
    <3>9. s.then \in B /\ Part(p, m, 1).then \in B
      BY <2>2, <3>7
    <3> HIDE DEF s, B
    <3>10. Inner(p.blocks, s) \in Seq(B)
      BY <3>8, <3>9
    <3> QED
      BY <3>10 DEF s, B
  <2> QED
    BY <2>3, <2>4
<1>5. CASE IsAssert(p, n, s)
  <2>1. Inner(p.blocks, s) = <<>>
    BY <1>5 DEF Inner, IsAssert
  <2> QED
    BY <2>1
<1> QED
  BY <1>1, <1>2, <1>3, <1>4, <1>5, StatementIs

-----------------------------------------------------------------------------
(* Sequences that grow by a function of what they are so far.              *)

IsGrowing(u, N, Z, F) ==
  /\ u \in [0..N -> Seq(Z)]
  /\ u[0] = <<>>
  /\ \A n \in 0..N : Len(u[n]) = n
  /\ \A n \in 1..N : u[n] = Append(u[n - 1], F[n][u[n - 1]])

LEMMA GrowingExists ==
  ASSUME NEW N \in Nat, NEW Z, NEW F, F \in [1..N -> [Seq(Z) -> Z]]
  PROVE  \E u : IsGrowing(u, N, Z, F)
<1> DEFINE V == Seq(Z)
           Step == [n \in 1..N |-> [v \in V |-> Append(v, F[n][v])]]
<1>1. IsStep(Step, N, V)
  <2>1. ASSUME NEW n \in 1..N, NEW v \in V PROVE Append(v, F[n][v]) \in V
    <3>1. F[n][v] \in Z
      OBVIOUS
    <3> QED
      BY <3>1
  <2> QED
    BY <2>1 DEF IsStep
<1>2. <<>> \in V
  OBVIOUS
<1>3. PICK u : IsRecursive(u, N, V, <<>>, Step)
  <2> HIDE DEF V, Step
  <2> QED
    BY <1>1, <1>2, RecursionUpTo
<1>4. u \in [0..N -> V] /\ u[0] = <<>>
  BY <1>3 DEF IsRecursive
<1>5. \A n \in 1..N : u[n] = Append(u[n - 1], F[n][u[n - 1]])
  <2> TAKE n \in 1..N
  <2>1. u[n] = Step[n][u[n - 1]]
    BY <1>3 DEF IsRecursive
  <2>2. n - 1 \in 0..N
    OBVIOUS
  <2>3. u[n - 1] \in V
    BY <1>4, <2>2
  <2>4. \A v \in V : Step[n][v] = Append(v, F[n][v])
    OBVIOUS
  <2> HIDE DEF V, Step
  <2> QED
    BY <2>1, <2>3, <2>4
<1> DEFINE T == {n \in 0..N : Len(u[n]) = n}
<1>6. 0 \in T
  BY <1>4
<1>7. ASSUME NEW n \in 1..N, n - 1 \in T PROVE n \in T
  <2>1. PICK k \in T : k = n - 1
    BY <1>7
  <2>2. Len(u[n - 1]) = n - 1 /\ n - 1 \in 0..N /\ n \in 0..N
    BY <2>1
  <2>3. u[n - 1] \in Seq(Z)
    BY <1>4, <2>2
  <2>4. Len(u[n]) = n
    BY <1>5, <2>2, <2>3
  <2> QED
    BY <2>2, <2>4
<1>8. \A n \in 0..N : Len(u[n]) = n
  <2> HIDE DEF T
  <2>1. 0..N \subseteq T
    BY <1>6, <1>7, InductionUpTo
  <2> QED
    BY <2>1 DEF T
<1> QED
  BY <1>4, <1>5, <1>8 DEF IsGrowing

IsGrown(u, N, Z, F) ==
  /\ u[N] \in Seq(Z) /\ Len(u[N]) = N
  /\ \A n \in 1..N : /\ u[n - 1] \in Seq(Z) /\ Len(u[n - 1]) = n - 1
                     /\ u[N][n] = F[n][u[n - 1]]
                     /\ \A m \in 1..(n - 1) : u[n - 1][m] = u[N][m]
LEMMA GrowingIs ==
  ASSUME NEW N \in Nat, NEW Z, NEW F, NEW u, IsGrowing(u, N, Z, F)
  PROVE  IsGrown(u, N, Z, F)
<1>1. /\ u \in [0..N -> Seq(Z)]
      /\ \A n \in 0..N : Len(u[n]) = n
      /\ \A n \in 1..N : u[n] = Append(u[n - 1], F[n][u[n - 1]])
  BY DEF IsGrowing
<1> DEFINE T == {n \in 0..N : \A m \in 1..n : /\ u[n][m] = F[m][u[m - 1]]
                                             /\ \A l \in 1..(m - 1) : u[m - 1][l] = u[n][l]}
<1>2. 0 \in T
  OBVIOUS
<1>3. ASSUME NEW n \in 1..N, n - 1 \in T PROVE n \in T
  <2>1. PICK k \in T : k = n - 1
    BY <1>3
  <2>2. \A m \in 1..(n - 1) : /\ u[n - 1][m] = F[m][u[m - 1]]
                              /\ \A l \in 1..(m - 1) : u[m - 1][l] = u[n - 1][l]
    BY <2>1
  <2>3. n - 1 \in 0..N /\ n \in 0..N
    OBVIOUS
  <2>4. u[n - 1] \in Seq(Z) /\ Len(u[n - 1]) = n - 1 /\ u[n] = Append(u[n - 1], F[n][u[n - 1]])
    BY <1>1, <2>3
  <2>5. u[n] \in Seq(Z) /\ Len(u[n]) = n
    BY <1>1, <2>3
  <2>6. (\A m \in 1..(n - 1) : u[n][m] = u[n - 1][m]) /\ u[n][n] = F[n][u[n - 1]]
    BY <2>4
  <2>7. ASSUME NEW m \in 1..n
        PROVE  u[n][m] = F[m][u[m - 1]] /\ \A l \in 1..(m - 1) : u[m - 1][l] = u[n][l]
    <3>1. CASE m = n
      BY <2>6, <3>1
    <3>2. CASE m # n
      <4>1. m \in 1..(n - 1) /\ \A l \in 1..(m - 1) : l \in 1..(n - 1)
        BY <3>2
      <4> QED
        BY <2>2, <2>6, <4>1
    <3> QED
      BY <3>1, <3>2
  <2> QED
    BY <2>3, <2>7
<1>4. N \in T
  <2> HIDE DEF T
  <2>1. 0..N \subseteq T
    BY <1>2, <1>3, InductionUpTo
  <2> QED
    BY <2>1
<1>5. \A n \in 1..N : n - 1 \in 0..N
  OBVIOUS
<1> QED
  BY <1>1, <1>4, <1>5 DEF IsGrown

(* Two recursions that make the same steps.                                *)
LEMMA SameSteps ==
  ASSUME NEW N \in Nat, NEW u, NEW v, u[0] = v[0],
         \A n \in 1..N : u[n - 1] = v[n - 1] => u[n] = v[n]
  PROVE  u[N] = v[N]
<1> DEFINE T == {n \in 0..N : u[n] = v[n]}
<1>1. 0 \in T
  OBVIOUS
<1>2. ASSUME NEW n \in 1..N, n - 1 \in T PROVE n \in T
  <2>1. PICK k \in T : k = n - 1
    BY <1>2
  <2> QED
    BY <2>1
<1> HIDE DEF T
<1>3. N \in T
  <2>1. 0..N \subseteq T
    BY <1>1, <1>2, InductionUpTo
  <2> QED
    BY <2>1
<1> QED
  BY <1>3 DEF T

-----------------------------------------------------------------------------
(* The positions that addModifyTablesRecurse comes to.                     *)

Spots(p) == {x \in Nat \X Nat : x[1] \in DOMAIN p.blocks /\ x[2] \in DOMAIN p.blocks[x[1]]}
WalkInto(bs, n, i, v) == [j \in DOMAIN Inner(bs, bs[n][i]) |-> v[Inner(bs, bs[n][i])[j]]]
WalkParts(bs, n, v) == [i \in DOMAIN bs[n] |-> <<<<n, i>>>> \o FlattenSeq(WalkInto(bs, n, i, v))]
WalkAt(bs, n, v) == FlattenSeq(WalkParts(bs, n, v))

LEMMA WalkAtTyped ==
  ASSUME NEW p \in Programs, NEW n \in DOMAIN p.blocks, NEW v \in Seq(Seq(Spots(p))), Len(v) >= n - 1
  PROVE  WalkAt(p.blocks, n, v) \in Seq(Spots(p))
<1> DEFINE S == Spots(p)
<1>1. /\ n \in 1..Len(p.blocks) /\ Len(p.blocks) \in Nat
      /\ DOMAIN p.blocks[n] = 1..Len(p.blocks[n]) /\ Len(p.blocks[n]) \in Nat
  BY BlocksAre
<1>2. ASSUME NEW i \in DOMAIN p.blocks[n] PROVE <<<<n, i>>>> \o FlattenSeq(WalkInto(p.blocks, n, i, v)) \in Seq(S)
  <2> DEFINE inner == Inner(p.blocks, p.blocks[n][i])
             B == 1..(n - 1)
  <2>1. inner \in Seq(B)
    BY InnerIs DEF Part
  <2>2. \A b \in B : v[b] \in Seq(S)
    <3>1. \A b \in B : b \in 1..Len(v)
      BY <1>1
    <3> QED
      BY <3>1
  <2>3. WalkInto(p.blocks, n, i, v) = [j \in DOMAIN inner |-> v[inner[j]]]
    BY DEF WalkInto
  <2>4. <<n, i>> \in S
    <3>1. n \in Nat /\ i \in Nat
      BY <1>1
    <3> QED
      BY <3>1 DEF Spots
  <2> HIDE DEF inner, B, S
  <2>5. Len(inner) \in Nat /\ DOMAIN inner = 1..Len(inner) /\ \A j \in 1..Len(inner) : inner[j] \in B
    BY <2>1, SeqIs
  <2>6. WalkInto(p.blocks, n, i, v) \in [1..Len(inner) -> Seq(S)]
    BY <2>2, <2>3, <2>5
  <2>7. WalkInto(p.blocks, n, i, v) \in Seq(Seq(S))
    BY <2>5, <2>6, FunctionAsSeq
  <2>8. FlattenSeq(WalkInto(p.blocks, n, i, v)) \in Seq(S)
    BY <2>7, FlattenTyped
  <2>9. <<<<n, i>>>> \in Seq(S)
    BY <2>4
  <2> QED
    BY <2>8, <2>9, ConcatIs DEF IsConcat
<1>3. WalkParts(p.blocks, n, v) = [i \in DOMAIN p.blocks[n] |-> <<<<n, i>>>> \o FlattenSeq(WalkInto(p.blocks, n, i, v))]
  BY DEF WalkParts
<1> HIDE DEF S
<1>4. WalkParts(p.blocks, n, v) \in [1..Len(p.blocks[n]) -> Seq(S)]
  BY <1>1, <1>2, <1>3
<1>5. WalkParts(p.blocks, n, v) \in Seq(Seq(S))
  BY <1>1, <1>4, FunctionAsSeq
<1>6. WalkAt(p.blocks, n, v) \in Seq(S)
  BY <1>5, FlattenTyped DEF WalkAt
<1> QED
  BY <1>6 DEF S

LEMMA WalkAtAgrees ==
  ASSUME NEW p \in Programs, NEW n \in DOMAIN p.blocks, NEW v, NEW w, \A m \in 1..(n - 1) : v[m] = w[m]
  PROVE  WalkAt(p.blocks, n, v) = WalkAt(p.blocks, n, w)
<1>1. ASSUME NEW i \in DOMAIN p.blocks[n] PROVE WalkInto(p.blocks, n, i, v) = WalkInto(p.blocks, n, i, w)
  <2> DEFINE inner == Inner(p.blocks, p.blocks[n][i])
             B == 1..(n - 1)
  <2>1. inner \in Seq(B)
    BY InnerIs DEF Part
  <2>2. \A b \in B : v[b] = w[b]
    OBVIOUS
  <2>3. WalkInto(p.blocks, n, i, v) = [j \in DOMAIN inner |-> v[inner[j]]]
    BY DEF WalkInto
  <2>4. WalkInto(p.blocks, n, i, w) = [j \in DOMAIN inner |-> w[inner[j]]]
    BY DEF WalkInto
  <2> HIDE DEF inner, B
  <2>5. \A j \in DOMAIN inner : inner[j] \in B
    BY <2>1, SeqIs
  <2> QED
    BY <2>2, <2>3, <2>4, <2>5
<1>2. WalkParts(p.blocks, n, v) = WalkParts(p.blocks, n, w)
  BY <1>1 DEF WalkParts
<1> QED
  BY <1>2 DEF WalkAt

LEMMA WalksAre ==
  ASSUME NEW p \in Programs
  PROVE  /\ Walks(p.blocks) \in Seq(Seq(Spots(p))) /\ Len(Walks(p.blocks)) = Len(p.blocks)
         /\ \A n \in DOMAIN p.blocks : Walks(p.blocks)[n] = WalkAt(p.blocks, n, Walks(p.blocks))
<1> DEFINE bs == p.blocks
           N == Len(bs)
           Z == Seq(Spots(p))
           F == [n \in 1..N |-> [v \in Seq(Z) |-> IF Len(v) = n - 1 THEN WalkAt(bs, n, v) ELSE <<>>]]
           Is(u) == u = [n \in 0..N |-> IF n = 0 THEN <<>> ELSE Append(u[n - 1], WalkAt(bs, n, u[n - 1]))]
           U == CHOOSE u : Is(u)
<1>1. N \in Nat /\ DOMAIN bs = 1..N
  BY BlocksAre
<1>2. F \in [1..N -> [Seq(Z) -> Z]]
  <2>1. ASSUME NEW n \in 1..N, NEW v \in Seq(Z), Len(v) = n - 1 PROVE WalkAt(bs, n, v) \in Z
    <3>1. n \in DOMAIN bs /\ Len(v) >= n - 1
      BY <1>1, <2>1
    <3> QED
      BY <3>1, WalkAtTyped
  <2>2. <<>> \in Z
    OBVIOUS
  <2> HIDE DEF bs, N, Z
  <2> QED
    BY <2>1, <2>2
<1>3. PICK f : IsGrowing(f, N, Z, F)
  <2> HIDE DEF N, Z, F
  <2> QED
    BY <1>1, <1>2, GrowingExists
<1>4. /\ f \in [0..N -> Seq(Z)] /\ f[0] = <<>> /\ \A n \in 0..N : Len(f[n]) = n
      /\ \A n \in 1..N : f[n] = Append(f[n - 1], F[n][f[n - 1]])
  <2> HIDE DEF N, Z, F
  <2> QED
    BY <1>3 DEF IsGrowing
<1>5. \A n \in 1..N : F[n][f[n - 1]] = WalkAt(bs, n, f[n - 1])
  <2> TAKE n \in 1..N
  <2>1. \A v \in Seq(Z) : Len(v) = n - 1 => F[n][v] = WalkAt(bs, n, v)
    OBVIOUS
  <2> HIDE DEF N, Z, F, bs
  <2>2. n - 1 \in 0..N
    BY <1>1
  <2>3. f[n - 1] \in Seq(Z) /\ Len(f[n - 1]) = n - 1
    BY <1>4, <2>2
  <2> QED
    BY <2>1, <2>3
<1>6. Is(f)
  <2> HIDE DEF N, Z, F, bs
  <2>1. \A n \in 0..N : f[n] = IF n = 0 THEN <<>> ELSE Append(f[n - 1], WalkAt(bs, n, f[n - 1]))
    <3> TAKE n \in 0..N
    <3>1. CASE n = 0
      BY <1>4, <3>1
    <3>2. CASE n # 0
      <4>1. n \in 1..N
        BY <1>1, <3>2
      <4> QED
        BY <1>4, <1>5, <3>2, <4>1
    <3> QED
      BY <3>1, <3>2
  <2>2. f = [n \in 0..N |-> f[n]]
    BY <1>4
  <2> QED
    BY <2>1, <2>2
<1>7. Walks(bs) = U[N]
  BY DEF Walks, WalkAt, WalkParts, WalkInto
<1>8. Is(U)
  <2> HIDE DEF Is
  <2> QED
    BY <1>6
<1>9. U[N] = f[N]
  <2> HIDE DEF U, F, Z, N, bs
  <2>1. U[0] = f[0]
    BY <1>1, <1>4, <1>8
  <2>2. \A n \in 1..N : U[n] = Append(U[n - 1], WalkAt(bs, n, U[n - 1]))
    <3> TAKE n \in 1..N
    <3>1. n \in 0..N /\ n # 0
      BY <1>1
    <3> QED
      BY <1>8, <3>1
  <2>3. \A n \in 1..N : U[n - 1] = f[n - 1] => U[n] = f[n]
    BY <1>4, <1>5, <2>2
  <2> QED
    BY <1>1, <2>1, <2>3, SameSteps
<1>10. /\ f[N] \in Seq(Z) /\ Len(f[N]) = N
       /\ \A n \in 1..N : f[N][n] = F[n][f[n - 1]] /\ \A m \in 1..(n - 1) : f[n - 1][m] = f[N][m]
  <2> HIDE DEF F, Z, N, bs
  <2>1. IsGrown(f, N, Z, F)
    BY <1>1, <1>3, GrowingIs
  <2> QED
    BY <2>1 DEF IsGrown
<1> HIDE DEF U, F, Is
<1>11. Walks(bs) \in Seq(Z) /\ Len(Walks(bs)) = N
  BY <1>7, <1>9, <1>10
<1>12. ASSUME NEW n \in DOMAIN bs PROVE Walks(bs)[n] = WalkAt(bs, n, Walks(bs))
  <2>1. n \in 1..N
    BY <1>1
  <2>2. Walks(bs)[n] = WalkAt(bs, n, f[n - 1])
    BY <1>5, <1>7, <1>9, <1>10, <2>1
  <2>3. \A m \in 1..(n - 1) : f[n - 1][m] = Walks(bs)[m]
    BY <1>7, <1>9, <1>10, <2>1
  <2>4. WalkAt(bs, n, f[n - 1]) = WalkAt(bs, n, Walks(bs))
    BY <2>3, WalkAtAgrees
  <2> QED
    BY <2>2, <2>4
<1> QED
  BY <1>11, <1>12

WalkedParts(p) == [i \in DOMAIN p.roots |-> Walks(p.blocks)[p.roots[i]]]
LEMMA WalkedIs ==
  ASSUME NEW p \in Programs
  PROVE  /\ WalkedParts(p) \in Seq(Seq(Spots(p))) /\ Len(WalkedParts(p)) = Len(p.roots)
         /\ Walked(p) = FlattenSeq(WalkedParts(p)) /\ Walked(p) \in Seq(Spots(p))
<1> DEFINE Z == Seq(Spots(p))
           ws == Walks(p.blocks)
           R == DOMAIN p.blocks
<1>1. ws \in Seq(Z) /\ Len(ws) = Len(p.blocks) /\ R = 1..Len(p.blocks)
  BY WalksAre, BlocksAre
<1>2. p.roots \in Seq(R) /\ Len(p.roots) \in Nat /\ DOMAIN p.roots = 1..Len(p.roots)
  BY BlocksAre, SeqIs
<1>3. Walked(p) = FlattenSeq(WalkedParts(p))
  BY DEF Walked, WalkedParts
<1>4. WalkedParts(p) \in Seq(Z) /\ Len(WalkedParts(p)) = Len(p.roots)
  <2>1. WalkedParts(p) = [i \in 1..Len(p.roots) |-> ws[p.roots[i]]]
    BY <1>2 DEF WalkedParts
  <2> HIDE DEF Z, ws
  <2>2. \A i \in 1..Len(p.roots) : p.roots[i] \in 1..Len(ws)
    <3> HIDE DEF R
    <3>1. \A i \in 1..Len(p.roots) : p.roots[i] \in R
      BY <1>2, SeqIs
    <3> QED
      BY <1>1, <3>1
  <2>3. WalkedParts(p) \in [1..Len(p.roots) -> Z]
    BY <1>1, <2>1, <2>2
  <2> QED
    BY <1>2, <2>3, FunctionAsSeq
<1> QED
  BY <1>3, <1>4, FlattenTyped

LEMMA SpotIs ==
  ASSUME NEW p, NEW x \in Spots(p)
  PROVE  x = <<x[1], x[2]>> /\ x[1] \in DOMAIN p.blocks /\ x[2] \in DOMAIN p.blocks[x[1]]
BY DEF Spots

(* The assertions that are met are those of the program.                   *)
Met(p) == [k \in DOMAIN Walked(p) |-> p.blocks[Walked(p)[k][1]][Walked(p)[k][2]]]
MetAsserts(p) == {k \in DOMAIN Met(p) : Met(p)[k].kind = "assert"}
AllStatements(p) == UNION {Statements(p, n) : n \in DOMAIN p.blocks}

LEMMA MetIs ==
  ASSUME NEW p \in Programs
  PROVE  /\ Met(p) \in Seq(AllStatements(p)) /\ Len(Met(p)) = Len(Walked(p)) /\ Len(Walked(p)) \in Nat
         /\ MetAsserts(p) \in SUBSET (1..Len(Met(p)))
         /\ AssertsMet(p) = Picked(Met(p), MetAsserts(p)) /\ AssertsMet(p) \in Seq(AllStatements(p))
         /\ \E at : IsPicking(at, AssertsMet(p), Met(p), MetAsserts(p))
         /\ \A i \in 1..Len(AssertsMet(p)) : IsAssert(p, 1, AssertsMet(p)[i])
<1> DEFINE S == Spots(p)
           A == AllStatements(p)
           w == Walked(p)
<1>1. w \in Seq(S) /\ Len(w) \in Nat /\ DOMAIN w = 1..Len(w) /\ \A k \in 1..Len(w) : w[k] \in S
  <2>1. w \in Seq(S)
    BY WalkedIs
  <2> HIDE DEF w, S
  <2> QED
    BY <2>1, SeqIs
<1>2. \A x \in S : p.blocks[x[1]][x[2]] \in A
  <2> TAKE x \in S
  <2>1. x[1] \in DOMAIN p.blocks /\ x[2] \in DOMAIN p.blocks[x[1]]
    BY SpotIs
  <2>2. Part(p, x[1], x[2]) \in Statements(p, x[1])
    BY <2>1, BlocksAre
  <2> QED
    BY <2>1, <2>2 DEF AllStatements, Part
<1>3. Met(p) \in [1..Len(w) -> A]
  <2>1. Met(p) = [k \in DOMAIN w |-> p.blocks[w[k][1]][w[k][2]]]
    BY DEF Met
  <2> HIDE DEF w, S, A
  <2> QED
    BY <1>1, <1>2, <2>1
<1>4. Met(p) \in Seq(A) /\ Len(Met(p)) = Len(w)
  <2> HIDE DEF w, S, A
  <2> QED
    BY <1>1, <1>3, FunctionAsSeq
<1>5. MetAsserts(p) \in SUBSET (1..Len(Met(p)))
  <2> HIDE DEF w, A
  <2> QED
    BY <1>4, SeqIs DEF MetAsserts
<1>6. AssertsMet(p) = Picked(Met(p), MetAsserts(p))
  BY DEF AssertsMet, Met, MetAsserts
<1>7. AssertsMet(p) \in Seq(A) /\ \E at : IsPicking(at, AssertsMet(p), Met(p), MetAsserts(p))
  <2> HIDE DEF w, A
  <2> QED
    BY <1>4, <1>5, <1>6, PickedPlaces
<1>8. ASSUME NEW i \in 1..Len(AssertsMet(p)) PROVE IsAssert(p, 1, AssertsMet(p)[i])
  <2>1. PICK at : IsPicking(at, AssertsMet(p), Met(p), MetAsserts(p))
    BY <1>7
  <2>2. at[i] \in MetAsserts(p) /\ AssertsMet(p)[i] = Met(p)[at[i]]
    BY <2>1 DEF IsPicking
  <2>3. AssertsMet(p)[i].kind = "assert"
    BY <2>2 DEF MetAsserts
  <2>4. AssertsMet(p)[i] \in A
    <3> HIDE DEF A
    <3> QED
      BY <1>7, SeqIs
  <2>5. PICK n \in DOMAIN p.blocks : AssertsMet(p)[i] \in Statements(p, n)
    BY <2>4 DEF AllStatements
  <2>6. IsAssert(p, n, AssertsMet(p)[i])
    BY <2>3, <2>5, StatementIs DEF IsApply, IsCall, IsIf
  <2> QED
    BY <2>6 DEF IsAssert
<1> QED
  BY <1>1, <1>4, <1>5, <1>6, <1>7, <1>8

-----------------------------------------------------------------------------
(* The added tables.                                                       *)

LEMMA SetToSeqIs ==
  ASSUME NEW S, IsFiniteSet(S)
  PROVE  SetToSeq(S) \in Seq(S) /\ Range(SetToSeq(S)) = S
<1>1. Cardinality(S) \in Nat /\ ExistsBijection(1..Cardinality(S), S)
  BY FS_CardinalityType
<1> DEFINE n == Cardinality(S)
<1>2. PICK f \in Bijection(1..n, S) : TRUE
  BY <1>1 DEF ExistsBijection
<1>3. f \in [1..n -> S] /\ IsInjective(f)
  BY <1>2 DEF Bijection, Injection, IsInjective
<1>4. SetToSeq(S) \in [1..n -> S] /\ IsInjective(SetToSeq(S))
  BY <1>3 DEF SetToSeq
<1> DEFINE g == SetToSeq(S)
<1> HIDE DEF g
<1>5. g \in Injection(1..n, S)
  BY <1>4 DEF Injection, IsInjective, g
<1>6. IsFiniteSet(1..n) /\ Cardinality(1..n) = n
  BY <1>1, FS_Interval
<1>7. g \in Surjection(1..n, S)
  BY <1>1, <1>5, <1>6, FS_Injection
<1>8. \A x \in S : \E i \in 1..n : g[i] = x
  BY <1>7 DEF Surjection
<1>9. g \in [1..n -> S]
  BY <1>4 DEF g
<1> HIDE DEF n
<1>10. g \in Seq(S) /\ Len(g) = n
  BY <1>1, <1>9, FunctionAsSeq DEF n
<1>11. Range(g) = S
  BY <1>8, <1>9 DEF Range
<1> QED
  BY <1>10, <1>11 DEF g

StateEntry(p, t) == [table |-> TState \o t, sets |-> TableState(p)[t]]
StateEntries(p) == {StateEntry(p, t) : t \in DOMAIN TableState(p)}
AssertEntry(n) == [table |-> AssertTable(n), sets |-> AssertBit(n)]
VisitedEntry == [table |-> VisitedType, sets |-> PktType]
PortEntry == [table |-> PortCorrection, sets |-> None]
Entry == [table : Seq(Nat), sets : Seq(Nat)]

LEMMA TableStateIs ==
  ASSUME NEW p \in Programs
  PROVE  \A t \in DOMAIN TableState(p) :
           /\ t \in DOMAIN p.tables /\ t \in Seq(Nat) /\ Name(t)
           /\ TableState(p)[t] \in DOMAIN p.actions /\ TableState(p)[t] \in Seq(Nat)
           /\ p.tables[t].actions = <<TableState(p)[t]>> /\ TableState(p)[t] \in StateActions(p)
<1> TAKE t \in DOMAIN TableState(p)
<1>1. /\ t \in DOMAIN p.tables /\ Len(p.tables[t].actions) = 1 /\ p.tables[t].actions[1] \in StateActions(p)
      /\ TableState(p)[t] = p.tables[t].actions[1]
  BY DEF TableState
<1>2. Name(t) /\ p.tables[t].actions \in Seq(DOMAIN p.actions)
  BY <1>1, ProgramIs
<1>3. p.tables[t].actions[1] \in DOMAIN p.actions
  BY <1>1 DEF StateActions
<1>4. Name(p.tables[t].actions[1])
  BY <1>3, ProgramIs
<1>5. p.tables[t].actions = <<p.tables[t].actions[1]>>
  <2> DEFINE s == p.tables[t].actions
  <2>1. s \in Seq(DOMAIN p.actions) /\ Len(s) = 1
    BY <1>1, <1>2
  <2> HIDE DEF s
  <2>2. s = <<s[1]>>
    BY <2>1
  <2> QED
    BY <2>2 DEF s
<1> QED
  BY <1>1, <1>2, <1>3, <1>4, <1>5, NameIs

LEMMA StateEntriesAre ==
  ASSUME NEW p \in Programs
  PROVE  /\ SetToSeq(StateEntries(p)) \in Seq(Entry)
         /\ Range(SetToSeq(StateEntries(p))) = StateEntries(p)
         /\ StateEntries(p) \subseteq Entry
<1> DEFINE P == {i \in 1..Len(p.order) : p.order[i] \in DOMAIN TableState(p)}
           f == [i \in P |-> StateEntry(p, p.order[i])]
           S == StateEntries(p)
<1>1. p.order \in Seq(Range(p.order)) /\ DOMAIN p.tables = Range(p.order)
  BY ProgramIs
<1>2. Len(p.order) \in Nat /\ DOMAIN p.order = 1..Len(p.order)
  BY <1>1, SeqIs
<1>3. IsFiniteSet(P)
  <2>1. IsFiniteSet(1..Len(p.order))
    BY <1>2, FS_Interval
  <2>2. P \in SUBSET (1..Len(p.order))
    OBVIOUS
  <2> HIDE DEF P
  <2> QED
    BY <2>1, <2>2, FS_Subset
<1>4. f \in Surjection(P, S)
  <2>1. \A i \in P : StateEntry(p, p.order[i]) \in S
    BY DEF StateEntries
  <2>2. \A e \in S : \E i \in P : StateEntry(p, p.order[i]) = e
    <3> TAKE e \in S
    <3>1. PICK t \in DOMAIN TableState(p) : e = StateEntry(p, t)
      BY DEF StateEntries
    <3>2. t \in Range(p.order)
      BY <1>1, TableStateIs
    <3>3. PICK i \in 1..Len(p.order) : p.order[i] = t
      BY <1>2, <3>2 DEF Range
    <3> QED
      BY <3>1, <3>3
  <2> HIDE DEF P, S
  <2>3. f \in [P -> S]
    BY <2>1
  <2>4. \A i \in P : f[i] = StateEntry(p, p.order[i])
    OBVIOUS
  <2> HIDE DEF f
  <2> QED
    BY <2>2, <2>3, <2>4 DEF Surjection
<1>5. IsFiniteSet(S)
  <2> HIDE DEF P, S, f
  <2> QED
    BY <1>3, <1>4, FS_Surjection
<1>6. S \subseteq Entry
  <2> SUFFICES ASSUME NEW t \in DOMAIN TableState(p) PROVE StateEntry(p, t) \in Entry
    BY DEF StateEntries
  <2>1. t \in Seq(Nat) /\ TableState(p)[t] \in Seq(Nat)
    BY TableStateIs
  <2>2. TState \o t \in Seq(Nat)
    BY <2>1 DEF TState
  <2> QED
    BY <2>1, <2>2 DEF StateEntry, Entry
<1>7. SetToSeq(S) \in Seq(S) /\ Range(SetToSeq(S)) = S
  <2> HIDE DEF S
  <2> QED
    BY <1>5, SetToSeqIs
<1>8. SetToSeq(S) \in Seq(Entry)
  <2> HIDE DEF S
  <2> QED
    BY <1>6, <1>7
<1> QED
  BY <1>6, <1>7, <1>8

AssertEntries(p) == [i \in DOMAIN AssertsMet(p) |-> AssertEntry(AssertsMet(p)[i].num)]
LEMMA AssertEntriesAre ==
  ASSUME NEW p \in Programs
  PROVE  /\ AssertEntries(p) \in Seq(Entry) /\ Len(AssertEntries(p)) = Len(AssertsMet(p))
         /\ \A i \in 1..Len(AssertsMet(p)) : /\ AssertEntries(p)[i] = AssertEntry(AssertsMet(p)[i].num)
                                             /\ AssertsMet(p)[i].num \in 0..(Len(p.asserts) - 1)
<1> DEFINE s == AssertsMet(p)
<1>1. s \in Seq(AllStatements(p)) /\ \A i \in 1..Len(s) : IsAssert(p, 1, s[i])
  BY MetIs
<1>2. Len(p.asserts) \in Nat
  BY HeaderIs
<1> HIDE DEF s
<1>3. Len(s) \in Nat /\ DOMAIN s = 1..Len(s)
  BY <1>1, SeqIs
<1>4. \A n \in Nat : AssertEntry(n) \in Entry
  <2> TAKE n \in Nat
  <2>1. <<53, n>> \in Seq(Nat) /\ <<54, n>> \in Seq(Nat)
    OBVIOUS
  <2>2. AssertTable(n) \in Seq(Nat) /\ AssertBit(n) \in Seq(Nat)
    BY <2>1 DEF AssertTable, AssertBit
  <2> QED
    BY <2>2 DEF AssertEntry, Entry
<1>5. \A i \in 1..Len(s) : s[i].num \in 0..(Len(p.asserts) - 1) /\ s[i].num \in Nat
  <2> TAKE i \in 1..Len(s)
  <2>1. s[i].num \in 0..(Len(p.asserts) - 1)
    BY <1>1 DEF IsAssert
  <2>2. \A k \in 0..(Len(p.asserts) - 1) : k \in Nat
    BY <1>2
  <2> QED
    BY <2>1, <2>2
<1>6. AssertEntries(p) = [i \in 1..Len(s) |-> AssertEntry(s[i].num)]
  BY <1>3 DEF AssertEntries, s
<1>7. AssertEntries(p) \in [1..Len(s) -> Entry]
  <2> HIDE DEF Entry
  <2> QED
    BY <1>4, <1>5, <1>6
<1> QED
  BY <1>3, <1>5, <1>6, <1>7, FunctionAsSeq DEF s

IsExtra(es, p) ==
  LET S == SetToSeq(StateEntries(p))
      n == Len(S)
      m == Len(AssertsMet(p))
  IN  /\ es \in Seq(Entry) /\ Len(es) = n + m + 2
      /\ \A i \in 1..n : es[i] = S[i]
      /\ \A i \in 1..m : es[n + i] = AssertEntry(AssertsMet(p)[i].num)
      /\ es[n + m + 1] = VisitedEntry /\ es[n + m + 2] = PortEntry
LEMMA ExtraIs ==
  ASSUME NEW p \in Programs
  PROVE  IsExtra(ExtraPort(p), p)
<1> DEFINE S == SetToSeq(StateEntries(p))
           A == AssertEntries(p)
<1>1. S \in Seq(Entry)
  BY StateEntriesAre
<1>2. A \in Seq(Entry) /\ Len(A) = Len(AssertsMet(p))
      /\ \A i \in 1..Len(AssertsMet(p)) : A[i] = AssertEntry(AssertsMet(p)[i].num)
  BY AssertEntriesAre
<1>3. ExtraState(p) = S
  <2>1. ExtraState(p) = <<>> \o S
    BY DEF ExtraState, StateEntries, StateEntry
  <2> HIDE DEF S
  <2> QED
    BY <1>1, <2>1
<1>4. ExtraAsserts(p) = S \o A
  BY <1>3 DEF ExtraAsserts, WithAsserts, AssertEntries, AssertEntry
<1>5. ExtraPort(p) = Append(Append(S \o A, VisitedEntry), PortEntry)
  BY <1>4 DEF ExtraPort, ExtraVisited, VisitedEntry, PortEntry
<1>6. VisitedEntry \in Entry /\ PortEntry \in Entry
  BY DEF VisitedEntry, PortEntry, Entry, VisitedType, PktType, PortCorrection, None
<1> HIDE DEF S, A, Entry
<1>7. IsConcat(S \o A, S, A, Entry)
  BY <1>1, <1>2, ConcatIs
<1> DEFINE c == S \o A
<1>8. c \in Seq(Entry) /\ Len(c) = Len(S) + Len(A) /\ (\A i \in 1..Len(S) : c[i] = S[i]) /\ \A i \in 1..Len(A) : c[Len(S) + i] = A[i]
  BY <1>7 DEF IsConcat
<1> HIDE DEF c
<1> DEFINE d == Append(c, VisitedEntry)
           e == Append(d, PortEntry)
<1>9. d \in Seq(Entry) /\ Len(d) = Len(c) + 1 /\ (\A i \in 1..Len(c) : d[i] = c[i]) /\ d[Len(c) + 1] = VisitedEntry
  BY <1>6, <1>8
<1> HIDE DEF d
<1>10. e \in Seq(Entry) /\ Len(e) = Len(d) + 1 /\ (\A i \in 1..Len(d) : e[i] = d[i]) /\ e[Len(d) + 1] = PortEntry
  BY <1>6, <1>9
<1>11. ExtraPort(p) = e
  BY <1>5 DEF c, d
<1> HIDE DEF e
<1>12. Len(S) \in Nat /\ Len(A) \in Nat /\ Len(c) \in Nat /\ Len(d) \in Nat
  BY <1>1, <1>2, <1>8, <1>9
<1>13. Len(e) = Len(S) + Len(A) + 2
  BY <1>8, <1>9, <1>10, <1>12
<1>14. \A i \in 1..Len(S) : e[i] = S[i]
  <2> TAKE i \in 1..Len(S)
  <2>1. i \in 1..Len(c) /\ i \in 1..Len(d)
    BY <1>8, <1>9, <1>12
  <2> QED
    BY <1>8, <1>9, <1>10, <2>1
<1>15. \A i \in 1..Len(A) : e[Len(S) + i] = A[i]
  <2> TAKE i \in 1..Len(A)
  <2>1. Len(S) + i \in 1..Len(c) /\ Len(S) + i \in 1..Len(d)
    BY <1>8, <1>9, <1>12
  <2> QED
    BY <1>8, <1>9, <1>10, <2>1
<1>16. e[Len(S) + Len(A) + 1] = VisitedEntry
  <2>1. Len(c) + 1 \in 1..Len(d) /\ Len(S) + Len(A) + 1 = Len(c) + 1
    BY <1>8, <1>9, <1>12
  <2> QED
    BY <1>9, <1>10, <2>1
<1>17. e[Len(S) + Len(A) + 2] = PortEntry
  BY <1>8, <1>9, <1>10, <1>12
<1> QED
  BY <1>2, <1>10, <1>11, <1>13, <1>14, <1>15, <1>16, <1>17 DEF IsExtra, S

LEMMA ExtraRange ==
  ASSUME NEW p \in Programs
  PROVE  /\ ExtraPort(p) \in Seq(Entry)
         /\ \A e : e \in Range(ExtraPort(p)) <=>
              \/ e \in StateEntries(p)
              \/ \E i \in 1..Len(AssertsMet(p)) : e = AssertEntry(AssertsMet(p)[i].num)
              \/ e = VisitedEntry \/ e = PortEntry
<1> DEFINE S == SetToSeq(StateEntries(p))
           n == Len(S)
           m == Len(AssertsMet(p))
           es == ExtraPort(p)
<1>1. /\ es \in Seq(Entry) /\ Len(es) = n + m + 2
      /\ \A i \in 1..n : es[i] = S[i]
      /\ \A i \in 1..m : es[n + i] = AssertEntry(AssertsMet(p)[i].num)
      /\ es[n + m + 1] = VisitedEntry /\ es[n + m + 2] = PortEntry
  BY ExtraIs DEF IsExtra
<1>2. S \in Seq(Entry) /\ Range(S) = StateEntries(p)
  BY StateEntriesAre
<1>3. m \in Nat
  BY MetIs, SeqIs
<1> HIDE DEF S, m, es
<1>4. n \in Nat /\ DOMAIN S = 1..n /\ DOMAIN es = 1..(n + m + 2)
  BY <1>1, <1>2, SeqIs
<1> HIDE DEF n
<1>5. \A e \in Range(es) : \/ e \in StateEntries(p)
                           \/ \E i \in 1..m : e = AssertEntry(AssertsMet(p)[i].num)
                           \/ e = VisitedEntry \/ e = PortEntry
  <2> TAKE e \in Range(es)
  <2>1. PICK j \in 1..(n + m + 2) : e = es[j]
    BY <1>4 DEF Range
  <2>2. CASE j \in 1..n
    BY <1>1, <1>2, <1>4, <2>1, <2>2 DEF Range
  <2>3. CASE j \in (n + 1)..(n + m)
    <3>1. j - n \in 1..m /\ j = n + (j - n)
      BY <1>3, <1>4, <2>3
    <3> QED
      BY <1>1, <2>1, <3>1
  <2>4. CASE j = n + m + 1 \/ j = n + m + 2
    BY <1>1, <2>1, <2>4
  <2> QED
    BY <1>3, <1>4, <2>2, <2>3, <2>4
<1>6. \A e \in StateEntries(p) : e \in Range(es)
  <2> TAKE e \in StateEntries(p)
  <2>1. PICK i \in 1..n : S[i] = e
    BY <1>2, <1>4 DEF Range
  <2>2. i \in 1..(n + m + 2)
    BY <1>3, <1>4
  <2> QED
    BY <1>1, <1>4, <2>1, <2>2 DEF Range
<1>7. \A i \in 1..m : AssertEntry(AssertsMet(p)[i].num) \in Range(es)
  <2> TAKE i \in 1..m
  <2>1. n + i \in 1..(n + m + 2)
    BY <1>3, <1>4
  <2> QED
    BY <1>1, <1>4, <2>1 DEF Range
<1>8. VisitedEntry \in Range(es) /\ PortEntry \in Range(es)
  <2>1. n + m + 1 \in DOMAIN es /\ n + m + 2 \in DOMAIN es
    BY <1>3, <1>4
  <2> QED
    BY <1>1, <2>1 DEF Range
<1> QED
  BY <1>1, <1>5, <1>6, <1>7, <1>8 DEF es, m

-----------------------------------------------------------------------------
(* The blocks at the end: every statement with what is put behind it.      *)

NewCase(p, n, i) == RenamedCase(Part(p, n, i), Range(PopularActions(p)))
Marking(p, s) == s.kind = "apply" /\ s.cases = <<>> /\ s.table \in DOMAIN TableState(p)
Markers(p, n, i) ==
  IF Marking(p, NewCase(p, n, i))
  THEN [k \in 1..Counted(<<n, i>>, Walked(p)) |-> Apply(TState \o NewCase(p, n, i).table)] ELSE <<>>
FinalParts(p, n) == [i \in DOMAIN p.blocks[n] |-> <<NewCase(p, n, i)>> \o Markers(p, n, i)]
Added(p) == {Apply(TState \o t) : t \in DOMAIN TableState(p)} \cup {Apply(PortCorrection), Apply(VisitedType)}
Finals(p, n) == {NewCase(p, n, i) : i \in DOMAIN p.blocks[n]} \cup Added(p)

LEMMA CountedIs ==
  ASSUME NEW X, NEW s \in Seq(X), NEW x
  PROVE  Counted(x, s) \in Nat /\ ((\E i \in 1..Len(s) : s[i] = x) => Counted(x, s) > 0)
<1> DEFINE T == {i \in DOMAIN s : s[i] = x}
<1>1. DOMAIN s = 1..Len(s) /\ Len(s) \in Nat
  BY SeqIs
<1>2. IsFiniteSet(1..Len(s)) /\ T \in SUBSET (1..Len(s))
  BY <1>1, FS_Interval
<1>3. Counted(x, s) = Cardinality(T)
  BY DEF Counted
<1>4. (\E i \in 1..Len(s) : s[i] = x) => T # {}
  BY <1>1
<1> HIDE DEF T
<1>5. IsFiniteSet(T)
  BY <1>2, FS_Subset
<1>6. Cardinality(T) \in Nat /\ (Cardinality(T) = 0 <=> T = {})
  BY <1>5, FS_CardinalityType, FS_EmptySet
<1> QED
  BY <1>3, <1>4, <1>6

LEMMA RenamedCaseKeeps ==
  ASSUME NEW p, NEW n, NEW s \in Statements(p, n), NEW names
  PROVE  /\ RenamedCase(s, names).kind = s.kind
         /\ s.kind # "apply" => RenamedCase(s, names) = s
         /\ s.kind = "apply" =>
              /\ RenamedCase(s, names).table = s.table
              /\ s.cases = <<>> => RenamedCase(s, names) = s
              /\ s.cases # <<>> => RenamedCase(s, names).cases # <<>>
<1>1. CASE s.kind # "apply"
  BY <1>1 DEF RenamedCase
<1>2. CASE s.kind = "apply"
  <2>1. IsApply(p, n, s)
    BY <1>2, StatementIs DEF IsCall, IsIf, IsAssert
  <2>2. CASE s.cases = <<>>
    BY <1>2, <2>2 DEF RenamedCase
  <2>3. CASE s.cases # <<>>
    <3> DEFINE C == [on : DOMAIN p.actions, block : 1..(n - 1)]
    <3>1. s = [kind |-> "apply", table |-> s.table, cases |-> s.cases] /\ s.cases \in Seq(C)
      BY <2>1 DEF IsApply
    <3> HIDE DEF C
    <3>2. 1 \in DOMAIN s.cases /\ DOMAIN s.cases = 1..Len(s.cases)
      BY <2>3, <3>1
    <3> DEFINE r == [s EXCEPT !.cases[1].on = Distinct(@, s.table)]
    <3>3. r.kind = "apply" /\ r.table = s.table /\ r.cases = [s.cases EXCEPT ![1].on = Distinct(@, s.table)]
      BY <3>1
    <3>4. r.cases # <<>>
      <4>1. DOMAIN r.cases = DOMAIN s.cases
        BY <3>3
      <4> HIDE DEF r
      <4>2. 1 \in DOMAIN r.cases
        BY <3>2, <4>1
      <4> QED
        BY <4>2
    <3>5. RenamedCase(s, names) = s \/ RenamedCase(s, names) = r
      BY DEF RenamedCase
    <3> HIDE DEF r
    <3> QED
      BY <1>2, <2>3, <3>3, <3>4, <3>5
  <2> QED
    BY <1>2, <2>2, <2>3
<1> QED
  BY <1>1, <1>2

LEMMA BehindIs ==
  ASSUME NEW p, NEW n
  PROVE  Behind(p, n) \in Seq({Apply(PortCorrection), Apply(VisitedType)})
<1> DEFINE X == {Apply(PortCorrection), Apply(VisitedType)}
<1>1. Apply(PortCorrection) \in X /\ Apply(VisitedType) \in X
  OBVIOUS
<1> DEFINE s == IF n = p.roots[1] THEN <<Apply(PortCorrection)>> ELSE <<>>
           t == IF n \in Range(Tail(p.roots)) THEN <<Apply(VisitedType)>> ELSE <<>>
<1>2. Behind(p, n) = s \o t
  BY DEF Behind
<1> HIDE DEF X
<1>3. <<>> \in Seq(X) /\ <<Apply(PortCorrection)>> \in Seq(X) /\ <<Apply(VisitedType)>> \in Seq(X)
  BY <1>1
<1>4. s \in Seq(X) /\ t \in Seq(X)
  BY <1>3
<1> HIDE DEF s, t
<1>5. Behind(p, n) \in Seq(X)
  BY <1>2, <1>4
<1> QED
  BY <1>5 DEF X

LEMMA MarkersAre ==
  ASSUME NEW p \in Programs, NEW n \in DOMAIN p.blocks, NEW i \in DOMAIN p.blocks[n]
  PROVE  Markers(p, n, i) \in Seq(Added(p))
<1> DEFINE c == Counted(<<n, i>>, Walked(p))
           e == Apply(TState \o NewCase(p, n, i).table)
<1>1. c \in Nat
  BY WalkedIs, CountedIs
<1>2. CASE Marking(p, NewCase(p, n, i))
  <2>1. e \in Added(p)
    BY <1>2 DEF Added, Marking
  <2>2. Markers(p, n, i) = [k \in 1..c |-> e]
    BY <1>2 DEF Markers
  <2> HIDE DEF c, e
  <2>3. Markers(p, n, i) \in [1..c -> Added(p)]
    BY <2>1, <2>2
  <2> QED
    BY <1>1, <2>3, FunctionAsSeq
<1>3. CASE ~ Marking(p, NewCase(p, n, i))
  <2>1. Markers(p, n, i) = <<>>
    BY <1>3 DEF Markers
  <2> QED
    BY <2>1
<1> QED
  BY <1>2, <1>3

LEMMA FinalPartsAre ==
  ASSUME NEW p \in Programs, NEW n \in DOMAIN p.blocks
  PROVE  /\ FinalParts(p, n) \in Seq(Seq(Finals(p, n))) /\ Len(FinalParts(p, n)) = Len(p.blocks[n])
         /\ \A i \in DOMAIN p.blocks[n] :
              FinalParts(p, n)[i] = <<NewCase(p, n, i)>> \o Markers(p, n, i)
<1> DEFINE X == Finals(p, n)
<1>1. DOMAIN p.blocks[n] = 1..Len(p.blocks[n]) /\ Len(p.blocks[n]) \in Nat
  BY BlocksAre
<1>2. ASSUME NEW i \in DOMAIN p.blocks[n] PROVE <<NewCase(p, n, i)>> \o Markers(p, n, i) \in Seq(X)
  <2>1. NewCase(p, n, i) \in X /\ Added(p) \subseteq X
    BY DEF Finals
  <2>2. Markers(p, n, i) \in Seq(Added(p))
    BY MarkersAre
  <2> HIDE DEF X
  <2>3. Markers(p, n, i) \in Seq(X) /\ <<NewCase(p, n, i)>> \in Seq(X)
    BY <2>1, <2>2
  <2> QED
    BY <2>3
<1>3. FinalParts(p, n) \in [1..Len(p.blocks[n]) -> Seq(X)]
  <2> HIDE DEF X
  <2> QED
    BY <1>1, <1>2 DEF FinalParts
<1>4. FinalParts(p, n) \in Seq(Seq(X)) /\ Len(FinalParts(p, n)) = Len(p.blocks[n])
  <2> HIDE DEF X
  <2> QED
    BY <1>1, <1>3, FunctionAsSeq
<1> QED
  BY <1>4 DEF FinalParts

LEMMA BlocksFinal ==
  ASSUME NEW p \in Programs
  PROVE  /\ DOMAIN BlocksEnded(p) = DOMAIN p.blocks
         /\ \A n \in DOMAIN p.blocks :
              /\ BlocksEnded(p)[n] = FlattenSeq(FinalParts(p, n)) \o Behind(p, n)
              /\ BlocksEnded(p)[n] \in Seq(Finals(p, n))
              /\ Behind(p, n) \in Seq(Finals(p, n))
<1>1. DOMAIN BlocksRenamed(p) = DOMAIN p.blocks /\ DOMAIN BlocksMarked(p) = DOMAIN p.blocks /\ DOMAIN BlocksEnded(p) = DOMAIN p.blocks
  BY DEF BlocksRenamed, RenamedCases, BlocksMarked, WithMarkers, BlocksEnded, BlocksWithEnds
<1>2. ASSUME NEW n \in DOMAIN p.blocks
      PROVE  /\ BlocksEnded(p)[n] = FlattenSeq(FinalParts(p, n)) \o Behind(p, n)
             /\ BlocksEnded(p)[n] \in Seq(Finals(p, n))
             /\ Behind(p, n) \in Seq(Finals(p, n))
  <2> DEFINE bs == BlocksRenamed(p)
             part(i) == <<bs[n][i]>> \o
                          IF bs[n][i].kind = "apply" /\ bs[n][i].cases = <<>> /\ bs[n][i].table \in DOMAIN TableState(p)
                          THEN [k \in 1..Counted(<<n, i>>, Walked(p)) |-> Apply(TState \o bs[n][i].table)] ELSE <<>>
  <2>1. DOMAIN bs[n] = DOMAIN p.blocks[n] /\ \A i \in DOMAIN p.blocks[n] : bs[n][i] = NewCase(p, n, i)
    BY DEF BlocksRenamed, RenamedCases, NewCase, Part
  <2>2. BlocksMarked(p)[n] = FlattenSeq([i \in DOMAIN bs[n] |-> part(i)])
    BY <1>1 DEF BlocksMarked, WithMarkers
  <2>3. \A i \in DOMAIN p.blocks[n] : part(i) = <<NewCase(p, n, i)>> \o Markers(p, n, i)
    <3> TAKE i \in DOMAIN p.blocks[n]
    <3>1. bs[n][i] = NewCase(p, n, i)
      BY <2>1
    <3> HIDE DEF bs
    <3> QED
      BY <3>1 DEF Markers, Marking
  <2> HIDE DEF bs, part
  <2>4. BlocksMarked(p)[n] = FlattenSeq(FinalParts(p, n))
    <3>1. [i \in DOMAIN bs[n] |-> part(i)] = FinalParts(p, n)
      BY <2>1, <2>3 DEF FinalParts
    <3> QED
      BY <2>2, <3>1
  <2>5. BlocksEnded(p)[n] = FlattenSeq(FinalParts(p, n)) \o Behind(p, n)
    BY <1>1, <2>4 DEF BlocksEnded, BlocksWithEnds
  <2>6. FlattenSeq(FinalParts(p, n)) \in Seq(Finals(p, n))
    BY FinalPartsAre, FlattenTyped
  <2>7. Behind(p, n) \in Seq(Finals(p, n))
    <3>1. {Apply(PortCorrection), Apply(VisitedType)} \subseteq Finals(p, n)
      BY DEF Finals, Added
    <3>2. Behind(p, n) \in Seq({Apply(PortCorrection), Apply(VisitedType)})
      BY BehindIs
    <3> DEFINE Y == {Apply(PortCorrection), Apply(VisitedType)}
    <3> HIDE DEF Y
    <3>3. Y \subseteq Finals(p, n) /\ Behind(p, n) \in Seq(Y)
      BY <3>1, <3>2 DEF Y
    <3> QED
      BY <3>3
  <2> QED
    BY <2>5, <2>6, <2>7
<1> QED
  BY <1>1, <1>2

-----------------------------------------------------------------------------
(* The maps are in order after every pass.                                 *)

TablesDeclared ==
  \A n \in DOMAIN blocks : \A s \in Range(blocks[n]) : s.kind = "apply" => s.table \in DOMAIN InstrumentedActions

LEMMA EndsDeclared == PassesMade /\ Done => TablesDeclared
<1> SUFFICES ASSUME PassesMade, Done, NEW n \in DOMAIN blocks, NEW s \in Range(blocks[n]), s.kind = "apply"
             PROVE  s.table \in DOMAIN InstrumentedActions
  BY DEF TablesDeclared
<1>1. prog \in Programs /\ blocks = BlocksEnded(prog) /\ extra = ExtraPort(prog)
  BY DoneMade
<1>2. DOMAIN InstrumentedActions = DOMAIN prog.tables \cup {e.table : e \in Range(ExtraPort(prog))}
  BY <1>1 DEF InstrumentedActions, ProgramTables
<1>3. n \in DOMAIN prog.blocks /\ blocks[n] \in Seq(Finals(prog, n))
  BY <1>1, BlocksFinal
<1>4. s \in Finals(prog, n)
  BY <1>3, InRange
<1>5. CASE s \in {NewCase(prog, n, i) : i \in DOMAIN prog.blocks[n]}
  <2>1. PICK i \in DOMAIN prog.blocks[n] : s = NewCase(prog, n, i)
    BY <1>5
  <2>2. Part(prog, n, i) \in Statements(prog, n)
    BY <1>1, <1>3, BlocksAre
  <2>3. s.kind = Part(prog, n, i).kind /\ s.table = Part(prog, n, i).table
    BY <2>1, <2>2, RenamedCaseKeeps DEF NewCase
  <2>4. IsApply(prog, n, Part(prog, n, i))
    BY <2>2, <2>3, StatementIs DEF IsCall, IsIf, IsAssert
  <2> QED
    BY <1>2, <2>3, <2>4 DEF IsApply
<1>6. CASE s \in Added(prog)
  <2>1. CASE \E t \in DOMAIN TableState(prog) : s = Apply(TState \o t)
    <3>1. PICK t \in DOMAIN TableState(prog) : s = Apply(TState \o t)
      BY <2>1
    <3>2. s.table = TState \o t
      BY <3>1 DEF Apply
    <3>3. StateEntry(prog, t) \in Range(ExtraPort(prog)) /\ StateEntry(prog, t).table = TState \o t
      BY <1>1, ExtraRange DEF StateEntries, StateEntry
    <3> QED
      BY <1>2, <3>2, <3>3
  <2>2. CASE s = Apply(PortCorrection)
    <3>1. PortEntry \in Range(ExtraPort(prog)) /\ PortEntry.table = s.table
      BY <1>1, <2>2, ExtraRange DEF PortEntry, Apply
    <3> QED
      BY <1>2, <3>1
  <2>3. CASE s = Apply(VisitedType)
    <3>1. VisitedEntry \in Range(ExtraPort(prog)) /\ VisitedEntry.table = s.table
      BY <1>1, <2>3, ExtraRange DEF VisitedEntry, Apply
    <3> QED
      BY <1>2, <3>1
  <2> QED
    BY <1>6, <2>1, <2>2, <2>3 DEF Added
<1> QED
  BY <1>4, <1>5, <1>6 DEF Finals

LEMMA TypeOKHolds == PassesMade => TypeOK
<1> SUFFICES ASSUME PassesMade PROVE TypeOK
  OBVIOUS
<1>1. prog \in Programs /\ pass \in DOMAIN At /\ BlocksMade /\ TablesMade /\ MapsMade
  BY DEF PassesMade
<1>2. IsInjective(popular) /\ Range(popular) \subseteq DOMAIN prog.actions
  <2>1. CASE popular = <<>>
    BY <2>1 DEF IsInjective, Range
  <2>2. CASE popular = PopularActions(prog)
    <3>1. PopularActions(prog) \in Seq(DOMAIN prog.actions) /\ IsInjective(PopularActions(prog))
      BY <1>1, PopularAre
    <3> QED
      BY <2>2, <3>1, InRange
  <2> QED
    BY <1>1, <2>1, <2>2 DEF MapsMade
<1>3. Len(bits) \in {0, Len(Mentions(prog))}
  <2>1. bits = <<>> \/ bits = Bits(prog) \/ bits = InOrder(Bits(prog))
    BY <1>1 DEF MapsMade
  <2>2. Len(Bits(prog)) = Len(Mentions(prog)) /\ Len(InOrder(Bits(prog))) = Len(Mentions(prog))
    BY <1>1, BitsAre, HeaderIs
  <2>3. Len(<<>>) = 0
    OBVIOUS
  <2> QED
    BY <2>1, <2>2, <2>3
<1>4. DOMAIN tables = ProgramTables
  <2>1. tables = prog.tables \/ tables = TablesCopied(prog) \/ tables = TablesRenamed(prog)
    BY <1>1 DEF TablesMade
  <2>2. DOMAIN TablesCopied(prog) = DOMAIN prog.tables
    BY DEF TablesCopied
  <2>3. DOMAIN TablesRenamed(prog) = DOMAIN prog.tables
    BY <2>2 DEF TablesRenamed, TablesDefault
  <2> QED
    BY <2>1, <2>2, <2>3 DEF ProgramTables
<1>5. DOMAIN blocks = DOMAIN prog.blocks
  <2>1. blocks = prog.blocks \/ blocks = BlocksRenamed(prog) \/ blocks = BlocksMarked(prog) \/ blocks = BlocksEnded(prog)
    BY <1>1 DEF BlocksMade
  <2>2. DOMAIN BlocksRenamed(prog) = DOMAIN prog.blocks
    BY DEF BlocksRenamed, RenamedCases
  <2>3. DOMAIN BlocksMarked(prog) = DOMAIN prog.blocks
    BY <2>2 DEF BlocksMarked, WithMarkers
  <2>4. DOMAIN BlocksEnded(prog) = DOMAIN prog.blocks
    BY <1>1, BlocksFinal
  <2> QED
    BY <2>1, <2>2, <2>3, <2>4
<1>6. Done => TablesDeclared
  BY EndsDeclared
<1> QED
  BY <1>1, <1>2, <1>3, <1>4, <1>5, <1>6 DEF TypeOK, TablesDeclared

-----------------------------------------------------------------------------
(* The header's fields have names of their own.                            *)

NoWord(x) == x \in Seq(Nat) /\ (x = <<>> \/ x[1] \notin 51..59)

LEMMA BitIsNoWord ==
  ASSUME NEW p \in Programs, NEW a \in DOMAIN p.actions, NEW t \in DOMAIN p.tables
  PROVE  NoWord(BitOf(ActionTables(p), a, t))
<1> DEFINE x == BitOf(ActionTables(p), a, t)
<1>1. x \in Seq(Nat) /\ Name(a) /\ Name(t) /\ (x = a \/ x = Distinct(a, t))
  BY BitIs
<1>2. a \in Seq(Nat) /\ Len(a) \in Nat /\ (\A i \in 1..Len(a) : a[i] \notin 51..59) /\ t \in Seq(Nat)
  BY <1>1, NameIs
<1>3. a = <<>> \/ 1 \in 1..Len(a)
  BY <1>2
<1>4. NoWord(a)
  <2>1. a # <<>> => a[1] \notin 51..59
    BY <1>2, <1>3
  <2> QED
    BY <1>2, <2>1 DEF NoWord
<1>5. NoWord(Distinct(a, t))
  <2> DEFINE d == Distinct(a, t)
  <2>1. /\ d \in Seq(Nat) /\ \A i \in 1..Len(a) : d[i] = a[i]
        /\ d[Len(a) + 1] = 50
    BY <1>2, DistinctIs DEF IsDistinct
  <2> HIDE DEF d
  <2>2. d[1] \notin 51..59
    <3>1. CASE Len(a) = 0
      <4>1. d[1] = 50
        BY <2>1, <3>1
      <4> QED
        BY <4>1
    <3>2. CASE Len(a) # 0
      <4>1. 1 \in 1..Len(a)
        BY <1>2, <3>2
      <4>2. d[1] = a[1] /\ a[1] \notin 51..59
        BY <1>2, <2>1, <4>1
      <4> QED
        BY <4>2
    <3> QED
      BY <3>1, <3>2
  <2>3. NoWord(d)
    BY <2>1, <2>2 DEF NoWord
  <2> QED
    BY <2>3 DEF d
<1> QED
  BY <1>1, <1>4, <1>5

LEMMA WordsAreWords ==
  /\ ~ NoWord(<<57>>) /\ ~ NoWord(<<58>>) /\ ~ NoWord(<<59>>)
  /\ \A i : ~ NoWord(<<54, i>>)
<1>1. 57 \in 51..59 /\ 58 \in 51..59 /\ 59 \in 51..59 /\ 54 \in 51..59
  OBVIOUS
<1>2. ASSUME NEW x, x # <<>>, x[1] \in 51..59 PROVE ~ NoWord(x)
  BY <1>2 DEF NoWord
<1>3. /\ <<57>> # <<>> /\ <<57>>[1] = 57 /\ <<58>> # <<>> /\ <<58>>[1] = 58 /\ <<59>> # <<>> /\ <<59>>[1] = 59
      /\ \A i : <<54, i>> # <<>> /\ <<54, i>>[1] = 54
  OBVIOUS
<1> QED
  BY <1>1, <1>2, <1>3

LEMMA FieldsTellApart ==
  ASSUME NEW names \in Seq(Seq(Nat)), NEW asserts \in Nat, NEW h, IsLayout(h, names, asserts),
         \A i \in 1..Len(names) : NoWord(names[i]),
         \A i, j \in 1..Len(names) : names[i] = names[j] => i = j
  PROVE  \A j, k \in 1..Len(h) : h[j][1] = h[k][1] => j = k
<1> DEFINE n == Len(names)
           left == (n + asserts + 50) % 8
<1>1. n \in Nat
  OBVIOUS
<1>2. /\ h \in Seq(Field) /\ left \in 0..7
      /\ Len(h) = 2 + n + asserts + (IF left > 0 THEN 1 ELSE 0)
      /\ h[1] = <<Preamble, 48>> /\ h[2] = <<PktType, 2>>
      /\ \A i \in 1..n : h[2 + i] = <<names[i], 1>>
      /\ \A i \in 1..asserts : h[2 + n + i] = <<AssertBit(i - 1), 1>>
      /\ left > 0 => h[3 + n + asserts] = <<Pad, 8 - left>>
  BY DEF IsLayout
<1> HIDE DEF n, left
<1> DEFINE At3(j) == j \in 3..(2 + n)
           At4(j) == j \in (3 + n)..(2 + n + asserts)
           At5(j) == left > 0 /\ j = 3 + n + asserts
           x(j) == h[j][1]
<1>3. \A j \in 1..Len(h) : j = 1 \/ j = 2 \/ At3(j) \/ At4(j) \/ At5(j)
  BY <1>1, <1>2
<1>4. x(1) = <<57>> /\ x(2) = <<58>>
  BY <1>2 DEF Preamble, PktType
<1>5. \A j \in 1..Len(h) : At3(j) => j - 2 \in 1..n /\ x(j) = names[j - 2] /\ NoWord(x(j))
  <2> SUFFICES ASSUME NEW j \in 1..Len(h), At3(j) PROVE j - 2 \in 1..n /\ x(j) = names[j - 2] /\ NoWord(x(j))
    OBVIOUS
  <2>1. j - 2 \in 1..n /\ j = 2 + (j - 2)
    BY <1>1
  <2>2. h[j] = <<names[j - 2], 1>>
    BY <1>2, <2>1
  <2>3. x(j) = names[j - 2]
    BY <2>2
  <2> QED
    BY <2>1, <2>3 DEF n
<1>6. \A j \in 1..Len(h) : At4(j) => x(j) = <<54, j - 3 - n>>
  <2> SUFFICES ASSUME NEW j \in 1..Len(h), At4(j) PROVE x(j) = <<54, j - 3 - n>>
    OBVIOUS
  <2>1. j - 2 - n \in 1..asserts /\ j = 2 + n + (j - 2 - n) /\ (j - 2 - n) - 1 = j - 3 - n
    BY <1>1
  <2>2. h[j] = <<AssertBit((j - 2 - n) - 1), 1>>
    BY <1>2, <2>1
  <2> QED
    BY <2>1, <2>2 DEF AssertBit
<1>7. \A j \in 1..Len(h) : At5(j) => x(j) = <<59>>
  BY <1>2 DEF Pad
<1> SUFFICES ASSUME NEW j \in 1..Len(h), NEW k \in 1..Len(h), x(j) = x(k) PROVE j = k
  OBVIOUS
<1>8. At3(j) => At3(k)
  <2> SUFFICES ASSUME At3(j), ~ At3(k) PROVE FALSE
    OBVIOUS
  <2>1. NoWord(x(k))
    BY <1>5
  <2>2. x(k) = <<57>> \/ x(k) = <<58>> \/ x(k) = <<54, k - 3 - n>> \/ x(k) = <<59>>
    BY <1>3, <1>4, <1>6, <1>7
  <2> QED
    BY <2>1, <2>2, WordsAreWords
<1>9. At3(k) => At3(j)
  <2> SUFFICES ASSUME At3(k), ~ At3(j) PROVE FALSE
    OBVIOUS
  <2>1. NoWord(x(j))
    BY <1>5
  <2>2. x(j) = <<57>> \/ x(j) = <<58>> \/ x(j) = <<54, j - 3 - n>> \/ x(j) = <<59>>
    BY <1>3, <1>4, <1>6, <1>7
  <2> QED
    BY <2>1, <2>2, WordsAreWords
<1>10. CASE At3(j)
  <2>1. names[j - 2] = names[k - 2] /\ j - 2 \in 1..Len(names) /\ k - 2 \in 1..Len(names)
    BY <1>5, <1>8, <1>10 DEF n
  <2>2. j - 2 = k - 2
    BY <2>1
  <2> QED
    BY <2>2
<1>11. CASE ~ At3(j)
  <2> DEFINE Tells(i) == (i = 1 /\ x(i)[1] = 57) \/ (i = 2 /\ x(i)[1] = 58) \/ (At4(i) /\ x(i)[1] = 54) \/ (At5(i) /\ x(i)[1] = 59)
  <2>0. ASSUME NEW i \in 1..Len(h), ~ At3(i) PROVE Tells(i)
    <3>1. CASE i = 1 \/ i = 2
      BY <1>4, <3>1
    <3>2. CASE At4(i)
      BY <1>6, <3>2
    <3>3. CASE At5(i)
      BY <1>7, <3>3
    <3> QED
      BY <1>3, <2>0, <3>1, <3>2, <3>3
  <2>1. Tells(j) /\ Tells(k)
    BY <1>9, <1>11, <2>0
  <2>2. CASE At4(j)
    <3>1. At4(k)
      <4>1. x(j)[1] = 54
        BY <1>6, <2>2
      <4> HIDE DEF x, At3, At4, At5
      <4> QED
        BY <2>1, <4>1
    <3>2. x(j)[2] = j - 3 - n /\ x(k)[2] = k - 3 - n
      BY <1>6, <2>2, <3>1
    <3> QED
      BY <1>1, <3>2
  <2>3. CASE At5(j)
    <3>1. At5(k)
      <4>1. x(j)[1] = 59
        BY <1>7, <2>3
      <4> HIDE DEF x, At3, At4, At5
      <4> QED
        BY <2>1, <4>1
    <3> QED
      BY <2>3, <3>1
  <2>4. CASE j = 1 \/ j = 2
    <3>1. (x(j)[1] = 57 /\ j = 1) \/ (x(j)[1] = 58 /\ j = 2)
      BY <1>4, <2>4
    <3> HIDE DEF x, At3, At4, At5
    <3> QED
      BY <2>1, <3>1
  <2> QED
    BY <1>3, <1>11, <2>2, <2>3, <2>4
<1> QED
  BY <1>10, <1>11

DeclaredOnce(p, f) == Cardinality({i \in DOMAIN HeaderOf(p) : HeaderOf(p)[i][1] = f}) = 1

LEMMA HeaderNames ==
  ASSUME NEW p \in Programs
  PROVE  /\ \A k \in 1..Len(InOrder(Bits(p))) : NoWord(InOrder(Bits(p))[k])
         /\ \A i, j \in 1..Len(InOrder(Bits(p))) : InOrder(Bits(p))[i] = InOrder(Bits(p))[j] => i = j
<1> DEFINE b == Bits(p)
           m == Len(Mentions(p))
<1>1. /\ b \in Seq(Seq(Nat)) /\ Len(b) = m /\ m \in Nat
      /\ \A k \in 1..m : b[k] = BitOf(ActionTables(p), Mentions(p)[k][1], Mentions(p)[k][2])
      /\ \A k, l \in 1..m : b[k] = b[l] => k = l
  BY BitsAre
<1>2. ASSUME NEW k \in 1..m PROVE NoWord(b[k])
  <2>1. Mentions(p)[k] \in Pairs(p)
    BY MentionsAre
  <2>2. Mentions(p)[k][1] \in DOMAIN p.actions /\ Mentions(p)[k][2] \in DOMAIN p.tables
    BY <2>1, InPairs
  <2> HIDE DEF b
  <2> QED
    BY <1>1, <2>2, BitIsNoWord
<1> HIDE DEF b, m
<1>3. /\ Len(InOrder(b)) = m
      /\ \A k \in 1..m : \E i \in 1..m : k = Place(b, i) /\ InOrder(b)[k] = b[i]
  BY <1>1, InOrderIs
<1>4. \A k \in 1..m : NoWord(InOrder(b)[k])
  BY <1>2, <1>3
<1>5. ASSUME NEW k \in 1..m, NEW l \in 1..m, InOrder(b)[k] = InOrder(b)[l] PROVE k = l
  <2>1. PICK i \in 1..m : k = Place(b, i) /\ InOrder(b)[k] = b[i]
    BY <1>3
  <2>2. PICK j \in 1..m : l = Place(b, j) /\ InOrder(b)[l] = b[j]
    BY <1>3
  <2>3. i = j
    BY <1>1, <1>5, <2>1, <2>2
  <2> QED
    BY <2>1, <2>2, <2>3
<1> QED
  BY <1>3, <1>4, <1>5 DEF b

LEMMA DeclaredIs ==
  ASSUME NEW p \in Programs
  PROVE  /\ \A t \in DOMAIN p.tables : \A a \in Range(p.tables[t].actions) : DeclaredOnce(p, BitOf(ActionTables(p), a, t))
         /\ \A n \in 0..(Len(p.asserts) - 1) : DeclaredOnce(p, AssertBit(n))
         /\ DeclaredOnce(p, PktType)
<1> DEFINE h == HeaderOf(p)
           names == InOrder(Bits(p))
           asserts == Len(p.asserts)
           n == Len(names)
<1>1. IsLayout(h, names, asserts) /\ names \in Seq(Seq(Nat)) /\ n = Len(Mentions(p)) /\ asserts \in Nat
  BY HeaderIs
<1>2. (\A k \in 1..n : NoWord(names[k])) /\ \A i, j \in 1..n : names[i] = names[j] => i = j
  BY HeaderNames
<1>3. \A j, k \in 1..Len(h) : h[j][1] = h[k][1] => j = k
  <2> HIDE DEF h, names, asserts
  <2> QED
    BY <1>1, <1>2, FieldsTellApart
<1>4. /\ h \in Seq(Field) /\ Len(h) >= 2 + n + asserts /\ n \in Nat
      /\ h[2] = <<PktType, 2>>
      /\ \A i \in 1..n : h[2 + i] = <<names[i], 1>>
      /\ \A i \in 1..asserts : h[2 + n + i] = <<AssertBit(i - 1), 1>>
  <2>1. n \in Nat
    <3> HIDE DEF h, names, asserts
    <3> QED
      BY <1>1
  <2> HIDE DEF h, names, asserts
  <2>2. Len(h) = 2 + n + asserts + (IF (n + asserts + 50) % 8 > 0 THEN 1 ELSE 0)
    BY <1>1 DEF IsLayout
  <2>3. (n + asserts + 50) % 8 \in 0..7
    BY <1>1 DEF IsLayout
  <2> DEFINE left == (n + asserts + 50) % 8
  <2>4. Len(h) >= 2 + n + asserts
    <3>1. Len(h) = 2 + n + asserts + (IF left > 0 THEN 1 ELSE 0) /\ left \in 0..7
      BY <2>2, <2>3
    <3> HIDE DEF n, left
    <3> QED
      BY <1>1, <2>1, <3>1
  <2>5. /\ h \in Seq(Field) /\ h[2] = <<PktType, 2>>
        /\ \A i \in 1..n : h[2 + i] = <<names[i], 1>>
        /\ \A i \in 1..asserts : h[2 + n + i] = <<AssertBit(i - 1), 1>>
    BY <1>1 DEF IsLayout
  <2> QED
    BY <2>1, <2>4, <2>5
<1>5. Len(h) \in Nat /\ DOMAIN h = 1..Len(h)
  BY <1>4, SeqIs
<1>6. ASSUME NEW f, NEW j \in 1..Len(h), h[j][1] = f PROVE DeclaredOnce(p, f)
  <2>1. {i \in DOMAIN h : h[i][1] = f} = {j}
    <3> HIDE DEF h
    <3> QED
      BY <1>3, <1>5, <1>6
  <2>2. Cardinality({j}) = 1
    BY FS_Singleton
  <2> QED
    BY <2>1, <2>2 DEF DeclaredOnce
<1>7. ASSUME NEW t \in DOMAIN p.tables, NEW a \in Range(p.tables[t].actions)
      PROVE  DeclaredOnce(p, BitOf(ActionTables(p), a, t))
  <2>1. PICK k \in 1..Len(Mentions(p)) : Bits(p)[k] = BitOf(ActionTables(p), a, t)
    BY BitsAre
  <2>2. Bits(p) \in Seq(Seq(Nat)) /\ Len(Bits(p)) = n
    BY <1>1, BitsAre
  <2>3. Place(Bits(p), k) \in 1..n /\ names[Place(Bits(p), k)] = Bits(p)[k]
    BY <1>1, <2>2, InOrderIs
  <2> DEFINE l == Place(Bits(p), k)
  <2> HIDE DEF l, h, names, n, asserts
  <2>4. h[2 + l][1] = BitOf(ActionTables(p), a, t) /\ 2 + l \in 1..Len(h)
    <3>1. l \in 1..n /\ names[l] = BitOf(ActionTables(p), a, t)
      BY <2>1, <2>3 DEF l
    <3>2. h[2 + l] = <<names[l], 1>>
      BY <1>4, <3>1
    <3>3. 2 + l \in 1..Len(h)
      BY <1>1, <1>4, <1>5, <3>1
    <3> QED
      BY <3>1, <3>2, <3>3
  <2> QED
    BY <1>6, <2>4
<1>8. ASSUME NEW i \in 0..(asserts - 1) PROVE DeclaredOnce(p, AssertBit(i))
  <2> HIDE DEF h, names, n, asserts
  <2>1. i + 1 \in 1..asserts /\ (i + 1) - 1 = i
    BY <1>1
  <2>2. h[2 + n + (i + 1)] = <<AssertBit((i + 1) - 1), 1>>
    BY <1>4, <2>1
  <2>3. h[2 + n + (i + 1)][1] = AssertBit(i) /\ 2 + n + (i + 1) \in 1..Len(h)
    BY <1>1, <1>4, <1>5, <2>1, <2>2
  <2> QED
    BY <1>6, <2>3
<1>9. DeclaredOnce(p, PktType)
  <2> HIDE DEF h, names, n, asserts
  <2>1. h[2][1] = PktType /\ 2 \in 1..Len(h)
    BY <1>1, <1>4, <1>5
  <2> QED
    BY <1>6, <2>1
<1> QED
  BY <1>7, <1>8, <1>9

-----------------------------------------------------------------------------
(* The actions as they are printed.                                        *)

Ops == {"drop", "forward", "exec", "other", "mark", "redirect"}
Statement == [op : Ops, field : Seq(Nat)]
Drops(stmts) == {i \in DOMAIN stmts : stmts[i].op = "drop"}
(* All but the drops, then as many redirections as there were drops.       *)
IsRedirected(r, stmts, at, k) ==
  /\ r \in Seq(Statement) /\ k \in Nat /\ k =< Len(r)
  /\ \A i \in 1..k : at[i] \in DOMAIN stmts \ Drops(stmts) /\ r[i] = stmts[at[i]]
  /\ \A j \in DOMAIN stmts \ Drops(stmts) : \E i \in 1..k : r[i] = stmts[j]
  /\ \A i \in (k + 1)..Len(r) : r[i] = Stmt("redirect")
  /\ Drops(stmts) # {} => k < Len(r)

LEMMA StmtIs ==
  /\ Stmt("redirect") \in Statement /\ Stmt("redirect").op = "redirect"
  /\ \A op \in Ops : Stmt(op) \in Statement /\ Stmt(op).op = op
  /\ \A f \in Seq(Nat) : Mark(f) \in Statement /\ Mark(f).op = "mark" /\ Mark(f).field = f
BY DEF Stmt, Mark, Statement, Ops, None

LEMMA RedirectedIs ==
  ASSUME NEW stmts \in Seq(Statement)
  PROVE  \E at, k : IsRedirected(Redirected(stmts), stmts, at, k)
<1> DEFINE D == Drops(stmts)
           kept == Picked(stmts, DOMAIN stmts \ D)
           c == Cardinality(D)
           red == [i \in 1..c |-> Stmt("redirect")]
           r == kept \o red
<1>1. DOMAIN stmts = 1..Len(stmts) /\ Len(stmts) \in Nat
  BY SeqIs
<1>2. D \in SUBSET (1..Len(stmts)) /\ DOMAIN stmts \ D \in SUBSET (1..Len(stmts))
  BY <1>1 DEF Drops
<1>3. Redirected(stmts) = r
  BY DEF Redirected, Drops
<1>4. c \in Nat /\ (c = 0 <=> D = {})
  <2>1. IsFiniteSet(1..Len(stmts))
    BY <1>1, FS_Interval
  <2> HIDE DEF D
  <2>2. IsFiniteSet(D)
    BY <1>2, <2>1, FS_Subset
  <2> QED
    BY <2>2, FS_CardinalityType, FS_EmptySet
<1> HIDE DEF D
<1>5. kept \in Seq(Statement) /\ \E at : IsPicking(at, kept, stmts, DOMAIN stmts \ D)
  BY <1>2, PickedPlaces
<1>6. PICK at : IsPicking(at, kept, stmts, DOMAIN stmts \ D)
  BY <1>5
<1> HIDE DEF kept, c
<1>7. red \in Seq(Statement) /\ Len(red) = c /\ \A i \in 1..c : red[i] = Stmt("redirect")
  <2>1. red \in [1..c -> Statement]
    BY StmtIs
  <2>2. \A i \in 1..c : red[i] = Stmt("redirect")
    OBVIOUS
  <2> HIDE DEF red
  <2> QED
    BY <1>4, <2>1, <2>2, FunctionAsSeq
<1> HIDE DEF red
<1>8. IsConcat(r, kept, red, Statement)
  BY <1>5, <1>7, ConcatIs
<1> HIDE DEF r
<1> DEFINE k == Len(kept)
<1>9. k \in Nat
  BY <1>5
<1>10. r \in Seq(Statement) /\ Len(r) = k + c /\ (\A i \in 1..k : r[i] = kept[i]) /\ \A i \in 1..c : r[k + i] = red[i]
  BY <1>7, <1>8 DEF IsConcat
<1>11. /\ \A i \in 1..k : at[i] \in DOMAIN stmts \ D /\ kept[i] = stmts[at[i]]
       /\ \A j \in DOMAIN stmts \ D : \E i \in 1..k : at[i] = j
  BY <1>6 DEF IsPicking
<1> HIDE DEF k
<1>12. \A i \in 1..k : at[i] \in DOMAIN stmts \ D /\ r[i] = stmts[at[i]]
  BY <1>10, <1>11
<1>13. \A j \in DOMAIN stmts \ D : \E i \in 1..k : r[i] = stmts[j]
  BY <1>11, <1>12
<1>14. \A i \in (k + 1)..Len(r) : r[i] = Stmt("redirect")
  <2> TAKE i \in (k + 1)..Len(r)
  <2>1. i - k \in 1..c /\ i = k + (i - k)
    BY <1>4, <1>9, <1>10
  <2> QED
    BY <1>7, <1>10, <2>1
<1>15. k =< Len(r) /\ (D # {} => k < Len(r))
  BY <1>4, <1>9, <1>10
<1>16. IsRedirected(r, stmts, at, k)
  BY <1>9, <1>10, <1>12, <1>13, <1>14, <1>15 DEF IsRedirected, D
<1> QED
  BY <1>3, <1>16

LEMMA RedirectedFields ==
  ASSUME NEW stmts \in Seq(Statement)
  PROVE  Fields(Redirected(stmts)) = Fields(stmts)
<1> DEFINE r == Redirected(stmts)
<1>1. PICK at, k : IsRedirected(r, stmts, at, k)
  BY RedirectedIs
<1> HIDE DEF r
<1>2. /\ r \in Seq(Statement) /\ k \in Nat /\ k =< Len(r)
      /\ \A i \in 1..k : at[i] \in DOMAIN stmts \ Drops(stmts) /\ r[i] = stmts[at[i]]
      /\ \A j \in DOMAIN stmts \ Drops(stmts) : \E i \in 1..k : r[i] = stmts[j]
      /\ \A i \in (k + 1)..Len(r) : r[i] = Stmt("redirect")
  BY <1>1 DEF IsRedirected
<1>3. DOMAIN r = 1..Len(r) /\ Len(r) \in Nat
  BY <1>2, SeqIs
<1>4. ASSUME NEW i \in DOMAIN r, r[i].op = "mark"
      PROVE  \E j \in DOMAIN stmts : stmts[j].op = "mark" /\ stmts[j].field = r[i].field
  <2>1. i \in 1..k
    <3>1. CASE i \in (k + 1)..Len(r)
      BY <1>2, <1>4, <3>1, StmtIs
    <3> QED
      BY <1>2, <1>3, <3>1
  <2> QED
    BY <1>2, <1>4, <2>1
<1>5. ASSUME NEW j \in DOMAIN stmts, stmts[j].op = "mark"
      PROVE  \E i \in DOMAIN r : r[i].op = "mark" /\ r[i].field = stmts[j].field
  <2>1. j \in DOMAIN stmts \ Drops(stmts)
    BY <1>5 DEF Drops
  <2>2. PICK i \in 1..k : r[i] = stmts[j]
    BY <1>2, <2>1
  <2>3. i \in DOMAIN r
    BY <1>2, <1>3
  <2> QED
    BY <1>5, <2>2, <2>3
<1>6. Fields(r) \subseteq Fields(stmts)
  BY <1>4 DEF Fields
<1>7. Fields(stmts) \subseteq Fields(r)
  BY <1>5 DEF Fields
<1> QED
  BY <1>6, <1>7 DEF r

Copies(p) == {Distinct(m[1], m[2]) : m \in Range(Shared(p))}
Own(p, b) == [i \in DOMAIN p.actions[b] |-> Stmt(p.actions[b][i])]
(* The copy's source, or the action itself.                                *)
CopyOf(p, n, b) ==
  /\ b \in DOMAIN p.actions
  /\ \/ n = b
     \/ \E t \in DOMAIN p.tables : n = Distinct(b, t) /\ b \in Range(p.tables[t].actions) /\ IsPopular(ActionTables(p), b)
Silent(p, n) == IsPopular(ActionTables(p), n) \/ n \in StateActions(p)
IsNode(p, n, node, b) ==
  /\ CopyOf(p, n, b)
  /\ node = [stmts |-> Redirected(IF Silent(p, n) THEN Own(p, b) ELSE Append(Own(p, b), Mark(n))),
             removed |-> IsPopular(ActionTables(p), n)]

LEMMA CopiesAre ==
  ASSUME NEW p \in Programs
  PROVE  /\ \A n : n \in Copies(p) <=>
              \E b \in DOMAIN p.actions, t \in DOMAIN p.tables :
                n = Distinct(b, t) /\ b \in Range(p.tables[t].actions) /\ IsPopular(ActionTables(p), b)
         /\ \A n \in Copies(p) : n \in Seq(Nat) /\ ~ Name(n) /\ n \notin DOMAIN p.actions
<1>1. Range(Shared(p)) = {m \in Pairs(p) : m[1] \in Range(p.tables[m[2]].actions) /\ IsPopular(ActionTables(p), m[1])}
  BY SharedIs
<1>2. ASSUME NEW n \in Copies(p)
      PROVE  \E b \in DOMAIN p.actions, t \in DOMAIN p.tables :
                n = Distinct(b, t) /\ b \in Range(p.tables[t].actions) /\ IsPopular(ActionTables(p), b)
  <2>1. PICK m \in Range(Shared(p)) : n = Distinct(m[1], m[2])
    BY DEF Copies
  <2>2. m \in Pairs(p) /\ m[1] \in Range(p.tables[m[2]].actions) /\ IsPopular(ActionTables(p), m[1])
    BY <1>1
  <2> QED
    BY <2>1, <2>2, InPairs
<1>3. ASSUME NEW b \in DOMAIN p.actions, NEW t \in DOMAIN p.tables,
             b \in Range(p.tables[t].actions), IsPopular(ActionTables(p), b)
      PROVE  Distinct(b, t) \in Copies(p)
  <2>1. <<b, t>> \in Pairs(p) /\ <<b, t>>[1] = b /\ <<b, t>>[2] = t
    BY DEF Pairs
  <2>2. <<b, t>> \in Range(Shared(p))
    BY <1>1, <1>3, <2>1
  <2> QED
    BY <2>1, <2>2 DEF Copies
<1>4. ASSUME NEW n \in Copies(p) PROVE n \in Seq(Nat) /\ ~ Name(n) /\ n \notin DOMAIN p.actions
  <2>1. PICK b \in DOMAIN p.actions, t \in DOMAIN p.tables : n = Distinct(b, t)
    BY <1>2
  <2>2. Name(b) /\ Name(t)
    BY ProgramIs
  <2>3. ~ Name(n)
    BY <2>1, <2>2, DistinctIsNoName
  <2>4. b \in Seq(Nat) /\ t \in Seq(Nat)
    BY <2>2, NameIs
  <2>5. n \in Seq(Nat)
    BY <2>1, <2>4, DistinctIs DEF IsDistinct
  <2> QED
    BY <2>3, <2>5, ProgramIs
<1> QED
  BY <1>2, <1>3, <1>4

LEMMA NodesCopiedAre ==
  ASSUME NEW p \in Programs
  PROVE  /\ DOMAIN NodesCopied(p) = DOMAIN p.actions \cup Copies(p)
         /\ \A n \in DOMAIN NodesCopied(p) :
              \E b : CopyOf(p, n, b) /\ NodesCopied(p)[n] = [stmts |-> Own(p, b), removed |-> FALSE]
<1> DEFINE of(n) == IF n \in Copies(p) THEN (CHOOSE m \in Range(Shared(p)) : Distinct(m[1], m[2]) = n)[1] ELSE n
<1>1. DOMAIN NodesRead(p) = DOMAIN p.actions /\ \A b \in DOMAIN p.actions : NodesRead(p)[b] = [stmts |-> Own(p, b), removed |-> FALSE]
  BY DEF NodesRead, Own
<1>2. NodesCopied(p) = [n \in DOMAIN p.actions \cup Copies(p) |-> NodesRead(p)[of(n)]]
  BY <1>1 DEF NodesCopied, NodesWithCopies, Copies
<1>3. ASSUME NEW n \in DOMAIN p.actions \cup Copies(p) PROVE CopyOf(p, n, of(n))
  <2>1. CASE n \notin Copies(p)
    BY <2>1 DEF CopyOf
  <2>2. CASE n \in Copies(p)
    <3> DEFINE m == CHOOSE m \in Range(Shared(p)) : Distinct(m[1], m[2]) = n
    <3>1. \E q \in Range(Shared(p)) : Distinct(q[1], q[2]) = n
      BY <2>2 DEF Copies
    <3>2. m \in Range(Shared(p)) /\ Distinct(m[1], m[2]) = n
      BY <3>1
    <3>3. of(n) = m[1]
      BY <2>2
    <3> HIDE DEF m, of
    <3>4. m \in Pairs(p) /\ m[1] \in Range(p.tables[m[2]].actions) /\ IsPopular(ActionTables(p), m[1])
      BY <3>2, SharedIs
    <3> QED
      BY <3>2, <3>3, <3>4, InPairs DEF CopyOf
  <2> QED
    BY <2>1, <2>2
<1> HIDE DEF of
<1>4. \A n \in DOMAIN p.actions \cup Copies(p) : of(n) \in DOMAIN p.actions /\ NodesCopied(p)[n] = NodesRead(p)[of(n)]
  BY <1>2, <1>3 DEF CopyOf
<1>5. \A n \in DOMAIN p.actions \cup Copies(p) :
        CopyOf(p, n, of(n)) /\ NodesCopied(p)[n] = [stmts |-> Own(p, of(n)), removed |-> FALSE]
  BY <1>1, <1>3, <1>4
<1>6. DOMAIN NodesCopied(p) = DOMAIN p.actions \cup Copies(p)
  BY <1>2
<1>7. \A n \in DOMAIN NodesCopied(p) :
        CopyOf(p, n, of(n)) /\ NodesCopied(p)[n] = [stmts |-> Own(p, of(n)), removed |-> FALSE]
  BY <1>5, <1>6
<1>8. \A n \in DOMAIN NodesCopied(p) :
        \E b : CopyOf(p, n, b) /\ NodesCopied(p)[n] = [stmts |-> Own(p, b), removed |-> FALSE]
  <2> TAKE n \in DOMAIN NodesCopied(p)
  <2> WITNESS of(n)
  <2> QED
    BY <1>7
<1> QED
  BY <1>6, <1>8

LEMMA NodesAre ==
  ASSUME NEW p \in Programs
  PROVE  /\ DOMAIN NodesRedirected(p) = DOMAIN p.actions \cup Copies(p)
         /\ \A n \in DOMAIN NodesRedirected(p) : \E b : IsNode(p, n, NodesRedirected(p)[n], b)
<1> DEFINE D == DOMAIN p.actions \cup Copies(p)
<1>1. DOMAIN NodesCopied(p) = D
  BY NodesCopiedAre
<1>2. DOMAIN NodesRemoved(p) = D /\ \A n \in D : NodesRemoved(p)[n] = [NodesCopied(p)[n] EXCEPT !.removed = IsPopular(ActionTables(p), n)]
  BY <1>1 DEF NodesRemoved, NodesWithout
<1>3. /\ DOMAIN NodesMarked(p) = D
      /\ \A n \in D : NodesMarked(p)[n] = IF IsPopular(ActionTables(p), n) \/ n \in StateActions(p) THEN NodesRemoved(p)[n]
                                          ELSE [NodesRemoved(p)[n] EXCEPT !.stmts = Append(@, Mark(n))]
  BY <1>2 DEF NodesMarked, NodesMarking
<1>4. DOMAIN NodesRedirected(p) = D /\ \A n \in D : NodesRedirected(p)[n] = [NodesMarked(p)[n] EXCEPT !.stmts = Redirected(@)]
  BY <1>3 DEF NodesRedirected, NodesNotDropping
<1>5. ASSUME NEW n \in D PROVE \E b : IsNode(p, n, NodesRedirected(p)[n], b)
  <2>1. PICK b : CopyOf(p, n, b) /\ NodesCopied(p)[n] = [stmts |-> Own(p, b), removed |-> FALSE]
    BY <1>1, NodesCopiedAre
  <2>2. NodesRemoved(p)[n] = [stmts |-> Own(p, b), removed |-> IsPopular(ActionTables(p), n)]
    BY <1>2, <2>1
  <2>3. NodesMarked(p)[n] = [stmts |-> IF Silent(p, n) THEN Own(p, b) ELSE Append(Own(p, b), Mark(n)),
                             removed |-> IsPopular(ActionTables(p), n)]
    <3>1. CASE Silent(p, n)
      <4>1. NodesMarked(p)[n] = NodesRemoved(p)[n]
        BY <1>3, <3>1 DEF Silent
      <4> QED
        BY <2>2, <3>1, <4>1
    <3>2. CASE ~ Silent(p, n)
      <4>1. NodesMarked(p)[n] = [NodesRemoved(p)[n] EXCEPT !.stmts = Append(@, Mark(n))]
        BY <1>3, <3>2 DEF Silent
      <4> DEFINE o == Own(p, b)
                 v == IsPopular(ActionTables(p), n)
      <4>2. NodesRemoved(p)[n] = [stmts |-> o, removed |-> v]
        BY <2>2
      <4> HIDE DEF o, v
      <4>3. NodesMarked(p)[n] = [stmts |-> Append(o, Mark(n)), removed |-> v]
        BY <4>1, <4>2
      <4> QED
        BY <3>2, <4>3 DEF o, v
    <3> QED
      BY <3>1, <3>2
  <2>4. NodesRedirected(p)[n] = [stmts |-> Redirected(IF Silent(p, n) THEN Own(p, b) ELSE Append(Own(p, b), Mark(n))),
                                 removed |-> IsPopular(ActionTables(p), n)]
    <3> DEFINE o == IF Silent(p, n) THEN Own(p, b) ELSE Append(Own(p, b), Mark(n))
               v == IsPopular(ActionTables(p), n)
    <3>1. NodesMarked(p)[n] = [stmts |-> o, removed |-> v]
      BY <2>3
    <3> HIDE DEF o, v
    <3>2. NodesRedirected(p)[n] = [stmts |-> Redirected(o), removed |-> v]
      BY <1>4, <3>1
    <3> QED
      BY <3>2 DEF o, v
  <2> QED
    BY <2>1, <2>4 DEF IsNode
<1> QED
  BY <1>4, <1>5

(* What a printed action marks is itself, or nothing.                      *)
LEMMA NodeMarks ==
  ASSUME NEW p \in Programs, NEW n \in DOMAIN NodesRedirected(p)
  PROVE  /\ Fields(NodesRedirected(p)[n].stmts) = IF Silent(p, n) THEN {} ELSE {n}
         /\ NodesRedirected(p)[n].removed = IsPopular(ActionTables(p), n)
         /\ n \in Seq(Nat)
<1>1. PICK b : IsNode(p, n, NodesRedirected(p)[n], b)
  BY NodesAre
<1> DEFINE own == Own(p, b)
           stmts == IF Silent(p, n) THEN own ELSE Append(own, Mark(n))
<1>2. NodesRedirected(p)[n].stmts = Redirected(stmts) /\ NodesRedirected(p)[n].removed = IsPopular(ActionTables(p), n)
  BY <1>1 DEF IsNode
<1>3. n \in Seq(Nat)
  <2>1. n \in DOMAIN p.actions \/ n \in Copies(p)
    BY NodesAre
  <2>2. n \in DOMAIN p.actions => Name(n)
    BY ProgramIs
  <2> QED
    BY <2>1, <2>2, CopiesAre, NameIs
<1>4. p.actions[b] \in Seq({"drop", "forward", "exec", "other"})
  BY <1>1, ProgramIs DEF IsNode, CopyOf
<1>5. own \in Seq(Statement) /\ \A i \in DOMAIN own : own[i].op # "mark"
  <2> DEFINE s == p.actions[b]
  <2>1. own = [i \in DOMAIN s |-> Stmt(s[i])]
    BY DEF Own
  <2> HIDE DEF s, own
  <2>2. s \in Seq({"drop", "forward", "exec", "other"})
    BY <1>4 DEF s
  <2>3. DOMAIN s = 1..Len(s) /\ Len(s) \in Nat /\ \A i \in 1..Len(s) : s[i] \in {"drop", "forward", "exec", "other"}
    BY <2>2, SeqIs
  <2>4. \A i \in 1..Len(s) : s[i] \in Ops /\ s[i] # "mark"
    BY <2>3 DEF Ops
  <2>5. \A i \in 1..Len(s) : Stmt(s[i]) \in Statement /\ Stmt(s[i]).op # "mark"
    BY <2>4, StmtIs
  <2>6. own \in [1..Len(s) -> Statement]
    BY <2>1, <2>3, <2>5
  <2>7. own \in Seq(Statement)
    BY <2>3, <2>6, FunctionAsSeq
  <2> QED
    BY <2>1, <2>3, <2>5, <2>7
<1> HIDE DEF own
<1>6. Mark(n) \in Statement /\ Mark(n).op = "mark" /\ Mark(n).field = n
  BY <1>3, StmtIs
<1>7. stmts \in Seq(Statement)
  BY <1>5, <1>6
<1>8. Fields(stmts) = IF Silent(p, n) THEN {} ELSE {n}
  <2>1. CASE Silent(p, n)
    <3>1. stmts = own
      BY <2>1
    <3> QED
      BY <1>5, <2>1, <3>1 DEF Fields
  <2>2. CASE ~ Silent(p, n)
    <3>1. stmts = Append(own, Mark(n))
      BY <2>2
    <3> HIDE DEF stmts
    <3>2. /\ DOMAIN stmts = 1..(Len(own) + 1) /\ Len(own) \in Nat /\ DOMAIN own = 1..Len(own)
          /\ stmts[Len(own) + 1] = Mark(n) /\ \A i \in 1..Len(own) : stmts[i] = own[i]
      BY <1>5, <1>6, <3>1
    <3>3. {j \in DOMAIN stmts : stmts[j].op = "mark"} = {Len(own) + 1}
      BY <1>5, <1>6, <3>2
    <3> QED
      BY <1>6, <2>2, <3>2, <3>3 DEF Fields
  <2> QED
    BY <2>1, <2>2
<1> HIDE DEF stmts
<1>9. Fields(Redirected(stmts)) = Fields(stmts)
  BY <1>7, RedirectedFields
<1> QED
  BY <1>2, <1>3, <1>8, <1>9

-----------------------------------------------------------------------------
(* Default actions.                                                        *)

IsDefaulting(u, d, t, names, N) ==
  /\ u[0] = d /\ \A i \in 1..N : u[i] = RenamedDefault(u[i - 1], t, names[i])
  /\ RenamedDefaults(d, t, names) = u[N]

LEMMA RenamedDefaultsIs ==
  ASSUME NEW d, NEW names, NEW N \in Nat, Len(names) = N, NEW t
  PROVE  \E u : IsDefaulting(u, d, t, names, N)
<1> DEFINE Is(u) == u = [i \in 0..N |-> IF i = 0 THEN d ELSE RenamedDefault(u[i - 1], t, names[i])]
           Upto(n, u) == /\ DOMAIN u = 0..n /\ u[0] = d
                         /\ \A i \in 1..n : u[i] = RenamedDefault(u[i - 1], t, names[i])
           T == {n \in 0..N : \E u : Upto(n, u)}
<1>1. 0 \in T
  <2> DEFINE g == [i \in 0..0 |-> d]
  <2>1. DOMAIN g = 0..0 /\ g[0] = d
    OBVIOUS
  <2> HIDE DEF g
  <2>2. Upto(0, g)
    BY <2>1
  <2> HIDE DEF Upto
  <2> QED
    BY <2>2
<1>2. ASSUME NEW n \in 1..N, n - 1 \in T PROVE n \in T
  <2>1. PICK f : Upto(n - 1, f)
    <3> HIDE DEF Upto
    <3> QED
      BY <1>2
  <2> DEFINE y == RenamedDefault(f[n - 1], t, names[n])
             g == [i \in 0..n |-> IF i = n THEN y ELSE f[i]]
  <2>2. DOMAIN g = 0..n /\ g[n] = y /\ \A i \in 0..(n - 1) : g[i] = f[i]
    OBVIOUS
  <2> HIDE DEF g
  <2>3. g[0] = d
    BY <2>1, <2>2
  <2>4. \A i \in 1..(n - 1) : g[i] = RenamedDefault(g[i - 1], t, names[i])
    <3> TAKE i \in 1..(n - 1)
    <3>1. i \in 0..(n - 1) /\ i - 1 \in 0..(n - 1)
      OBVIOUS
    <3> QED
      BY <2>1, <2>2, <3>1
  <2>5. g[n] = RenamedDefault(g[n - 1], t, names[n])
    BY <2>2
  <2>6. \A i \in 1..n : i = n \/ i \in 1..(n - 1)
    OBVIOUS
  <2>7. \A i \in 1..n : g[i] = RenamedDefault(g[i - 1], t, names[i])
    BY <2>4, <2>5, <2>6
  <2>8. Upto(n, g)
    BY <2>2, <2>3, <2>7
  <2> HIDE DEF Upto
  <2> QED
    BY <2>8
<1>3. \E f : Upto(N, f)
  <2> HIDE DEF T
  <2>1. 0..N \subseteq T
    BY <1>1, <1>2, InductionUpTo
  <2>2. N \in T
    BY <2>1
  <2> QED
    BY <2>2 DEF T
<1>4. PICK f : Upto(N, f)
  <2> HIDE DEF Upto
  <2> QED
    BY <1>3
<1> DEFINE g == [i \in 0..N |-> f[i]]
<1>5. Is(g)
  <2>1. \A i \in 0..N : g[i] = f[i]
    OBVIOUS
  <2>2. g = [i \in 0..N |-> g[i]]
    OBVIOUS
  <2> HIDE DEF g
  <2>3. ASSUME NEW i \in 0..N PROVE g[i] = IF i = 0 THEN d ELSE RenamedDefault(g[i - 1], t, names[i])
    <3>1. CASE i = 0
      BY <1>4, <2>1, <3>1
    <3>2. CASE i # 0
      <4>1. i \in 1..N /\ i - 1 \in 0..N
        BY <3>2
      <4>2. f[i] = RenamedDefault(f[i - 1], t, names[i])
        BY <1>4, <4>1
      <4> QED
        BY <2>1, <3>2, <4>1, <4>2
    <3> QED
      BY <3>1, <3>2
  <2> QED
    BY <2>2, <2>3
<1> HIDE DEF g
<1> DEFINE U == CHOOSE u : Is(u)
<1>6. RenamedDefaults(d, t, names) = U[N]
  BY DEF RenamedDefaults
<1>7. Is(U)
  <2> HIDE DEF Is
  <2> QED
    BY <1>5
<1> HIDE DEF U
<1>8. U[0] = d
  BY <1>7
<1>9. \A i \in 1..N : U[i] = RenamedDefault(U[i - 1], t, names[i])
  BY <1>7
<1>10. IsDefaulting(U, d, t, names, N)
  BY <1>6, <1>8, <1>9 DEF IsDefaulting
<1> QED
  BY <1>10

(* A default action of which no other popular action's name is a beginning.*)
LEMMA DefaultLeftAlone ==
  ASSUME NEW d, NEW t, NEW a, d = None \/ ((d.args = "digits" => d.name # a) /\ (d.args = "bare" => ~ IsPrefix(a, d.name)))
  PROVE  RenamedDefault(d, t, a) = d
BY DEF RenamedDefault

LEMMA DefaultRenamedHere ==
  ASSUME NEW d \in [name : Seq(Nat), args : {"bare", "digits"}], NEW t \in Seq(Nat)
  PROVE  RenamedDefault(d, t, d.name) = [name |-> Distinct(d.name, t), args |-> d.args]
<1>1. d.name \in Seq(Nat) /\ d = [name |-> d.name, args |-> d.args] /\ d.args \in {"bare", "digits"}
  OBVIOUS
<1>2. IsPrefix(d.name, d.name) /\ Rest(d.name, d.name) = <<>>
  BY <1>1, PrefixOfDistinct
<1>3. d # None
  <2>1. DOMAIN d = {"name", "args"}
    BY <1>1
  <2>2. DOMAIN None = {}
    BY DEF None
  <2> QED
    BY <2>1, <2>2
<1>4. Distinct(d.name, t) \o <<>> = Distinct(d.name, t)
  <2>1. Distinct(d.name, t) \in Seq(Nat)
    BY <1>1, DistinctIs DEF IsDistinct
  <2> QED
    BY <2>1, ConcatEmptySeq
<1>5. RenamedDefault(d, t, d.name) = [d EXCEPT !.name = Distinct(d.name, t) \o Rest(d.name, d.name)]
  BY <1>1, <1>2, <1>3 DEF RenamedDefault
<1>6. [d EXCEPT !.name = Distinct(d.name, t)] = [name |-> Distinct(d.name, t), args |-> d.args]
  BY <1>1
<1> QED
  BY <1>2, <1>4, <1>5, <1>6

LEMMA OtherStays ==
  ASSUME NEW names, NEW N \in Nat, Len(names) = N, NEW t, NEW d, d = None \/ d.args = "other"
  PROVE  RenamedDefaults(d, t, names) = d
<1>1. PICK u : IsDefaulting(u, d, t, names, N)
  BY RenamedDefaultsIs
<1>2. u[0] = d /\ (\A i \in 1..N : u[i] = RenamedDefault(u[i - 1], t, names[i])) /\ RenamedDefaults(d, t, names) = u[N]
  BY <1>1 DEF IsDefaulting
<1> DEFINE T == {i \in 0..N : u[i] = d}
<1>3. 0 \in T
  BY <1>2
<1>4. ASSUME NEW i \in 1..N, i - 1 \in T PROVE i \in T
  <2>1. u[i - 1] = d
    <3>1. PICK k \in T : k = i - 1
      BY <1>4
    <3> QED
      BY <3>1
  <2>2. d = None \/ ((d.args = "digits" => d.name # names[i]) /\ (d.args = "bare" => ~ IsPrefix(names[i], d.name)))
    OBVIOUS
  <2>3. RenamedDefault(d, t, names[i]) = d
    BY <2>2, DefaultLeftAlone
  <2>4. u[i] = d /\ i \in 0..N
    BY <1>2, <2>1, <2>3
  <2> QED
    BY <2>4
<1> HIDE DEF T
<1>5. N \in T
  <2>1. 0..N \subseteq T
    BY <1>3, <1>4, InductionUpTo
  <2> QED
    BY <2>1
<1> QED
  BY <1>2, <1>5 DEF T

(* A default action that distinguishDefaultPopularActions understands.     *)
PlainDefault(p, t) ==
  LET d == p.tables[t].default
  IN  /\ d # None /\ (d.args = "other" => d.name \notin Range(PopularActions(p)))
      /\ \A b \in Range(PopularActions(p)) : IsPrefix(b, BitOf(ActionTables(p), d.name, t)) => b = d.name

LEMMA PlainDefaultRenamed ==
  ASSUME NEW p \in Programs, NEW t \in DOMAIN p.tables, PlainDefault(p, t)
  PROVE  /\ p.tables[t].default.name \in Range(p.tables[t].actions)
         /\ RenamedDefaults(p.tables[t].default, t, PopularActions(p)).name
              = BitOf(ActionTables(p), p.tables[t].default.name, t)
<1> DEFINE names == PopularActions(p)
           N == Len(names)
           d == p.tables[t].default
           a == d.name
           becomes == BitOf(ActionTables(p), a, t)
           new == [name |-> becomes, args |-> d.args]
<1>1. names \in Seq(DOMAIN p.actions) /\ IsInjective(names) /\ \A b : b \in Range(names) <=> IsPopular(ActionTables(p), b)
  BY PopularAre
<1>2. d # None /\ d \in [name : DOMAIN p.actions, args : {"bare", "digits", "other"}] /\ a \in Range(p.tables[t].actions)
  BY ProgramIs DEF PlainDefault
<1>3. a \in DOMAIN p.actions /\ d.args \in {"bare", "digits", "other"} /\ d = [name |-> a, args |-> d.args]
  BY <1>2
<1>4. /\ Name(a) /\ Name(t) /\ becomes \in Seq(Nat)
      /\ IsPopular(ActionTables(p), a) => becomes = Distinct(a, t) /\ ~ Name(becomes)
      /\ ~ IsPopular(ActionTables(p), a) => becomes = a
  BY <1>3, BitIs
<1>5. a \in Seq(Nat) /\ t \in Seq(Nat)
  BY <1>4, NameIs
<1>6. /\ d.args = "other" => ~ IsPopular(ActionTables(p), a)
      /\ \A b \in Range(names) : IsPrefix(b, becomes) => b = a
  BY <1>1 DEF PlainDefault
<1>7. N \in Nat /\ (\A i \in 1..N : names[i] \in Range(names)) /\ \A i, j \in 1..N : names[i] = names[j] => i = j
  BY <1>1, SeqIs
<1> HIDE DEF names, a, becomes
<1>8. \A b \in Range(names) : Name(b) /\ b \in Seq(Nat)
  <2> TAKE b \in Range(names)
  <2>1. b \in DOMAIN p.actions
    BY <1>1, InRange
  <2>2. Name(b)
    BY <2>1, ProgramIs
  <2> QED
    BY <2>2, NameIs
<1>9. new.name = becomes /\ new.args = d.args
  OBVIOUS
<1> HIDE DEF new
<1>10. \A b \in Range(names) : b # a => RenamedDefault(d, t, b) = d /\ RenamedDefault(new, t, b) = new
  <2> SUFFICES ASSUME NEW b \in Range(names), b # a PROVE RenamedDefault(d, t, b) = d /\ RenamedDefault(new, t, b) = new
    OBVIOUS
  <2>1. ~ IsPrefix(b, becomes)
    BY <1>6
  <2>2. ~ IsPrefix(b, a)
    BY <1>4, <1>5, <1>8, <2>1, PrefixOfDistinct
  <2>3. becomes # b
    BY <1>4, <1>8
  <2>4. d.name # b /\ ~ IsPrefix(b, d.name)
    BY <2>2 DEF a
  <2>5. RenamedDefault(d, t, b) = d
    <3> HIDE DEF d
    <3> QED
      BY <2>4, DefaultLeftAlone
  <2>6. RenamedDefault(new, t, b) = new
    BY <1>9, <2>1, <2>3, DefaultLeftAlone
  <2> QED
    BY <2>5, <2>6
<1>11. PICK u : IsDefaulting(u, d, t, names, N)
  <2>1. Len(names) = N
    OBVIOUS
  <2> HIDE DEF N, d
  <2> QED
    BY <1>7, <2>1, RenamedDefaultsIs
<1>12. u[0] = d /\ (\A i \in 1..N : u[i] = RenamedDefault(u[i - 1], t, names[i])) /\ RenamedDefaults(d, t, names) = u[N]
  BY <1>11 DEF IsDefaulting
<1>13. d.name = a
  BY DEF a
<1> HIDE DEF N, d
<1>14. CASE ~ IsPopular(ActionTables(p), a)
  <2> DEFINE T == {i \in 0..N : u[i] = d}
  <2>1. 0 \in T
    BY <1>7, <1>12
  <2>2. ASSUME NEW i \in 1..N, i - 1 \in T PROVE i \in T
    <3>1. u[i - 1] = d
      <4>1. PICK k \in T : k = i - 1
        BY <2>2
      <4> QED
        BY <4>1
    <3>2. names[i] \in Range(names) /\ names[i] # a
      BY <1>1, <1>7, <1>14
    <3>3. u[i] = d /\ i \in 0..N
      BY <1>7, <1>10, <1>12, <3>1, <3>2
    <3> QED
      BY <3>3
  <2> HIDE DEF T
  <2>3. N \in T
    <3>1. 0..N \subseteq T
      BY <1>7, <2>1, <2>2, InductionUpTo
    <3> QED
      BY <1>7, <3>1
  <2>4. u[N] = d
    BY <2>3 DEF T
  <2>5. RenamedDefaults(d, t, names).name = becomes
    BY <1>4, <1>12, <1>13, <1>14, <2>4
  <2> QED
    BY <1>2, <2>5 DEF names, becomes, a, d
<1>15. CASE IsPopular(ActionTables(p), a)
  <2>1. PICK k \in 1..N : names[k] = a
    BY <1>1, <1>15, InRange DEF N
  <2>2. RenamedDefault(d, t, a) = new
    <3>1. d \in [name : Seq(Nat), args : {"bare", "digits"}]
      BY <1>3, <1>5, <1>6, <1>15
    <3>2. RenamedDefault(d, t, d.name) = [name |-> Distinct(d.name, t), args |-> d.args]
      BY <1>5, <3>1, DefaultRenamedHere
    <3> QED
      BY <1>4, <1>13, <1>15, <3>2 DEF new
  <2> DEFINE T == {i \in 0..N : u[i] = IF i < k THEN d ELSE new}
  <2>3. 0 \in T
    BY <1>7, <1>12
  <2>4. ASSUME NEW i \in 1..N, i - 1 \in T PROVE i \in T
    <3>1. u[i - 1] = IF i - 1 < k THEN d ELSE new
      <4>1. PICK l \in T : l = i - 1
        BY <2>4
      <4> QED
        BY <4>1
    <3>2. names[i] \in Range(names) /\ (names[i] = a <=> i = k)
      BY <1>7, <2>1
    <3>3. u[i] = RenamedDefault(u[i - 1], t, names[i]) /\ i \in 0..N
      BY <1>7, <1>12
    <3>4. CASE i = k
      <4>1. u[i - 1] = d /\ names[i] = a /\ ~ (i < k)
        BY <1>7, <3>1, <3>2, <3>4
      <4> QED
        BY <2>2, <3>3, <4>1
    <3>5. CASE i < k
      <4>1. u[i - 1] = d /\ names[i] # a
        BY <1>7, <3>1, <3>2, <3>5
      <4>2. u[i] = d
        BY <1>10, <3>2, <3>3, <4>1
      <4> QED
        BY <3>3, <3>5, <4>2
    <3>6. CASE i > k
      <4>1. u[i - 1] = new /\ names[i] # a /\ ~ (i < k)
        BY <1>7, <3>1, <3>2, <3>6
      <4>2. u[i] = new
        BY <1>10, <3>2, <3>3, <4>1
      <4> QED
        BY <3>3, <4>1, <4>2
    <3> QED
      BY <1>7, <3>4, <3>5, <3>6
  <2> HIDE DEF T
  <2>5. N \in T
    <3>1. 0..N \subseteq T
      BY <1>7, <2>3, <2>4, InductionUpTo
    <3> QED
      BY <1>7, <3>1
  <2>6. u[N] = new
    BY <1>7, <2>5 DEF T
  <2>7. RenamedDefaults(d, t, names).name = becomes
    BY <1>9, <1>12, <2>6
  <2> QED
    BY <1>2, <2>7 DEF names, becomes, a, d
<1> QED
  BY <1>14, <1>15

(* The tables at the end.                                                  *)
LEMMA TablesAre ==
  ASSUME NEW p \in Programs, NEW t \in DOMAIN p.tables
  PROVE  /\ Range(TablesRenamed(p)[t].actions) = {BitOf(ActionTables(p), a, t) : a \in Range(p.tables[t].actions)}
         /\ TablesRenamed(p)[t].default = RenamedDefaults(p.tables[t].default, t, PopularActions(p))
<1> DEFINE acts == p.tables[t].actions
           d == p.tables[t].default
           new == [i \in DOMAIN acts |-> BitOf(ActionTables(p), acts[i], t)]
<1>1. p.tables[t] = [actions |-> acts, default |-> d]
  BY ProgramIs
<1>2. TablesCopied(p)[t] = [p.tables[t] EXCEPT !.actions = [i \in DOMAIN @ |-> BitOf(ActionTables(p), @[i], t)]]
  BY DEF TablesCopied
<1>3. TablesCopied(p)[t] = [actions |-> new, default |-> d]
  <2> HIDE DEF acts, d
  <2> QED
    BY <1>1, <1>2
<1>4. TablesRenamed(p)[t] = [TablesCopied(p)[t] EXCEPT !.default = RenamedDefaults(@, t, PopularActions(p))]
  BY DEF TablesRenamed, TablesDefault, TablesCopied
<1>5. TablesRenamed(p)[t].actions = new /\ TablesRenamed(p)[t].default = RenamedDefaults(d, t, PopularActions(p))
  <2> HIDE DEF new, d
  <2> QED
    BY <1>3, <1>4
<1>6. Range(new) = {BitOf(ActionTables(p), a, t) : a \in Range(acts)}
  <2> HIDE DEF acts
  <2> QED
    BY DEF Range
<1> QED
  BY <1>5, <1>6

LEMMA ResolvesHere ==
  ASSUME NEW p \in Programs, NEW t \in DOMAIN p.tables, NEW a \in Range(p.tables[t].actions)
  PROVE  LET n == BitOf(ActionTables(p), a, t) IN n \in DOMAIN NodesRedirected(p) /\ ~ NodesRedirected(p)[n].removed
<1> DEFINE n == BitOf(ActionTables(p), a, t)
<1>1. a \in DOMAIN p.actions
  BY ActionOfTable
<1>2. /\ IsPopular(ActionTables(p), a) => n = Distinct(a, t)
      /\ ~ IsPopular(ActionTables(p), a) => n = a
  BY <1>1, BitIs
<1>3. n \in DOMAIN NodesRedirected(p) /\ ~ IsPopular(ActionTables(p), n)
  <2>1. CASE IsPopular(ActionTables(p), a)
    <3>1. n \in Copies(p)
      BY <1>1, <1>2, <2>1, CopiesAre
    <3>2. n \notin DOMAIN p.actions
      BY <3>1, CopiesAre
    <3> QED
      BY <3>1, <3>2, NodesAre, ActionTablesAre
  <2>2. CASE ~ IsPopular(ActionTables(p), a)
    BY <1>1, <1>2, <2>2, NodesAre
  <2> QED
    BY <2>1, <2>2
<1> HIDE DEF n
<1>4. ~ NodesRedirected(p)[n].removed
  BY <1>3, NodeMarks
<1> QED
  BY <1>3, <1>4 DEF n

LEMMA ActionsResolveHolds == PassesMade /\ Done => ActionsResolve
<1> SUFFICES ASSUME PassesMade, Done, NEW t \in ProgramTables
             PROVE  /\ \A a \in Range(tables[t].actions) : Exists(a)
                    /\ LET d == tables[t].default
                       IN  /\ d # None
                           /\ d.args = "other" => prog.tables[t].default.name \notin Range(popular)
                           /\ NoneBegins(prog.tables[t].default.name, t)
                           => d.name \in Range(tables[t].actions)
  BY DEF ActionsResolve
<1>1. prog \in Programs /\ popular = PopularActions(prog) /\ tables = TablesRenamed(prog) /\ nodes = NodesRedirected(prog)
  BY DoneMade
<1>2. t \in DOMAIN prog.tables
  BY DEF ProgramTables
<1>3. /\ Range(tables[t].actions) = {BitOf(ActionTables(prog), a, t) : a \in Range(prog.tables[t].actions)}
      /\ tables[t].default = RenamedDefaults(prog.tables[t].default, t, PopularActions(prog))
  BY <1>1, <1>2, TablesAre
<1>4. \A a \in Range(tables[t].actions) : Exists(a)
  BY <1>1, <1>2, <1>3, ResolvesHere DEF Exists
<1>5. ASSUME tables[t].default # None,
             tables[t].default.args = "other" => prog.tables[t].default.name \notin Range(popular),
             NoneBegins(prog.tables[t].default.name, t)
      PROVE  tables[t].default.name \in Range(tables[t].actions)
  <2>1. prog.tables[t].default # None
    <3>1. PopularActions(prog) \in Seq(DOMAIN prog.actions)
      BY <1>1, PopularAre
    <3>2. Len(PopularActions(prog)) \in Nat
      BY <3>1, SeqIs
    <3>3. RenamedDefaults(None, t, PopularActions(prog)) = None
      BY <3>2, OtherStays
    <3> QED
      BY <1>3, <1>5, <3>3
  <2>2. prog.tables[t].default.args = "other" => prog.tables[t].default.name \notin Range(PopularActions(prog))
    <3> SUFFICES ASSUME prog.tables[t].default.args = "other",
                        prog.tables[t].default.name \in Range(PopularActions(prog))
                 PROVE  FALSE
      OBVIOUS
    <3>1. PopularActions(prog) \in Seq(DOMAIN prog.actions)
      BY <1>1, PopularAre
    <3>2. Len(PopularActions(prog)) \in Nat
      BY <3>1, SeqIs
    <3> DEFINE d == prog.tables[t].default
    <3>3. RenamedDefaults(d, t, PopularActions(prog)) = d
      <4>1. d = None \/ d.args = "other"
        OBVIOUS
      <4> HIDE DEF d
      <4> QED
        BY <3>2, <4>1, OtherStays
    <3>4. tables[t].default = prog.tables[t].default
      BY <1>3, <3>3
    <3> QED
      BY <1>1, <1>5, <3>4
  <2>3. PlainDefault(prog, t)
    BY <1>1, <1>5, <2>1, <2>2 DEF PlainDefault, NoneBegins, Taken
  <2>4. /\ prog.tables[t].default.name \in Range(prog.tables[t].actions)
        /\ tables[t].default.name = BitOf(ActionTables(prog), prog.tables[t].default.name, t)
    BY <1>1, <1>2, <1>3, <2>3, PlainDefaultRenamed
  <2> QED
    BY <1>3, <2>4
<1> QED
  BY <1>4, <1>5

-----------------------------------------------------------------------------
(* What is marked is declared, once.                                       *)

LEMMA MarkedDeclared ==
  ASSUME NEW p \in Programs, NEW n \in DOMAIN NodesRedirected(p), ~ NodesRedirected(p)[n].removed,
         \A a \in DOMAIN p.actions : \E t \in DOMAIN p.tables : a \in Range(p.tables[t].actions),
         NEW f \in Fields(NodesRedirected(p)[n].stmts)
  PROVE  DeclaredOnce(p, f)
<1>1. f = n /\ ~ IsPopular(ActionTables(p), n)
  BY NodeMarks
<1>2. n \in DOMAIN p.actions \/ n \in Copies(p)
  BY NodesAre
<1>3. CASE n \in DOMAIN p.actions
  <2>1. PICK t \in DOMAIN p.tables : n \in Range(p.tables[t].actions)
    BY <1>3
  <2>2. BitOf(ActionTables(p), n, t) = n
    BY <1>1, <1>3, BitIs
  <2> QED
    BY <1>1, <2>1, <2>2, DeclaredIs
<1>4. CASE n \in Copies(p)
  <2>1. PICK b \in DOMAIN p.actions, t \in DOMAIN p.tables :
          n = Distinct(b, t) /\ b \in Range(p.tables[t].actions) /\ IsPopular(ActionTables(p), b)
    BY <1>4, CopiesAre
  <2>2. BitOf(ActionTables(p), b, t) = n
    BY <2>1, BitIs
  <2>3. DeclaredOnce(p, BitOf(ActionTables(p), b, t))
    BY <2>1, DeclaredIs
  <2> QED
    BY <1>1, <2>2, <2>3
<1> QED
  BY <1>2, <1>3, <1>4

LEMMA SetDeclared ==
  ASSUME NEW p \in Programs, NEW e \in Range(ExtraPort(p)), e.sets # None,
         \A a \in StateActions(p) : ~ IsPopular(ActionTables(p), a)
  PROVE  DeclaredOnce(p, e.sets)
<1>1. \/ e \in StateEntries(p)
      \/ \E i \in 1..Len(AssertsMet(p)) : e = AssertEntry(AssertsMet(p)[i].num)
      \/ e = VisitedEntry \/ e = PortEntry
  BY ExtraRange
<1>2. CASE e \in StateEntries(p)
  <2>1. PICK t \in DOMAIN TableState(p) : e = StateEntry(p, t)
    BY <1>2 DEF StateEntries
  <2> DEFINE a == TableState(p)[t]
  <2>2. e.sets = a
    BY <2>1 DEF StateEntry
  <2>3. t \in DOMAIN p.tables /\ a \in DOMAIN p.actions /\ p.tables[t].actions = <<a>> /\ a \in StateActions(p)
    BY TableStateIs
  <2> HIDE DEF a
  <2>4. a \in Range(p.tables[t].actions)
    BY <2>3 DEF Range
  <2>5. BitOf(ActionTables(p), a, t) = a
    BY <2>3, BitIs
  <2>6. DeclaredOnce(p, BitOf(ActionTables(p), a, t))
    BY <2>3, <2>4, DeclaredIs
  <2> QED
    BY <2>2, <2>5, <2>6
<1>3. CASE \E i \in 1..Len(AssertsMet(p)) : e = AssertEntry(AssertsMet(p)[i].num)
  <2>1. PICK i \in 1..Len(AssertsMet(p)) : e = AssertEntry(AssertsMet(p)[i].num)
    BY <1>3
  <2>2. AssertsMet(p)[i].num \in 0..(Len(p.asserts) - 1)
    BY AssertEntriesAre
  <2>3. DeclaredOnce(p, AssertBit(AssertsMet(p)[i].num))
    BY <2>2, DeclaredIs
  <2> QED
    BY <2>1, <2>3 DEF AssertEntry
<1>4. CASE e = VisitedEntry
  BY <1>4, DeclaredIs DEF VisitedEntry
<1>5. CASE e = PortEntry
  BY <1>5 DEF PortEntry
<1> QED
  BY <1>1, <1>2, <1>3, <1>4, <1>5

LEMMA FieldsDeclaredHolds == PassesMade /\ Done /\ AllActionsUsed => FieldsDeclared
<1> SUFFICES ASSUME PassesMade, Done, AllActionsUsed,
                    NEW f \in (UNION {Fields(nodes[a].stmts) : a \in {b \in DOMAIN nodes : Exists(b)}})
                                \cup {e.sets : e \in Range(extra)},
                    f # None
             PROVE  Cardinality({i \in DOMAIN header : header[i][1] = f}) = 1
  BY DEF FieldsDeclared
<1>1. prog \in Programs /\ nodes = NodesRedirected(prog) /\ extra = ExtraPort(prog) /\ header = HeaderOf(prog)
      /\ stateActions = StateActions(prog)
  BY DoneMade
<1>2. /\ \A a \in DOMAIN prog.actions : \E t \in DOMAIN prog.tables : a \in Range(prog.tables[t].actions)
      /\ \A a \in StateActions(prog) : ~ IsPopular(ActionTables(prog), a)
  BY <1>1 DEF AllActionsUsed, ProgramTables, Actions
<1>3. CASE \E a \in {b \in DOMAIN nodes : Exists(b)} : f \in Fields(nodes[a].stmts)
  <2>1. PICK a \in DOMAIN nodes : ~ nodes[a].removed /\ f \in Fields(nodes[a].stmts)
    BY <1>3 DEF Exists
  <2>2. DeclaredOnce(prog, f)
    BY <1>1, <1>2, <2>1, MarkedDeclared
  <2> QED
    BY <1>1, <2>2 DEF DeclaredOnce
<1>4. CASE f \in {e.sets : e \in Range(extra)}
  <2>1. PICK e \in Range(ExtraPort(prog)) : f = e.sets
    BY <1>1, <1>4
  <2>2. DeclaredOnce(prog, e.sets)
    BY <1>1, <1>2, <2>1, SetDeclared
  <2> QED
    BY <1>1, <2>1, <2>2 DEF DeclaredOnce
<1>5. (\E a \in {b \in DOMAIN nodes : Exists(b)} : f \in Fields(nodes[a].stmts)) \/ f \in {e.sets : e \in Range(extra)}
  <2> DEFINE S == {b \in DOMAIN nodes : Exists(b)}
             E == {e.sets : e \in Range(extra)}
  <2>1. f \in UNION {Fields(nodes[a].stmts) : a \in S} \/ f \in E
    OBVIOUS
  <2> HIDE DEF S, E
  <2>2. (\E a \in S : f \in Fields(nodes[a].stmts)) \/ f \in E
    BY <2>1
  <2> QED
    BY <2>2 DEF S, E
<1> QED
  BY <1>3, <1>4, <1>5

LEMMA NamesResolveHolds == PassesMade => NamesResolve
BY TypeOKHolds, FieldsDeclaredHolds, ActionsResolveHolds DEF NamesResolve

(* Whatever the instrumented program mentions, it declares.                *)
THEOREM NamesResolveAlways == Spec => []NamesResolve
BY InstrumentedAs, NamesResolveHolds, PTL

-----------------------------------------------------------------------------
(* No action drops any more.                                               *)

LEMMA OwnIs ==
  ASSUME NEW p \in Programs, NEW b \in DOMAIN p.actions
  PROVE  /\ Own(p, b) \in Seq(Statement)
         /\ "drop" \in Range(p.actions[b]) => Drops(Own(p, b)) # {}
<1> DEFINE s == p.actions[b]
           own == Own(p, b)
<1>1. own = [i \in DOMAIN s |-> Stmt(s[i])]
  BY DEF Own
<1>2. s \in Seq({"drop", "forward", "exec", "other"})
  BY ProgramIs
<1> HIDE DEF s, own
<1>3. DOMAIN s = 1..Len(s) /\ Len(s) \in Nat /\ \A i \in 1..Len(s) : s[i] \in {"drop", "forward", "exec", "other"}
  BY <1>2, SeqIs
<1>4. \A i \in 1..Len(s) : s[i] \in Ops
  BY <1>3 DEF Ops
<1>5. \A i \in 1..Len(s) : Stmt(s[i]) \in Statement /\ Stmt(s[i]).op = s[i]
  BY <1>4, StmtIs
<1>6. own \in [1..Len(s) -> Statement] /\ DOMAIN own = 1..Len(s) /\ \A i \in 1..Len(s) : own[i].op = s[i]
  BY <1>1, <1>3, <1>5
<1>7. own \in Seq(Statement)
  BY <1>3, <1>6, FunctionAsSeq
<1>8. "drop" \in Range(s) => Drops(own) # {}
  BY <1>3, <1>6 DEF Range, Drops
<1> QED
  BY <1>7, <1>8 DEF s, own

LEMMA NodeRedirects ==
  ASSUME NEW p \in Programs, NEW n \in DOMAIN NodesRedirected(p), NEW b, IsNode(p, n, NodesRedirected(p)[n], b)
  PROVE  LET stmts == NodesRedirected(p)[n].stmts
         IN  /\ \A i \in DOMAIN stmts : stmts[i].op # "drop"
             /\ "drop" \in Range(p.actions[b]) =>
                  \E i \in DOMAIN stmts : /\ stmts[i].op = "redirect"
                                          /\ \A j \in DOMAIN stmts : stmts[j].op = "forward" => j < i
<1> DEFINE own == Own(p, b)
           was == IF Silent(p, n) THEN own ELSE Append(own, Mark(n))
           r == NodesRedirected(p)[n].stmts
<1>1. r = Redirected(was) /\ b \in DOMAIN p.actions
  BY DEF IsNode, CopyOf
<1>2. own \in Seq(Statement) /\ ("drop" \in Range(p.actions[b]) => Drops(own) # {})
  BY <1>1, OwnIs
<1>3. Mark(n) \in Statement
  BY NodeMarks, StmtIs
<1>4. was \in Seq(Statement) /\ ("drop" \in Range(p.actions[b]) => Drops(was) # {})
  <2>1. CASE Silent(p, n)
    BY <1>2, <2>1
  <2>2. CASE ~ Silent(p, n)
    <3>1. was = Append(own, Mark(n))
      BY <2>2
    <3> HIDE DEF own, was
    <3>2. was \in Seq(Statement) /\ DOMAIN own \subseteq DOMAIN was /\ \A i \in DOMAIN own : was[i] = own[i]
      BY <1>2, <1>3, <3>1
    <3>3. Drops(own) \subseteq Drops(was)
      BY <3>2 DEF Drops
    <3> QED
      BY <1>2, <3>2, <3>3
  <2> QED
    BY <2>1, <2>2
<1> HIDE DEF own, was, r
<1>5. PICK at, k : IsRedirected(Redirected(was), was, at, k)
  BY <1>4, RedirectedIs
<1>6. /\ r \in Seq(Statement) /\ k \in Nat /\ k =< Len(r)
      /\ \A i \in 1..k : at[i] \in DOMAIN was \ Drops(was) /\ r[i] = was[at[i]]
      /\ \A i \in (k + 1)..Len(r) : r[i] = Stmt("redirect")
      /\ Drops(was) # {} => k < Len(r)
  BY <1>1, <1>5 DEF IsRedirected
<1>7. DOMAIN r = 1..Len(r) /\ Len(r) \in Nat
  BY <1>6, SeqIs
<1>8. Stmt("redirect").op = "redirect"
  BY StmtIs
<1>9. \A i \in DOMAIN r : r[i].op # "drop"
  <2> TAKE i \in DOMAIN r
  <2>1. CASE i \in 1..k
    BY <1>6, <2>1 DEF Drops
  <2>2. CASE i \in (k + 1)..Len(r)
    BY <1>6, <1>8, <2>2
  <2> QED
    BY <1>6, <1>7, <2>1, <2>2
<1>10. ASSUME "drop" \in Range(p.actions[b])
       PROVE  \E i \in DOMAIN r : r[i].op = "redirect" /\ \A j \in DOMAIN r : r[j].op = "forward" => j < i
  <2>1. k < Len(r)
    BY <1>4, <1>6, <1>10
  <2>2. Len(r) \in DOMAIN r /\ Len(r) \in (k + 1)..Len(r)
    BY <1>6, <1>7, <2>1
  <2>3. r[Len(r)].op = "redirect"
    BY <1>6, <1>8, <2>2
  <2>4. \A j \in DOMAIN r : r[j].op = "forward" => j < Len(r)
    BY <1>7, <2>3
  <2> QED
    BY <2>2, <2>3, <2>4
<1> QED
  BY <1>9, <1>10 DEF r

LEMMA DropsRedirectedHolds == PassesMade /\ Done => DropsRedirected
<1> SUFFICES ASSUME PassesMade, Done, NEW a \in DOMAIN nodes
             PROVE  LET stmts == nodes[a].stmts
                        drops(b) == "drop" \in Range(prog.actions[b])
                    IN  /\ \A i \in DOMAIN stmts : stmts[i].op # "drop"
                        /\ \A b \in DOMAIN prog.actions, t \in ProgramTables :
                             drops(b) /\ a \in {b, Distinct(b, t)} =>
                               \E i \in DOMAIN stmts :
                                 /\ stmts[i].op = "redirect"
                                 /\ \A j \in DOMAIN stmts : stmts[j].op = "forward" => j < i
  BY DEF DropsRedirected
<1>1. prog \in Programs /\ nodes = NodesRedirected(prog)
  BY DoneMade
<1>2. PICK c : IsNode(prog, a, NodesRedirected(prog)[a], c)
  BY <1>1, NodesAre
<1>3. ASSUME NEW b \in DOMAIN prog.actions, NEW t \in ProgramTables, a \in {b, Distinct(b, t)} PROVE b = c
  <2>1. CopyOf(prog, a, c)
    BY <1>2 DEF IsNode
  <2>2. Name(b) /\ Name(t) /\ Name(c)
    BY <1>1, <2>1, ProgramIs DEF ProgramTables, CopyOf
  <2>3. CASE a = b
    <3>1. Name(a)
      BY <2>2, <2>3
    <3>2. \A u \in DOMAIN prog.tables : a # Distinct(c, u)
      BY <1>1, <2>2, <3>1, DistinctIsNoName, ProgramIs
    <3> QED
      BY <2>1, <2>3, <3>2 DEF CopyOf
  <2>4. CASE a = Distinct(b, t)
    <3>1. ~ Name(a)
      BY <2>2, <2>4, DistinctIsNoName
    <3>2. PICK u \in DOMAIN prog.tables : a = Distinct(c, u)
      BY <2>1, <2>2, <3>1 DEF CopyOf
    <3>3. Name(u)
      BY <1>1, ProgramIs
    <3>4. Distinct(b, t) = Distinct(c, u)
      BY <2>4, <3>2
    <3>5. Name(b) /\ Name(t) /\ Name(c) /\ Name(u)
      BY <2>2, <3>3
    <3> QED
      BY <3>4, <3>5, DistinctTellsApart
  <2> QED
    BY <1>3, <2>3, <2>4
<1>4. /\ \A i \in DOMAIN nodes[a].stmts : nodes[a].stmts[i].op # "drop"
      /\ "drop" \in Range(prog.actions[c]) =>
           \E i \in DOMAIN nodes[a].stmts :
             /\ nodes[a].stmts[i].op = "redirect"
             /\ \A j \in DOMAIN nodes[a].stmts : nodes[a].stmts[j].op = "forward" => j < i
  BY <1>1, <1>2, NodeRedirects
<1> QED
  BY <1>3, <1>4

-----------------------------------------------------------------------------
(* Runs of blocks: sets of sequences, joined.                              *)

IsJoined(J, A, B) == \A x : x \in J <=> \E l \in A, r \in B : x = l \o r
LEMMA InJoined ==
  ASSUME NEW A, NEW B
  PROVE  IsJoined(Joined(A, B), A, B)
BY DEF Joined, IsJoined

LEMMA JoinedIs ==
  ASSUME NEW E, NEW A \in SUBSET Seq(E), NEW B \in SUBSET Seq(E)
  PROVE  /\ Joined(A, B) \in SUBSET Seq(E)
         /\ Joined({<<>>}, A) = A /\ Joined(A, {<<>>}) = A
<1>1. \A a, b \in Seq(E) : a \o b \in Seq(E)
  OBVIOUS
<1>2. \A a \in Seq(E) : <<>> \o a = a /\ a \o <<>> = a
  OBVIOUS
<1> DEFINE S == Seq(E)
<1>3. A \in SUBSET S /\ B \in SUBSET S /\ (\A a, b \in S : a \o b \in S) /\ \A a \in S : <<>> \o a = a /\ a \o <<>> = a
  BY <1>1, <1>2
<1> HIDE DEF S
<1>4. Joined(A, B) \in SUBSET S
  <2>0. IsJoined(Joined(A, B), A, B)
    BY InJoined
  <2>1. \A x \in Joined(A, B) : \E l \in A, r \in B : x = l \o r
    BY <2>0 DEF IsJoined
  <2>2. ASSUME NEW x \in Joined(A, B) PROVE x \in S
    <3>1. PICK l \in A, r \in B : x = l \o r
      BY <2>1
    <3>2. l \in S /\ r \in S
      BY <1>3
    <3> QED
      BY <1>3, <3>1, <3>2
  <2> QED
    BY <2>2
<1>5. Joined({<<>>}, A) = A
  <2>0. IsJoined(Joined({<<>>}, A), {<<>>}, A)
    <3> DEFINE Z == {<<>>}
    <3> HIDE DEF Z
    <3>1. IsJoined(Joined(Z, A), Z, A)
      BY InJoined
    <3> QED
      BY <3>1 DEF Z
  <2>1. \A x : x \in Joined({<<>>}, A) <=> \E l \in {<<>>}, r \in A : x = l \o r
    BY <2>0 DEF IsJoined
  <2>2. \A r \in A : <<>> \o r = r
    BY <1>3
  <2>3. ASSUME NEW x \in Joined({<<>>}, A) PROVE x \in A
    BY <2>1, <2>2
  <2>4. ASSUME NEW x \in A PROVE x \in Joined({<<>>}, A)
    <3>1. x = <<>> \o x /\ <<>> \in {<<>>}
      BY <2>2
    <3> QED
      BY <2>1, <3>1
  <2> QED
    BY <2>3, <2>4
<1>6. Joined(A, {<<>>}) = A
  <2>0. IsJoined(Joined(A, {<<>>}), A, {<<>>})
    <3> DEFINE Z == {<<>>}
    <3> HIDE DEF Z
    <3>1. IsJoined(Joined(A, Z), A, Z)
      BY InJoined
    <3> QED
      BY <3>1 DEF Z
  <2>1. \A x : x \in Joined(A, {<<>>}) <=> \E l \in A, r \in {<<>>} : x = l \o r
    BY <2>0 DEF IsJoined
  <2>2. \A l \in A : l \o <<>> = l
    BY <1>3
  <2>3. ASSUME NEW x \in Joined(A, {<<>>}) PROVE x \in A
    BY <2>1, <2>2
  <2>4. ASSUME NEW x \in A PROVE x \in Joined(A, {<<>>})
    <3>1. x = x \o <<>> /\ <<>> \in {<<>>}
      BY <2>2
    <3> QED
      BY <2>1, <3>1
  <2> QED
    BY <2>3, <2>4
<1> QED
  BY <1>4, <1>5, <1>6 DEF S

LEMMA JoinedAssoc ==
  ASSUME NEW E, NEW A \in SUBSET Seq(E), NEW B \in SUBSET Seq(E), NEW C \in SUBSET Seq(E)
  PROVE  Joined(Joined(A, B), C) = Joined(A, Joined(B, C))
<1> DEFINE S == Seq(E)
<1>1. A \in SUBSET S /\ B \in SUBSET S /\ C \in SUBSET S /\ \A a, b, c \in S : (a \o b) \o c = a \o (b \o c)
  BY ConcatAssoc
<1> HIDE DEF S
<1>2. ASSUME NEW x \in Joined(Joined(A, B), C) PROVE x \in Joined(A, Joined(B, C))
  <2>0. \A z : z \in Joined(Joined(A, B), C) <=> \E l \in Joined(A, B), r \in C : z = l \o r
    <3>1. IsJoined(Joined(Joined(A, B), C), Joined(A, B), C)
      BY InJoined
    <3> QED
      BY <3>1 DEF IsJoined
  <2>1. PICK y \in Joined(A, B), c \in C : x = y \o c
    BY <1>2, <2>0
  <2>9. \A z : z \in Joined(A, B) <=> \E l \in A, r \in B : z = l \o r
    <3>1. IsJoined(Joined(A, B), A, B)
      BY InJoined
    <3> QED
      BY <3>1 DEF IsJoined
  <2>2. PICK a \in A, b \in B : y = a \o b
    BY <2>9
  <2>3. x = a \o (b \o c)
    BY <1>1, <2>1, <2>2
  <2>4. b \o c \in Joined(B, C)
    <3>1. IsJoined(Joined(B, C), B, C)
      BY InJoined
    <3> QED
      BY <3>1 DEF IsJoined
  <2> QED
    BY <2>3, <2>4, InJoined DEF IsJoined
<1>3. ASSUME NEW x \in Joined(A, Joined(B, C)) PROVE x \in Joined(Joined(A, B), C)
  <2>0. \A z : z \in Joined(A, Joined(B, C)) <=> \E l \in A, r \in Joined(B, C) : z = l \o r
    <3>1. IsJoined(Joined(A, Joined(B, C)), A, Joined(B, C))
      BY InJoined
    <3> QED
      BY <3>1 DEF IsJoined
  <2>1. PICK a \in A, y \in Joined(B, C) : x = a \o y
    BY <1>3, <2>0
  <2>9. \A z : z \in Joined(B, C) <=> \E l \in B, r \in C : z = l \o r
    <3>1. IsJoined(Joined(B, C), B, C)
      BY InJoined
    <3> QED
      BY <3>1 DEF IsJoined
  <2>2. PICK b \in B, c \in C : y = b \o c
    BY <2>9
  <2>3. x = (a \o b) \o c
    BY <1>1, <2>1, <2>2
  <2>4. a \o b \in Joined(A, B)
    <3>1. IsJoined(Joined(A, B), A, B)
      BY InJoined
    <3> QED
      BY <3>1 DEF IsJoined
  <2> QED
    BY <2>3, <2>4, InJoined DEF IsJoined
<1> QED
  BY <1>2, <1>3

IsChain(u, N, E, F) ==
  /\ u \in [0..N -> SUBSET Seq(E)] /\ u[0] = {<<>>}
  /\ \A i \in 1..N : F[i] \in SUBSET Seq(E) /\ u[i] = Joined(u[i - 1], F[i])

(* The statements in X keep to the elements in E.                          *)
RunsTyped(X, into, acts, E) == \A s \in X : StatementRuns(s, into, acts) \in SUBSET Seq(E)
PartRuns(b, into, acts) == [i \in DOMAIN b |-> StatementRuns(b[i], into, acts)]

LEMMA ChainIs ==
  ASSUME NEW X, NEW b \in Seq(X), NEW into, NEW acts, NEW E, RunsTyped(X, into, acts, E)
  PROVE  \E u : IsChain(u, Len(b), E, PartRuns(b, into, acts)) /\ BlockRuns(b, into, acts) = u[Len(b)]
<1> DEFINE N == Len(b)
           V == SUBSET Seq(E)
           P(i) == StatementRuns(b[i], into, acts)
           Step == [i \in 1..N |-> [A \in V |-> Joined(A, P(i))]]
           Is(u) == u = [i \in 0..N |-> IF i = 0 THEN {<<>>} ELSE Joined(u[i - 1], P(i))]
           U == CHOOSE u : Is(u)
<1>1. N \in Nat /\ DOMAIN b = 1..N /\ \A i \in 1..N : b[i] \in X
  BY SeqIs
<1>2. \A i \in 1..N : P(i) \in V
  BY <1>1 DEF RunsTyped
<1>3. IsStep(Step, N, V)
  <2>1. \A i \in 1..N : \A A \in V : Joined(A, P(i)) \in V
    BY <1>2, JoinedIs
  <2> HIDE DEF P, N, V
  <2>2. Step \in [1..N -> [V -> V]]
    BY <2>1
  <2> QED
    BY <2>2 DEF IsStep
<1>4. {<<>>} \in V
  OBVIOUS
<1>5. PICK f : IsRecursive(f, N, V, {<<>>}, Step)
  <2> HIDE DEF V, N, Step
  <2> QED
    BY <1>1, <1>3, <1>4, RecursionUpTo
<1>6. f \in [0..N -> V] /\ f[0] = {<<>>} /\ \A i \in 1..N : f[i] = Step[i][f[i - 1]]
  <2> HIDE DEF V, N, Step
  <2> QED
    BY <1>5 DEF IsRecursive
<1>7. \A i \in 1..N : f[i] = Joined(f[i - 1], P(i))
  <2> SUFFICES ASSUME NEW i \in 1..N PROVE f[i] = Joined(f[i - 1], P(i))
    OBVIOUS
  <2>1. \A A \in V : Step[i][A] = Joined(A, P(i))
    OBVIOUS
  <2> HIDE DEF V, P, Step, N
  <2>2. i - 1 \in 0..N
    BY <1>1
  <2> QED
    BY <1>6, <2>1, <2>2
<1>8. Is(f)
  <2> HIDE DEF V, P, Step, N
  <2>1. \A i \in 0..N : f[i] = IF i = 0 THEN {<<>>} ELSE Joined(f[i - 1], P(i))
    <3> TAKE i \in 0..N
    <3>1. CASE i = 0
      BY <1>6, <3>1
    <3>2. CASE i # 0
      <4>1. i \in 1..N
        BY <1>1, <3>2
      <4> QED
        BY <1>7, <3>2, <4>1
    <3> QED
      BY <3>1, <3>2
  <2>2. f = [i \in 0..N |-> f[i]]
    BY <1>6
  <2> QED
    BY <2>1, <2>2
<1>9. BlockRuns(b, into, acts) = U[N]
  BY DEF BlockRuns
<1>10. Is(U)
  <2> HIDE DEF Is
  <2> QED
    BY <1>8
<1>11. \A i \in 0..N : U[i] = IF i = 0 THEN {<<>>} ELSE Joined(U[i - 1], P(i))
  <2>1. U = [i \in 0..N |-> IF i = 0 THEN {<<>>} ELSE Joined(U[i - 1], P(i))]
    BY <1>10
  <2> HIDE DEF U, P, N
  <2> QED
    BY <2>1
<1>12. U[N] = f[N]
  <2> HIDE DEF U, P, N, Step, V
  <2>1. 0 \in 0..N /\ \A i \in 1..N : i \in 0..N /\ i # 0
    BY <1>1
  <2>2. f[0] = U[0]
    BY <1>6, <1>11, <2>1
  <2>3. \A i \in 1..N : f[i - 1] = U[i - 1] => f[i] = U[i]
    BY <1>7, <1>11, <2>1
  <2>4. f[N] = U[N]
    BY <1>1, <2>2, <2>3, SameSteps
  <2> QED
    BY <2>4
<1>13. \A i \in 1..N : PartRuns(b, into, acts)[i] = P(i)
  BY <1>1 DEF PartRuns
<1>14. IsChain(f, N, E, PartRuns(b, into, acts))
  <2>1. f \in [0..N -> SUBSET Seq(E)] /\ \A i \in 1..N : P(i) \in SUBSET Seq(E)
    BY <1>2, <1>6
  <2> HIDE DEF P, N
  <2> QED
    BY <1>6, <1>7, <1>13, <2>1 DEF IsChain
<1> QED
  BY <1>9, <1>12, <1>14

(* The chain of two sequences, one behind the other.                       *)
LEMMA ChainsJoin ==
  ASSUME NEW E, NEW M \in Nat, NEW N \in Nat, NEW F, NEW G, NEW H, NEW u, NEW v, NEW w,
         IsChain(u, M, E, F), IsChain(v, N, E, G), IsChain(w, M + N, E, H),
         \A i \in 1..M : H[i] = F[i], \A i \in 1..N : H[M + i] = G[i]
  PROVE  w[M + N] = Joined(u[M], v[N])
<1> DEFINE S == SUBSET Seq(E)
<1>1. /\ u \in [0..M -> S] /\ u[0] = {<<>>} /\ \A i \in 1..M : u[i] = Joined(u[i - 1], F[i])
      /\ v \in [0..N -> S] /\ v[0] = {<<>>} /\ \A i \in 1..N : G[i] \in S /\ v[i] = Joined(v[i - 1], G[i])
      /\ w[0] = {<<>>} /\ \A i \in 1..(M + N) : w[i] = Joined(w[i - 1], H[i])
  BY DEF IsChain
<1>2. /\ \A A \in S : Joined(A, {<<>>}) = A
      /\ \A A, B, C \in S : Joined(Joined(A, B), C) = Joined(A, Joined(B, C))
  <2>1. ASSUME NEW A \in S PROVE Joined(A, {<<>>}) = A
    BY JoinedIs
  <2>2. ASSUME NEW A \in S, NEW B \in S, NEW C \in S PROVE Joined(Joined(A, B), C) = Joined(A, Joined(B, C))
    BY JoinedAssoc
  <2> HIDE DEF S
  <2> QED
    BY <2>1, <2>2
<1> HIDE DEF S
<1>3. w[M] = u[M]
  <2>1. \A i \in 1..M : i \in 1..(M + N)
    OBVIOUS
  <2>2. \A i \in 1..M : w[i - 1] = u[i - 1] => w[i] = u[i]
    BY <1>1, <2>1
  <2>3. w[0] = u[0]
    BY <1>1
  <2> QED
    BY <2>2, <2>3, SameSteps
<1> DEFINE T == {i \in 0..N : w[M + i] = Joined(u[M], v[i])}
<1>4. 0 \in T
  <2>1. u[M] \in S
    BY <1>1
  <2>2. M + 0 = M /\ 0 \in 0..N
    OBVIOUS
  <2>3. Joined(u[M], v[0]) = u[M]
    BY <1>1, <1>2, <2>1
  <2> QED
    BY <1>3, <2>2, <2>3
<1>5. ASSUME NEW i \in 1..N, i - 1 \in T PROVE i \in T
  <2>1. PICK k \in T : k = i - 1
    BY <1>5
  <2>2. w[M + (i - 1)] = Joined(u[M], v[i - 1])
    BY <2>1
  <2>3. M + i \in 1..(M + N) /\ (M + i) - 1 = M + (i - 1) /\ i - 1 \in 0..N
    OBVIOUS
  <2>4. w[M + i] = Joined(w[M + (i - 1)], G[i])
    BY <1>1, <2>3
  <2>5. u[M] \in S /\ v[i - 1] \in S /\ G[i] \in S
    BY <1>1, <2>3
  <2>6. w[M + i] = Joined(u[M], Joined(v[i - 1], G[i]))
    BY <1>2, <2>2, <2>4, <2>5
  <2> QED
    BY <1>1, <2>6
<1> HIDE DEF T
<1>6. N \in T
  <2>1. 0..N \subseteq T
    BY <1>4, <1>5, InductionUpTo
  <2> QED
    BY <2>1
<1> QED
  BY <1>6 DEF T

LEMMA BlockRunsTyped ==
  ASSUME NEW X, NEW b \in Seq(X), NEW into, NEW acts, NEW E, RunsTyped(X, into, acts, E)
  PROVE  BlockRuns(b, into, acts) \in SUBSET Seq(E)
<1>1. PICK u : IsChain(u, Len(b), E, PartRuns(b, into, acts)) /\ BlockRuns(b, into, acts) = u[Len(b)]
  BY ChainIs
<1>2. Len(b) \in 0..Len(b)
  BY SeqIs
<1> QED
  BY <1>1, <1>2 DEF IsChain

LEMMA BlockRunsConcat ==
  ASSUME NEW X, NEW a \in Seq(X), NEW b \in Seq(X), NEW into, NEW acts, NEW E, RunsTyped(X, into, acts, E)
  PROVE  BlockRuns(a \o b, into, acts) = Joined(BlockRuns(a, into, acts), BlockRuns(b, into, acts))
<1> DEFINE c == a \o b
<1>1. /\ c \in Seq(X) /\ Len(c) = Len(a) + Len(b) /\ DOMAIN c = 1..Len(c)
      /\ \A i \in 1..Len(a) : c[i] = a[i]
      /\ \A i \in 1..Len(b) : c[Len(a) + i] = b[i]
  <2>1. IsConcat(c, a, b, X)
    BY ConcatIs
  <2> HIDE DEF c
  <2> QED
    BY <2>1, SeqIs DEF IsConcat
<1> HIDE DEF c
<1>2. DOMAIN a = 1..Len(a) /\ Len(a) \in Nat /\ DOMAIN b = 1..Len(b) /\ Len(b) \in Nat
  BY SeqIs
<1>3. PICK u : IsChain(u, Len(a), E, PartRuns(a, into, acts)) /\ BlockRuns(a, into, acts) = u[Len(a)]
  BY ChainIs
<1>4. PICK v : IsChain(v, Len(b), E, PartRuns(b, into, acts)) /\ BlockRuns(b, into, acts) = v[Len(b)]
  BY ChainIs
<1>5. PICK w : IsChain(w, Len(c), E, PartRuns(c, into, acts)) /\ BlockRuns(c, into, acts) = w[Len(c)]
  <2>1. c \in Seq(X)
    BY <1>1
  <2> QED
    BY <2>1, ChainIs
<1>6. \A i \in 1..Len(a) : PartRuns(c, into, acts)[i] = PartRuns(a, into, acts)[i]
  <2>1. \A i \in 1..Len(a) : i \in 1..Len(c)
    BY <1>1, <1>2
  <2> QED
    BY <1>1, <1>2, <2>1 DEF PartRuns
<1>7. \A i \in 1..Len(b) : PartRuns(c, into, acts)[Len(a) + i] = PartRuns(b, into, acts)[i]
  <2>1. \A i \in 1..Len(b) : Len(a) + i \in 1..Len(c)
    BY <1>1, <1>2
  <2> QED
    BY <1>1, <1>2, <2>1 DEF PartRuns
<1>8. w[Len(a) + Len(b)] = Joined(u[Len(a)], v[Len(b)])
  BY <1>1, <1>2, <1>3, <1>4, <1>5, <1>6, <1>7, ChainsJoin
<1> QED
  BY <1>1, <1>3, <1>4, <1>5, <1>8 DEF c

LEMMA BlockRunsNone ==
  ASSUME NEW into, NEW acts
  PROVE  BlockRuns(<<>>, into, acts) = {<<>>}
<1>1. RunsTyped({}, into, acts, {}) /\ <<>> \in Seq({})
  BY DEF RunsTyped
<1>2. PICK u : IsChain(u, Len(<<>>), {}, PartRuns(<<>>, into, acts)) /\ BlockRuns(<<>>, into, acts) = u[Len(<<>>)]
  BY <1>1, ChainIs
<1>3. Len(<<>>) = 0
  OBVIOUS
<1> QED
  BY <1>2, <1>3 DEF IsChain

LEMMA BlockRunsOne ==
  ASSUME NEW s, NEW into, NEW acts, NEW E, StatementRuns(s, into, acts) \in SUBSET Seq(E)
  PROVE  BlockRuns(<<s>>, into, acts) = StatementRuns(s, into, acts)
<1>1. RunsTyped({s}, into, acts, E)
  BY DEF RunsTyped
<1>2. <<s>> \in Seq({s}) /\ Len(<<s>>) = 1 /\ DOMAIN <<s>> = 1..1 /\ <<s>>[1] = s
  OBVIOUS
<1>3. PICK u : IsChain(u, Len(<<s>>), E, PartRuns(<<s>>, into, acts)) /\ BlockRuns(<<s>>, into, acts) = u[Len(<<s>>)]
  BY <1>1, <1>2, ChainIs
<1>4. PartRuns(<<s>>, into, acts)[1] = StatementRuns(s, into, acts)
  BY <1>2 DEF PartRuns
<1>5. u[0] = {<<>>} /\ u[1] = Joined(u[0], StatementRuns(s, into, acts))
  <2>1. 1 \in 1..1 /\ 1 - 1 = 0
    OBVIOUS
  <2> DEFINE F == PartRuns(<<s>>, into, acts)
  <2>2. IsChain(u, 1, E, F) /\ F[1] = StatementRuns(s, into, acts)
    BY <1>2, <1>3, <1>4
  <2> HIDE DEF F
  <2>3. u[0] = {<<>>} /\ u[1] = Joined(u[0], F[1])
    BY <2>1, <2>2 DEF IsChain
  <2> QED
    BY <2>2, <2>3
<1>6. Joined({<<>>}, StatementRuns(s, into, acts)) = StatementRuns(s, into, acts)
  BY JoinedIs
<1> QED
  BY <1>2, <1>3, <1>5, <1>6

LEMMA BlockRunsAgree ==
  ASSUME NEW X, NEW b \in Seq(X), NEW v, NEW w, NEW acts, NEW E, RunsTyped(X, v, acts, E),
         \A s \in X : StatementRuns(s, v, acts) = StatementRuns(s, w, acts)
  PROVE  BlockRuns(b, v, acts) = BlockRuns(b, w, acts)
<1>1. RunsTyped(X, w, acts, E)
  BY DEF RunsTyped
<1>2. \A i \in 1..Len(b) : b[i] \in X /\ DOMAIN b = 1..Len(b)
  BY SeqIs
<1>3. PartRuns(b, v, acts) = PartRuns(b, w, acts)
  <2>1. \A i \in DOMAIN b : b[i] \in X
    BY SeqIs
  <2> QED
    BY <2>1 DEF PartRuns
<1>4. PICK f : IsChain(f, Len(b), E, PartRuns(b, v, acts)) /\ BlockRuns(b, v, acts) = f[Len(b)]
  BY ChainIs
<1>5. PICK g : IsChain(g, Len(b), E, PartRuns(b, w, acts)) /\ BlockRuns(b, w, acts) = g[Len(b)]
  BY <1>1, ChainIs
<1>6. Len(b) \in Nat
  BY SeqIs
<1>7. f[0] = g[0] /\ \A i \in 1..Len(b) : f[i - 1] = g[i - 1] => f[i] = g[i]
  BY <1>3, <1>4, <1>5 DEF IsChain
<1>8. f[Len(b)] = g[Len(b)]
  BY <1>6, <1>7, SameSteps
<1> QED
  BY <1>4, <1>5, <1>8

-----------------------------------------------------------------------------
(* The runs of a whole program.                                            *)

(* A statement that leads to blocks below n, and takes elements of E.      *)
IsGuided(s, n, acts, E) ==
  \/ /\ s.kind = "apply" /\ \A a \in acts[s.table] : <<s.table, a>> \in E
     /\ \A j \in DOMAIN s.cases : s.cases[j].block \in 1..(n - 1)
  \/ s.kind = "call" /\ s.block \in 1..(n - 1)
  \/ s.kind = "if" /\ s.then \in 1..(n - 1) /\ (s.else = <<>> \/ s.else[1] \in 1..(n - 1))
  \/ s.kind = "assert"
IntoTyped(into, n, E) == \A m \in 1..(n - 1) : into[m] \in SUBSET Seq(E)

LEMMA CaseRunsTyped ==
  ASSUME NEW s, NEW n, NEW E, NEW into, IntoTyped(into, n, E), NEW a,
         \A j \in DOMAIN s.cases : s.cases[j].block \in 1..(n - 1)
  PROVE  CaseRuns(s, a, into) \in SUBSET Seq(E)
<1> DEFINE js == {j \in DOMAIN s.cases : s.cases[j].on = a}
           S == Seq(E)
<1>1. CaseRuns(s, a, into) = IF js = {} THEN {<<>>} ELSE UNION {into[s.cases[j].block] : j \in js}
  BY DEF CaseRuns
<1>2. <<>> \in S
  OBVIOUS
<1>3. \A j \in js : into[s.cases[j].block] \in SUBSET S
  BY DEF IntoTyped
<1> HIDE DEF js, S
<1>4. CaseRuns(s, a, into) \in SUBSET S
  BY <1>1, <1>2, <1>3
<1> QED
  BY <1>4 DEF S

TableRuns(s, into, acts) == UNION {Joined({<<<<s.table, a>>>>}, CaseRuns(s, a, into)) : a \in acts[s.table]}
LEMMA ApplyRuns ==
  ASSUME NEW s, s.kind = "apply", NEW into, NEW acts
  PROVE  StatementRuns(s, into, acts) = TableRuns(s, into, acts)
BY DEF StatementRuns, TableRuns

LEMMA GuidedRuns ==
  ASSUME NEW s, NEW n, NEW acts, NEW E, IsGuided(s, n, acts, E), NEW into, IntoTyped(into, n, E)
  PROVE  StatementRuns(s, into, acts) \in SUBSET Seq(E)
<1>1. <<>> \in Seq(E)
  OBVIOUS
<1>2. CASE s.kind = "apply"
  <2>1. ASSUME NEW a \in acts[s.table] PROVE Joined({<<<<s.table, a>>>>}, CaseRuns(s, a, into)) \in SUBSET Seq(E)
    <3> DEFINE x == <<s.table, a>>
               C == CaseRuns(s, a, into)
    <3>1. x \in E
      BY <1>2 DEF IsGuided
    <3>2. C \in SUBSET Seq(E)
      BY <1>2, CaseRunsTyped DEF IsGuided
    <3> HIDE DEF x, C
    <3>3. {<<x>>} \in SUBSET Seq(E)
      BY <3>1
    <3>4. Joined({<<x>>}, C) \in SUBSET Seq(E)
      BY <3>2, <3>3, JoinedIs
    <3> QED
      BY <3>4 DEF x, C
  <2> DEFINE S == Seq(E)
             P(a) == Joined({<<<<s.table, a>>>>}, CaseRuns(s, a, into))
  <2>2. TableRuns(s, into, acts) = UNION {P(a) : a \in acts[s.table]}
    BY DEF TableRuns
  <2>3. \A a \in acts[s.table] : P(a) \in SUBSET S
    BY <2>1
  <2>4. StatementRuns(s, into, acts) = TableRuns(s, into, acts)
    BY <1>2, ApplyRuns
  <2> HIDE DEF S, P
  <2>5. StatementRuns(s, into, acts) \in SUBSET S
    BY <2>2, <2>3, <2>4
  <2> QED
    BY <2>5 DEF S
<1>3. CASE s.kind = "call"
  BY <1>3 DEF IsGuided, IntoTyped, StatementRuns
<1>4. CASE s.kind = "if"
  <2>1. /\ into[s.then] \in SUBSET Seq(E)
        /\ s.else = <<>> \/ into[s.else[1]] \in SUBSET Seq(E)
    BY <1>4 DEF IsGuided, IntoTyped
  <2>2. StatementRuns(s, into, acts) = into[s.then] \cup IF s.else = <<>> THEN {<<>>} ELSE into[s.else[1]]
    BY <1>4 DEF StatementRuns
  <2> QED
    BY <1>1, <2>1, <2>2
<1>5. CASE s.kind = "assert"
  BY <1>1, <1>5 DEF StatementRuns
<1> QED
  BY <1>2, <1>3, <1>4, <1>5 DEF IsGuided

LEMMA GuidedAgree ==
  ASSUME NEW s, NEW n, NEW acts, NEW E, IsGuided(s, n, acts, E), NEW v, NEW w, \A m \in 1..(n - 1) : v[m] = w[m]
  PROVE  StatementRuns(s, v, acts) = StatementRuns(s, w, acts)
<1>2. CASE s.kind = "apply"
  <2>1. \A j \in DOMAIN s.cases : v[s.cases[j].block] = w[s.cases[j].block]
    BY <1>2 DEF IsGuided
  <2>2. \A a : CaseRuns(s, a, v) = CaseRuns(s, a, w)
    <3> TAKE a
    <3> DEFINE js == {j \in DOMAIN s.cases : s.cases[j].on = a}
    <3>1. CaseRuns(s, a, v) = IF js = {} THEN {<<>>} ELSE UNION {v[s.cases[j].block] : j \in js}
      BY DEF CaseRuns
    <3>2. CaseRuns(s, a, w) = IF js = {} THEN {<<>>} ELSE UNION {w[s.cases[j].block] : j \in js}
      BY DEF CaseRuns
    <3>3. \A j \in js : v[s.cases[j].block] = w[s.cases[j].block]
      BY <2>1
    <3> HIDE DEF js
    <3>4. {v[s.cases[j].block] : j \in js} = {w[s.cases[j].block] : j \in js}
      BY <3>3
    <3> QED
      BY <3>1, <3>2, <3>4
  <2>3. StatementRuns(s, v, acts) = TableRuns(s, v, acts) /\ StatementRuns(s, w, acts) = TableRuns(s, w, acts)
    BY <1>2, ApplyRuns
  <2> DEFINE P(a) == Joined({<<<<s.table, a>>>>}, CaseRuns(s, a, v))
             Q(a) == Joined({<<<<s.table, a>>>>}, CaseRuns(s, a, w))
             A == acts[s.table]
  <2>4. TableRuns(s, v, acts) = UNION {P(a) : a \in A} /\ TableRuns(s, w, acts) = UNION {Q(a) : a \in A}
    BY DEF TableRuns
  <2>5. \A a \in A : P(a) = Q(a)
    BY <2>2
  <2> HIDE DEF P, Q, A
  <2>6. {P(a) : a \in A} = {Q(a) : a \in A}
    BY <2>5
  <2> QED
    BY <2>3, <2>4, <2>6
<1>3. CASE s.kind = "call"
  BY <1>3 DEF IsGuided, StatementRuns
<1>4. CASE s.kind = "if"
  <2>1. v[s.then] = w[s.then] /\ (s.else = <<>> \/ v[s.else[1]] = w[s.else[1]])
    BY <1>4 DEF IsGuided
  <2> QED
    BY <1>4, <2>1 DEF StatementRuns
<1>5. CASE s.kind = "assert"
  BY <1>5 DEF StatementRuns
<1> QED
  BY <1>2, <1>3, <1>4, <1>5 DEF IsGuided

GuidedBlock(b, n, acts, E) == b \in Seq(Range(b)) /\ \A s \in Range(b) : IsGuided(s, n, acts, E)
IsLaidOut(bs, acts, E) ==
  /\ Len(bs) \in Nat /\ DOMAIN bs = 1..Len(bs)
  /\ \A n \in 1..Len(bs) : GuidedBlock(bs[n], n, acts, E)

LEMMA GuidedBlockRuns ==
  ASSUME NEW b, NEW n, NEW acts, NEW E, GuidedBlock(b, n, acts, E), NEW into, IntoTyped(into, n, E)
  PROVE  RunsTyped(Range(b), into, acts, E) /\ BlockRuns(b, into, acts) \in SUBSET Seq(E)
<1>1. ASSUME NEW s \in Range(b) PROVE StatementRuns(s, into, acts) \in SUBSET Seq(E)
  BY GuidedRuns DEF GuidedBlock
<1>2. RunsTyped(Range(b), into, acts, E)
  BY <1>1 DEF RunsTyped
<1> QED
  BY <1>2, BlockRunsTyped DEF GuidedBlock

LEMMA GuidedBlockAgree ==
  ASSUME NEW b, NEW n, NEW acts, NEW E, GuidedBlock(b, n, acts, E), NEW v, IntoTyped(v, n, E), NEW w,
         \A m \in 1..(n - 1) : v[m] = w[m]
  PROVE  BlockRuns(b, v, acts) = BlockRuns(b, w, acts)
<1>1. ASSUME NEW s \in Range(b) PROVE StatementRuns(s, v, acts) = StatementRuns(s, w, acts)
  BY GuidedAgree DEF GuidedBlock
<1>2. RunsTyped(Range(b), v, acts, E) /\ b \in Seq(Range(b))
  BY GuidedBlockRuns DEF GuidedBlock
<1> QED
  BY <1>1, <1>2, BlockRunsAgree

LEMMA RunsAre ==
  ASSUME NEW bs, NEW acts, NEW E, IsLaidOut(bs, acts, E)
  PROVE  /\ Runs(bs, acts) \in Seq(SUBSET Seq(E)) /\ Len(Runs(bs, acts)) = Len(bs)
         /\ \A n \in 1..Len(bs) : /\ Runs(bs, acts)[n] = BlockRuns(bs[n], Runs(bs, acts), acts)
                                  /\ IntoTyped(Runs(bs, acts), n, E)
<1> DEFINE N == Len(bs)
           Z == SUBSET Seq(E)
           F == [n \in 1..N |-> [v \in Seq(Z) |-> IF Len(v) = n - 1 THEN BlockRuns(bs[n], v, acts) ELSE {}]]
           Is(u) == u = [n \in 0..N |-> IF n = 0 THEN <<>> ELSE Append(u[n - 1], BlockRuns(bs[n], u[n - 1], acts))]
           U == CHOOSE u : Is(u)
<1>1. N \in Nat /\ DOMAIN bs = 1..N
  BY DEF IsLaidOut
<1>0. ASSUME NEW n \in 1..N, NEW v \in Seq(Z), Len(v) >= n - 1 PROVE IntoTyped(v, n, E)
  <2>1. \A m \in 1..(n - 1) : m \in 1..Len(v)
    BY <1>0, <1>1
  <2> HIDE DEF Z, N
  <2>2. \A m \in 1..(n - 1) : v[m] \in Z
    BY <2>1
  <2> QED
    BY <2>2 DEF IntoTyped, Z
<1>2. F \in [1..N -> [Seq(Z) -> Z]]
  <2>1. ASSUME NEW n \in 1..N, NEW v \in Seq(Z), Len(v) = n - 1 PROVE BlockRuns(bs[n], v, acts) \in Z
    <3>1. IntoTyped(v, n, E)
      BY <1>0, <2>1
    <3>2. GuidedBlock(bs[n], n, acts, E)
      BY DEF IsLaidOut
    <3> QED
      BY <3>1, <3>2, GuidedBlockRuns
  <2>2. {} \in Z
    OBVIOUS
  <2> HIDE DEF N, Z
  <2> QED
    BY <2>1, <2>2
<1>3. PICK f : IsGrowing(f, N, Z, F)
  <2> HIDE DEF N, Z, F
  <2> QED
    BY <1>1, <1>2, GrowingExists
<1>4. /\ f \in [0..N -> Seq(Z)] /\ f[0] = <<>> /\ \A n \in 0..N : Len(f[n]) = n
      /\ \A n \in 1..N : f[n] = Append(f[n - 1], F[n][f[n - 1]])
  <2> HIDE DEF N, Z, F
  <2> QED
    BY <1>3 DEF IsGrowing
<1>5. \A n \in 1..N : F[n][f[n - 1]] = BlockRuns(bs[n], f[n - 1], acts)
  <2> TAKE n \in 1..N
  <2>1. \A v \in Seq(Z) : Len(v) = n - 1 => F[n][v] = BlockRuns(bs[n], v, acts)
    OBVIOUS
  <2> HIDE DEF N, Z, F
  <2>2. n - 1 \in 0..N
    BY <1>1
  <2>3. f[n - 1] \in Seq(Z) /\ Len(f[n - 1]) = n - 1
    BY <1>4, <2>2
  <2> QED
    BY <2>1, <2>3
<1>6. Is(f)
  <2> HIDE DEF N, Z, F
  <2>1. \A n \in 0..N : f[n] = IF n = 0 THEN <<>> ELSE Append(f[n - 1], BlockRuns(bs[n], f[n - 1], acts))
    <3> TAKE n \in 0..N
    <3>1. CASE n = 0
      BY <1>4, <3>1
    <3>2. CASE n # 0
      <4>1. n \in 1..N
        BY <1>1, <3>2
      <4> QED
        BY <1>4, <1>5, <3>2, <4>1
    <3> QED
      BY <3>1, <3>2
  <2>2. f = [n \in 0..N |-> f[n]]
    BY <1>4
  <2> QED
    BY <2>1, <2>2
<1>7. Runs(bs, acts) = U[N]
  BY DEF Runs
<1>8. Is(U)
  <2> HIDE DEF Is
  <2> QED
    BY <1>6
<1>9. U[N] = f[N]
  <2> HIDE DEF U, F, Z, N
  <2>1. U[0] = f[0]
    BY <1>1, <1>4, <1>8
  <2>2. \A n \in 1..N : U[n] = Append(U[n - 1], BlockRuns(bs[n], U[n - 1], acts))
    <3> TAKE n \in 1..N
    <3>1. n \in 0..N /\ n # 0
      BY <1>1
    <3> QED
      BY <1>8, <3>1
  <2>3. \A n \in 1..N : U[n - 1] = f[n - 1] => U[n] = f[n]
    BY <1>4, <1>5, <2>2
  <2> QED
    BY <1>1, <2>1, <2>3, SameSteps
<1>10. /\ f[N] \in Seq(Z) /\ Len(f[N]) = N
       /\ \A n \in 1..N : /\ f[n - 1] \in Seq(Z) /\ Len(f[n - 1]) = n - 1
                          /\ f[N][n] = F[n][f[n - 1]] /\ \A m \in 1..(n - 1) : f[n - 1][m] = f[N][m]
  <2> HIDE DEF F, Z, N
  <2>1. IsGrown(f, N, Z, F)
    BY <1>1, <1>3, GrowingIs
  <2> QED
    BY <2>1 DEF IsGrown
<1> HIDE DEF U, F, Is
<1>11. Runs(bs, acts) \in Seq(Z) /\ Len(Runs(bs, acts)) = N
  BY <1>7, <1>9, <1>10
<1>12. ASSUME NEW n \in 1..N PROVE Runs(bs, acts)[n] = BlockRuns(bs[n], Runs(bs, acts), acts)
  <2>1. Runs(bs, acts)[n] = BlockRuns(bs[n], f[n - 1], acts)
    BY <1>5, <1>7, <1>9, <1>10
  <2>2. \A m \in 1..(n - 1) : f[n - 1][m] = Runs(bs, acts)[m]
    BY <1>7, <1>9, <1>10
  <2>3. f[n - 1] \in Seq(Z) /\ Len(f[n - 1]) >= n - 1
    BY <1>10
  <2>4. IntoTyped(f[n - 1], n, E)
    BY <1>0, <2>3
  <2>5. GuidedBlock(bs[n], n, acts, E)
    BY DEF IsLaidOut
  <2>6. BlockRuns(bs[n], f[n - 1], acts) = BlockRuns(bs[n], Runs(bs, acts), acts)
    BY <2>2, <2>4, <2>5, GuidedBlockAgree
  <2> QED
    BY <2>1, <2>6
<1>13. ASSUME NEW n \in 1..N PROVE IntoTyped(Runs(bs, acts), n, E)
  <2>1. Len(Runs(bs, acts)) >= n - 1
    BY <1>1, <1>11
  <2> QED
    BY <1>0, <1>11, <2>1
<1> QED
  BY <1>11, <1>12, <1>13

-----------------------------------------------------------------------------
(* The runs of the program and of the instrumented one.                    *)

Steps == Seq(Nat) \X Seq(Nat)
ActsOf(p) == [t \in DOMAIN p.tables |-> Range(p.tables[t].actions)]
AddedTables(p) == {e.table : e \in Range(ExtraPort(p))}
ActsNow(p) ==
  [t \in DOMAIN p.tables \cup AddedTables(p) |->
     IF t \in DOMAIN p.tables THEN Range(TablesRenamed(p)[t].actions) ELSE {None}]

LEMMA ActsAre ==
  ASSUME NEW p \in Programs
  PROVE  /\ \A t \in DOMAIN p.tables :
              /\ ActsOf(p)[t] = Range(p.tables[t].actions)
              /\ ActsNow(p)[t] = {BitOf(ActionTables(p), a, t) : a \in ActsOf(p)[t]}
              /\ \A a \in ActsOf(p)[t] : /\ a \in DOMAIN p.actions
                                         /\ <<t, a>> \in Steps /\ <<t, BitOf(ActionTables(p), a, t)>> \in Steps
         /\ \A t \in AddedTables(p) : t \notin DOMAIN p.tables => ActsNow(p)[t] = {None} /\ <<t, None>> \in Steps
<1>1. ASSUME NEW t \in DOMAIN p.tables
      PROVE  /\ ActsOf(p)[t] = Range(p.tables[t].actions)
             /\ ActsNow(p)[t] = {BitOf(ActionTables(p), a, t) : a \in ActsOf(p)[t]}
             /\ \A a \in ActsOf(p)[t] : /\ a \in DOMAIN p.actions
                                        /\ <<t, a>> \in Steps /\ <<t, BitOf(ActionTables(p), a, t)>> \in Steps
  <2>1. ActsOf(p)[t] = Range(p.tables[t].actions) /\ ActsNow(p)[t] = Range(TablesRenamed(p)[t].actions)
    BY DEF ActsOf, ActsNow
  <2>2. Range(TablesRenamed(p)[t].actions) = {BitOf(ActionTables(p), a, t) : a \in Range(p.tables[t].actions)}
    BY TablesAre
  <2>3. ASSUME NEW a \in ActsOf(p)[t]
        PROVE  a \in DOMAIN p.actions /\ <<t, a>> \in Steps /\ <<t, BitOf(ActionTables(p), a, t)>> \in Steps
    <3>1. p.tables[t].actions \in Seq(DOMAIN p.actions) /\ Name(t) /\ \A b \in DOMAIN p.actions : Name(b)
      BY ProgramIs
    <3>2. a \in DOMAIN p.actions
      BY <2>1, <2>3, <3>1, InRange
    <3>3. t \in Seq(Nat) /\ a \in Seq(Nat)
      BY <3>1, <3>2 DEF Name
    <3>4. BitOf(ActionTables(p), a, t) \in Seq(Nat)
      BY <3>2, BitIsNoWord DEF NoWord
    <3> QED
      BY <3>2, <3>3, <3>4 DEF Steps
  <2> QED
    BY <2>1, <2>2, <2>3
<1>2. ASSUME NEW t \in AddedTables(p), t \notin DOMAIN p.tables PROVE ActsNow(p)[t] = {None} /\ <<t, None>> \in Steps
  <2>1. ActsNow(p)[t] = {None}
    BY <1>2 DEF ActsNow
  <2>2. PICK e \in Range(ExtraPort(p)) : t = e.table
    BY DEF AddedTables
  <2>3. e \in Entry
    BY ExtraRange, InRange
  <2>4. t \in Seq(Nat) /\ None \in Seq(Nat)
    BY <2>2, <2>3 DEF Entry, None
  <2> QED
    BY <2>1, <2>4 DEF Steps
<1> QED
  BY <1>1, <1>2

(* The added tables are none of the program's.                             *)
LEMMA AddedAre ==
  ASSUME NEW p \in Programs, NEW s \in Added(p)
  PROVE  /\ s = Apply(s.table) /\ s.kind = "apply" /\ s.cases = <<>>
         /\ s.table \in AddedTables(p) /\ s.table \notin DOMAIN p.tables
<1>0. \A t \in DOMAIN p.tables : Name(t)
  BY ProgramIs
<1>1. CASE \E t \in DOMAIN TableState(p) : s = Apply(TState \o t)
  <2>1. PICK t \in DOMAIN TableState(p) : s = Apply(TState \o t)
    BY <1>1
  <2>2. s.table = TState \o t /\ s = Apply(s.table) /\ s.kind = "apply" /\ s.cases = <<>>
    BY <2>1 DEF Apply
  <2>3. StateEntry(p, t) \in Range(ExtraPort(p)) /\ StateEntry(p, t).table = TState \o t
    BY ExtraRange DEF StateEntries, StateEntry
  <2>4. ~ Name(TState \o t)
    <3>1. t \in Seq(Nat)
      BY TableStateIs
    <3>2. 1 \in DOMAIN (<<52>> \o t) /\ (<<52>> \o t)[1] = 52
      BY <3>1
    <3>3. 52 \in 51..59
      OBVIOUS
    <3> DEFINE w == <<52>> \o t
    <3>4. 1 \in DOMAIN w /\ w[1] \in 51..59
      BY <3>2, <3>3
    <3> HIDE DEF w
    <3>5. ~ Name(w)
      BY <3>4 DEF Name
    <3> QED
      BY <3>5 DEF w, TState
  <2> QED
    BY <1>0, <2>2, <2>3, <2>4 DEF AddedTables
<1>2. CASE s = Apply(PortCorrection)
  <2>1. s.table = PortCorrection /\ s = Apply(s.table) /\ s.kind = "apply" /\ s.cases = <<>>
    BY <1>2 DEF Apply
  <2>2. PortEntry \in Range(ExtraPort(p)) /\ PortEntry.table = PortCorrection
    BY ExtraRange DEF PortEntry
  <2>3. ~ Name(PortCorrection)
    BY DEF Name, PortCorrection
  <2> QED
    BY <1>0, <2>1, <2>2, <2>3 DEF AddedTables
<1>3. CASE s = Apply(VisitedType)
  <2>1. s.table = VisitedType /\ s = Apply(s.table) /\ s.kind = "apply" /\ s.cases = <<>>
    BY <1>3 DEF Apply
  <2>2. VisitedEntry \in Range(ExtraPort(p)) /\ VisitedEntry.table = VisitedType
    BY ExtraRange DEF VisitedEntry
  <2>3. ~ Name(VisitedType)
    BY DEF Name, VisitedType
  <2> QED
    BY <1>0, <2>1, <2>2, <2>3 DEF AddedTables
<1> QED
  BY <1>1, <1>2, <1>3 DEF Added

(* What becomes of a statement.                                            *)
NewOn(p, s, j) ==
  IF j = 1 /\ s.cases[j].on \in Range(PopularActions(p)) /\ Plain(s.table)
  THEN Distinct(s.cases[j].on, s.table) ELSE s.cases[j].on
IsNewCase(p, s, c) ==
  /\ c.kind = s.kind
  /\ s.kind # "apply" => c = s
  /\ s.kind = "apply" => /\ c.table = s.table /\ DOMAIN c.cases = DOMAIN s.cases
                         /\ \A j \in DOMAIN s.cases : c.cases[j].block = s.cases[j].block /\ c.cases[j].on = NewOn(p, s, j)
LEMMA NewCaseIs ==
  ASSUME NEW p \in Programs, NEW n \in DOMAIN p.blocks, NEW i \in DOMAIN p.blocks[n]
  PROVE  IsNewCase(p, Part(p, n, i), NewCase(p, n, i))
<1> DEFINE s == Part(p, n, i)
           c == NewCase(p, n, i)
           names == Range(PopularActions(p))
<1>1. s \in Statements(p, n)
  BY BlocksAre
<1>2. c = RenamedCase(s, names)
  BY DEF NewCase
<1>3. c.kind = s.kind /\ (s.kind # "apply" => c = s) /\ (s.kind = "apply" => c.table = s.table)
  BY <1>1, <1>2, RenamedCaseKeeps
<1>4. ASSUME s.kind = "apply"
      PROVE  DOMAIN c.cases = DOMAIN s.cases
             /\ \A j \in DOMAIN s.cases : c.cases[j].block = s.cases[j].block /\ c.cases[j].on = NewOn(p, s, j)
  <2> DEFINE C == [on : DOMAIN p.actions, block : 1..(n - 1)]
  <2>1. s = [kind |-> "apply", table |-> s.table, cases |-> s.cases] /\ s.cases \in Seq(C)
    BY <1>1, <1>4, StatementIs DEF IsApply, IsCall, IsIf, IsAssert
  <2>2. \A x \in C : x = [on |-> x.on, block |-> x.block]
    OBVIOUS
  <2> HIDE DEF s, c, C
  <2>3. \A j \in DOMAIN s.cases : s.cases[j] = [on |-> s.cases[j].on, block |-> s.cases[j].block]
    BY <2>1, <2>2, SeqIs
  <2>4. CASE s.cases # <<>> /\ s.cases[1].on \in names /\ Plain(s.table)
    <3>1. 1 \in DOMAIN s.cases
      BY <2>1, <2>4
    <3>2. c = [s EXCEPT !.cases[1].on = Distinct(@, s.table)]
      BY <1>2, <1>4, <2>4 DEF RenamedCase
    <3>3. c.cases = [s.cases EXCEPT ![1].on = Distinct(@, s.table)]
      BY <2>1, <3>2
    <3> DEFINE d == s.cases
               k == c.cases
               o == Distinct(d[1].on, s.table)
    <3>4. k = [d EXCEPT ![1].on = o] /\ 1 \in DOMAIN d
      BY <3>1, <3>3
    <3>5. \A j \in DOMAIN d : d[j] = [on |-> d[j].on, block |-> d[j].block]
      BY <2>3
    <3>6. \A j \in DOMAIN d : NewOn(p, s, j) = IF j = 1 THEN o ELSE d[j].on
      BY <2>4 DEF NewOn
    <3> HIDE DEF d, k, o
    <3>7. DOMAIN k = DOMAIN d /\ \A j \in DOMAIN d : k[j] = IF j = 1 THEN [d[1] EXCEPT !.on = o] ELSE d[j]
      BY <3>4
    <3>8. \A j \in DOMAIN d : k[j].block = d[j].block /\ k[j].on = IF j = 1 THEN o ELSE d[j].on
      <4>1. [d[1] EXCEPT !.on = o].block = d[1].block /\ [d[1] EXCEPT !.on = o].on = o
        <5> DEFINE x == d[1].on
                   y == d[1].block
        <5>1. d[1] = [on |-> x, block |-> y]
          BY <3>4, <3>5
        <5> HIDE DEF x, y
        <5> QED
          BY <5>1
      <4> QED
        BY <3>7, <4>1
    <3> QED
      BY <3>6, <3>7, <3>8 DEF d, k
  <2>5. CASE ~ (s.cases # <<>> /\ s.cases[1].on \in names /\ Plain(s.table))
    <3>1. c = s
      BY <1>2, <2>5 DEF RenamedCase
    <3>2. \A j \in DOMAIN s.cases : NewOn(p, s, j) = s.cases[j].on
      <4>1. \A j \in DOMAIN s.cases : s.cases # <<>>
        BY <2>1
      <4> QED
        BY <2>5, <4>1 DEF NewOn
    <3> QED
      BY <3>1, <3>2
  <2> QED
    BY <2>4, <2>5
<1> QED
  BY <1>3, <1>4 DEF IsNewCase

LEMMA LaidOutProgram ==
  ASSUME NEW p \in Programs
  PROVE  IsLaidOut(p.blocks, ActsOf(p), Steps)
<1>1. Len(p.blocks) \in Nat /\ DOMAIN p.blocks = 1..Len(p.blocks)
  BY BlocksAre
<1>2. ASSUME NEW n \in 1..Len(p.blocks) PROVE GuidedBlock(p.blocks[n], n, ActsOf(p), Steps)
  <2>1. p.blocks[n] \in Seq(Statements(p, n))
    BY <1>1, BlocksAre
  <2>2. p.blocks[n] \in Seq(Range(p.blocks[n])) /\ Range(p.blocks[n]) \subseteq Statements(p, n)
    <3> DEFINE b == p.blocks[n]
               X == Statements(p, n)
    <3>1. b \in Seq(X)
      BY <2>1
    <3> HIDE DEF b, X
    <3>2. b \in Seq(Range(b)) /\ Range(b) \subseteq X
      BY <3>1, SeqOfRange, RangeOfSeq
    <3> QED
      BY <3>2 DEF b, X
  <2>3. ASSUME NEW s \in Statements(p, n) PROVE IsGuided(s, n, ActsOf(p), Steps)
    <3>1. CASE IsApply(p, n, s)
      <4>1. s.kind = "apply" /\ s.table \in DOMAIN p.tables
        BY <3>1 DEF IsApply
      <4> DEFINE B == 1..(n - 1)
                 C == [on : DOMAIN p.actions, block : B]
      <4>2. s.cases \in Seq(C) /\ \A x \in C : x.block \in B
        BY <3>1 DEF IsApply
      <4>3. \A a \in ActsOf(p)[s.table] : <<s.table, a>> \in Steps
        BY <4>1, ActsAre
      <4> HIDE DEF C, B
      <4>4. \A j \in DOMAIN s.cases : s.cases[j].block \in B
        BY <4>2, SeqIs
      <4> QED
        BY <4>1, <4>3, <4>4 DEF IsGuided, B
    <3>2. CASE IsCall(p, n, s)
      BY <3>2 DEF IsCall, IsGuided
    <3>3. CASE IsIf(p, n, s)
      <4>1. s.else = <<>> \/ s.else[1] \in 1..(n - 1)
        BY <3>3 DEF IsIf
      <4> QED
        BY <3>3, <4>1 DEF IsIf, IsGuided
    <3>4. CASE IsAssert(p, n, s)
      BY <3>4 DEF IsAssert, IsGuided
    <3> QED
      BY <3>1, <3>2, <3>3, <3>4, StatementIs
  <2> QED
    BY <2>2, <2>3 DEF GuidedBlock
<1> QED
  BY <1>1, <1>2 DEF IsLaidOut

LEMMA FinalsGuided ==
  ASSUME NEW p \in Programs, NEW n \in DOMAIN p.blocks
  PROVE  \A s \in Finals(p, n) : IsGuided(s, n, ActsNow(p), Steps)
<1>1. ASSUME NEW i \in DOMAIN p.blocks[n] PROVE IsGuided(NewCase(p, n, i), n, ActsNow(p), Steps)
  <2> DEFINE s == Part(p, n, i)
             c == NewCase(p, n, i)
  <2>1. s \in Range(p.blocks[n]) /\ s \in Statements(p, n)
    BY BlocksAre DEF Part, Range
  <2>2. IsGuided(s, n, ActsOf(p), Steps)
    <3>1. n \in 1..Len(p.blocks)
      BY BlocksAre
    <3> QED
      BY <2>1, <3>1, LaidOutProgram DEF IsLaidOut, GuidedBlock
  <2>3. IsNewCase(p, s, c)
    BY NewCaseIs
  <2>4. s.kind = "apply" => s.table \in DOMAIN p.tables
    BY <2>1, StatementIs DEF IsApply, IsCall, IsIf, IsAssert
  <2> SUFFICES IsGuided(c, n, ActsNow(p), Steps)
    OBVIOUS
  <2> HIDE DEF s, c
  <2>5. CASE s.kind = "apply"
    <3>1. c.kind = "apply" /\ c.table = s.table /\ c.table \in DOMAIN p.tables
      BY <2>3, <2>4, <2>5 DEF IsNewCase
    <3>2. \A a \in ActsNow(p)[c.table] : <<c.table, a>> \in Steps
      <4> TAKE a \in ActsNow(p)[c.table]
      <4>1. a \in {BitOf(ActionTables(p), b, c.table) : b \in ActsOf(p)[c.table]}
        BY <3>1, ActsAre
      <4>2. PICK b \in ActsOf(p)[c.table] : a = BitOf(ActionTables(p), b, c.table)
        BY <4>1
      <4> QED
        BY <3>1, <4>2, ActsAre
    <3>3. \A j \in DOMAIN s.cases : s.cases[j].block \in 1..(n - 1)
      BY <2>2, <2>5 DEF IsGuided
    <3>4. \A j \in DOMAIN c.cases : c.cases[j].block \in 1..(n - 1)
      BY <2>3, <2>5, <3>3 DEF IsNewCase
    <3>5. c.kind = "apply"
      BY <3>1
    <3> QED
      BY <3>2, <3>4, <3>5 DEF IsGuided
  <2>6. CASE s.kind # "apply"
    <3>1. c = s
      BY <2>3, <2>6 DEF IsNewCase
    <3> QED
      BY <2>2, <2>6, <3>1 DEF IsGuided
  <2> QED
    BY <2>5, <2>6
<1>2. ASSUME NEW s \in Added(p) PROVE IsGuided(s, n, ActsNow(p), Steps)
  <2>1. s.kind = "apply" /\ s.cases = <<>> /\ s.table \in AddedTables(p) /\ s.table \notin DOMAIN p.tables
    BY AddedAre
  <2>2. \A a \in ActsNow(p)[s.table] : <<s.table, a>> \in Steps
    <3>1. ActsNow(p)[s.table] = {None} /\ <<s.table, None>> \in Steps
      BY <2>1, ActsAre
    <3> QED
      BY <3>1
  <2>3. \A j \in DOMAIN s.cases : FALSE
    BY <2>1
  <2> QED
    BY <2>1, <2>2, <2>3 DEF IsGuided
<1> QED
  BY <1>1, <1>2 DEF Finals

LEMMA LaidOutNow ==
  ASSUME NEW p \in Programs
  PROVE  IsLaidOut(BlocksEnded(p), ActsNow(p), Steps) /\ Len(BlocksEnded(p)) = Len(p.blocks)
<1>1. Len(p.blocks) \in Nat /\ DOMAIN p.blocks = 1..Len(p.blocks)
  BY BlocksAre
<1>2. Len(BlocksEnded(p)) = Len(p.blocks) /\ DOMAIN BlocksEnded(p) = 1..Len(p.blocks)
  <2>1. DOMAIN BlocksEnded(p) = 1..Len(p.blocks)
    BY <1>1, BlocksFinal
  <2> DEFINE X == {BlocksEnded(p)[n] : n \in 1..Len(p.blocks)}
  <2>2. BlocksEnded(p) = [n \in DOMAIN BlocksEnded(p) |-> BlocksEnded(p)[n]]
    BY DEF BlocksEnded, BlocksWithEnds
  <2>3. BlocksEnded(p) \in [1..Len(p.blocks) -> X]
    BY <2>1, <2>2
  <2> HIDE DEF X
  <2> QED
    BY <1>1, <2>1, <2>3, FunctionAsSeq
<1>3. ASSUME NEW n \in 1..Len(p.blocks) PROVE GuidedBlock(BlocksEnded(p)[n], n, ActsNow(p), Steps)
  <2>1. BlocksEnded(p)[n] \in Seq(Finals(p, n))
    BY <1>1, BlocksFinal
  <2>2. BlocksEnded(p)[n] \in Seq(Range(BlocksEnded(p)[n])) /\ Range(BlocksEnded(p)[n]) \subseteq Finals(p, n)
    <3> DEFINE b == BlocksEnded(p)[n]
               X == Finals(p, n)
    <3>1. b \in Seq(X)
      BY <2>1
    <3> HIDE DEF b, X
    <3>2. b \in Seq(Range(b)) /\ Range(b) \subseteq X
      BY <3>1, SeqOfRange, RangeOfSeq
    <3> QED
      BY <3>2 DEF b, X
  <2>3. \A s \in Finals(p, n) : IsGuided(s, n, ActsNow(p), Steps)
    BY <1>1, FinalsGuided
  <2> QED
    BY <2>2, <2>3 DEF GuidedBlock
<1> QED
  BY <1>1, <1>2, <1>3 DEF IsLaidOut

-----------------------------------------------------------------------------
(* Looking at the runs through a function that goes over them element by   *)
(* element.                                                                *)

IsMorphism(f, E) ==
  /\ f \in [Seq(E) -> Seq(E)] /\ f[<<>>] = <<>>
  /\ \A a, b \in Seq(E) : f[a \o b] = f[a] \o f[b]
Through(f, A) == {f[r] : r \in A}

LEMMA ThroughJoined ==
  ASSUME NEW E, NEW f, IsMorphism(f, E), NEW A \in SUBSET Seq(E), NEW B \in SUBSET Seq(E)
  PROVE  /\ Through(f, Joined(A, B)) = Joined(Through(f, A), Through(f, B))
         /\ Through(f, A) \in SUBSET Seq(E) /\ Through(f, {<<>>}) = {<<>>}
<1> DEFINE S == Seq(E)
           J == Joined(A, B)
           K == Joined(Through(f, A), Through(f, B))
<1>1. f \in [S -> S] /\ f[<<>>] = <<>> /\ \A a, b \in S : f[a \o b] = f[a] \o f[b]
  BY DEF IsMorphism
<1>2. A \subseteq S /\ B \subseteq S
  OBVIOUS
<1>3. IsJoined(J, A, B) /\ IsJoined(K, Through(f, A), Through(f, B))
  BY InJoined
<1>4. Through(f, A) \in SUBSET S /\ Through(f, {<<>>}) = {<<>>}
  <2> HIDE DEF S
  <2> QED
    BY <1>1, <1>2 DEF Through
<1>5. Through(f, J) = K
  <2> HIDE DEF S, J, K
  <2>1. ASSUME NEW x \in Through(f, J) PROVE x \in K
    <3>1. PICK r \in J : x = f[r]
      BY DEF Through
    <3>2. PICK l \in A, t \in B : r = l \o t
      BY <1>3 DEF IsJoined
    <3>3. l \in S /\ t \in S
      BY <1>2
    <3>4. x = f[l] \o f[t]
      BY <1>1, <3>1, <3>2, <3>3
    <3>5. f[l] \in Through(f, A) /\ f[t] \in Through(f, B)
      BY DEF Through
    <3> QED
      BY <1>3, <3>4, <3>5 DEF IsJoined
  <2>2. ASSUME NEW x \in K PROVE x \in Through(f, J)
    <3>1. PICK y \in Through(f, A), z \in Through(f, B) : x = y \o z
      BY <1>3 DEF IsJoined
    <3>2. PICK l \in A : y = f[l]
      BY DEF Through
    <3>3. PICK t \in B : z = f[t]
      BY DEF Through
    <3>4. l \in S /\ t \in S
      BY <1>2
    <3>5. x = f[l \o t]
      BY <1>1, <3>1, <3>2, <3>3, <3>4
    <3>6. l \o t \in J
      BY <1>3 DEF IsJoined
    <3> QED
      BY <3>5, <3>6 DEF Through
  <2> QED
    BY <2>1, <2>2
<1> QED
  BY <1>4, <1>5

(* Two chains that look the same at every link look the same.              *)
LEMMA ChainsMatch ==
  ASSUME NEW E, NEW f, IsMorphism(f, E), NEW g, IsMorphism(g, E), NEW N \in Nat,
         NEW F, NEW G, NEW u, NEW w, IsChain(u, N, E, F), IsChain(w, N, E, G),
         \A i \in 1..N : Through(f, F[i]) = Through(g, G[i])
  PROVE  Through(f, u[N]) = Through(g, w[N])
<1> DEFINE S == SUBSET Seq(E)
           T == {i \in 0..N : Through(f, u[i]) = Through(g, w[i])}
<1>1. /\ u \in [0..N -> S] /\ u[0] = {<<>>} /\ \A i \in 1..N : F[i] \in S /\ u[i] = Joined(u[i - 1], F[i])
      /\ w \in [0..N -> S] /\ w[0] = {<<>>} /\ \A i \in 1..N : G[i] \in S /\ w[i] = Joined(w[i - 1], G[i])
  BY DEF IsChain
<1>2. \A A, B \in S : /\ Through(f, Joined(A, B)) = Joined(Through(f, A), Through(f, B))
                      /\ Through(g, Joined(A, B)) = Joined(Through(g, A), Through(g, B))
  BY ThroughJoined
<1>3. Through(f, {<<>>}) = Through(g, {<<>>})
  <2>1. {<<>>} \in SUBSET Seq(E)
    OBVIOUS
  <2> QED
    BY <2>1, ThroughJoined
<1> HIDE DEF S
<1>4. 0 \in T
  <2>1. u[0] = {<<>>} /\ w[0] = {<<>>}
    BY <1>1
  <2>2. Through(f, u[0]) = Through(g, w[0])
    BY <1>3, <2>1
  <2> QED
    BY <2>2
<1>5. ASSUME NEW i \in 1..N, i - 1 \in T PROVE i \in T
  <2>1. PICK k \in T : k = i - 1
    BY <1>5
  <2>2. Through(f, u[i - 1]) = Through(g, w[i - 1])
    BY <2>1
  <2>3. i - 1 \in 0..N
    OBVIOUS
  <2>4. u[i - 1] \in S /\ w[i - 1] \in S /\ F[i] \in S /\ G[i] \in S
    BY <1>1, <2>3
  <2>5. /\ Through(f, u[i]) = Joined(Through(f, u[i - 1]), Through(f, F[i]))
        /\ Through(g, w[i]) = Joined(Through(g, w[i - 1]), Through(g, G[i]))
    BY <1>1, <1>2, <2>4
  <2> QED
    BY <2>2, <2>5
<1> HIDE DEF T
<1>6. 0..N \subseteq T
  BY <1>4, <1>5, InductionUpTo
<1>7. N \in T
  BY <1>6
<1> QED
  BY <1>7 DEF T

(* Statements that cannot be seen.                                         *)
LEMMA NothingSeen ==
  ASSUME NEW X, NEW b \in Seq(X), NEW into, NEW acts, NEW E, RunsTyped(X, into, acts, E),
         NEW f, IsMorphism(f, E), \A s \in X : Through(f, StatementRuns(s, into, acts)) = {<<>>}
  PROVE  Through(f, BlockRuns(b, into, acts)) = {<<>>}
<1> DEFINE N == Len(b)
           Z == [i \in 0..N |-> {<<>>}]
           G == [i \in 1..N |-> {<<>>}]
           V == SUBSET Seq(E)
<1>1. N \in Nat /\ DOMAIN b = 1..N /\ \A i \in 1..N : b[i] \in X
  BY SeqIs
<1>2. PICK u : IsChain(u, N, E, PartRuns(b, into, acts)) /\ BlockRuns(b, into, acts) = u[N]
  BY ChainIs
<1>3. {<<>>} \in V /\ Joined({<<>>}, {<<>>}) = {<<>>} /\ Through(f, {<<>>}) = {<<>>}
  <2>1. {<<>>} \in SUBSET Seq(E)
    OBVIOUS
  <2> QED
    BY <2>1, JoinedIs, ThroughJoined
<1>4. IsChain(Z, N, E, G)
  <2> HIDE DEF V, N
  <2>1. Z \in [0..N -> V] /\ Z[0] = {<<>>}
    BY <1>1, <1>3
  <2>2. ASSUME NEW i \in 1..N PROVE G[i] \in V /\ Z[i] = Joined(Z[i - 1], G[i])
    <3>1. i \in 0..N /\ i - 1 \in 0..N
      BY <1>1
    <3> QED
      BY <1>3, <3>1
  <2> HIDE DEF Z, G
  <2> QED
    BY <2>1, <2>2 DEF IsChain, V
<1>5. \A i \in 1..N : Through(f, PartRuns(b, into, acts)[i]) = Through(f, G[i])
  <2> TAKE i \in 1..N
  <2>1. PartRuns(b, into, acts)[i] = StatementRuns(b[i], into, acts)
    BY <1>1 DEF PartRuns
  <2> QED
    BY <1>1, <1>3, <2>1
<1> HIDE DEF G, Z, N
<1>6. Through(f, u[N]) = Through(f, Z[N])
  BY <1>1, <1>2, <1>4, <1>5, ChainsMatch
<1>7. Z[N] = {<<>>}
  BY <1>1 DEF Z
<1> QED
  BY <1>2, <1>3, <1>6, <1>7

(* The runs of a block made of parts.                                      *)
PartsRuns(ss, into, acts) == [i \in DOMAIN ss |-> BlockRuns(ss[i], into, acts)]
LEMMA FlattenChain ==
  ASSUME NEW X, NEW ss \in Seq(Seq(X)), NEW into, NEW acts, NEW E, RunsTyped(X, into, acts, E)
  PROVE  \E v : IsChain(v, Len(ss), E, PartsRuns(ss, into, acts)) /\ BlockRuns(FlattenSeq(ss), into, acts) = v[Len(ss)]
<1> DEFINE N == Len(ss)
           S == Seq(X)
           V == SUBSET Seq(E)
<1>1. N \in Nat /\ DOMAIN ss = 1..N /\ \A i \in 1..N : ss[i] \in S
  BY SeqIs
<1>2. PICK u : IsUnfolding(u, ss, X) /\ FlattenSeq(ss) = u[N]
  BY FlattenUnfolds
<1>3. u \in [0..N -> S] /\ u[0] = <<>> /\ \A i \in 1..N : u[i] = u[i - 1] \o ss[i]
  BY <1>2 DEF IsUnfolding
<1> DEFINE v == [i \in 0..N |-> BlockRuns(u[i], into, acts)]
<1>4. \A a \in S : BlockRuns(a, into, acts) \in V
  BY BlockRunsTyped
<1>5. \A a, b \in S : BlockRuns(a \o b, into, acts) = Joined(BlockRuns(a, into, acts), BlockRuns(b, into, acts))
  BY BlockRunsConcat
<1> HIDE DEF N, S, V
<1>6. v \in [0..N -> V]
  BY <1>3, <1>4
<1>7. v[0] = {<<>>}
  BY <1>1, <1>3, BlockRunsNone
<1>8. ASSUME NEW i \in 1..N
      PROVE  PartsRuns(ss, into, acts)[i] \in V /\ v[i] = Joined(v[i - 1], PartsRuns(ss, into, acts)[i])
  <2>1. i \in 0..N /\ i - 1 \in 0..N
    BY <1>1
  <2>2. PartsRuns(ss, into, acts)[i] = BlockRuns(ss[i], into, acts)
    BY <1>1 DEF PartsRuns
  <2>3. u[i] = u[i - 1] \o ss[i] /\ u[i - 1] \in S /\ ss[i] \in S
    BY <1>1, <1>3, <2>1
  <2>4. v[i] = BlockRuns(u[i], into, acts) /\ v[i - 1] = BlockRuns(u[i - 1], into, acts)
    BY <2>1
  <2> QED
    BY <1>4, <1>5, <2>2, <2>3, <2>4
<1>9. v[N] = BlockRuns(FlattenSeq(ss), into, acts)
  BY <1>1, <1>2
<1> HIDE DEF v
<1>10. IsChain(v, N, E, PartsRuns(ss, into, acts))
  BY <1>6, <1>7, <1>8 DEF IsChain, V
<1> QED
  BY <1>9, <1>10 DEF N

-----------------------------------------------------------------------------
(* What is compared: of the instrumented program's runs what happens in    *)
(* the program's tables, of the program's runs the new names.              *)

Chosen(r, T) == {i \in DOMAIN r : r[i][1] \in T}
Within(r, T) == Picked(r, Chosen(r, T))
LEMMA WithinTyped ==
  ASSUME NEW E, NEW a \in Seq(E), NEW T
  PROVE  Within(a, T) \in Seq(E)
<1> DEFINE sa == Singles(a, Chosen(a, T))
<1>1. sa \in Seq(Seq(E))
  BY SinglesTyped
<1>2. Within(a, T) = FlattenSeq(sa)
  BY PickedIs DEF Within
<1> HIDE DEF sa
<1> QED
  BY <1>1, <1>2, FlattenTyped

LEMMA WithinConcat ==
  ASSUME NEW E, NEW a \in Seq(E), NEW b \in Seq(E), NEW T
  PROVE  Within(a \o b, T) = Within(a, T) \o Within(b, T)
<1> DEFINE c == a \o b
           Y == Seq(E)
           sa == Singles(a, Chosen(a, T))
           sb == Singles(b, Chosen(b, T))
           sc == Singles(c, Chosen(c, T))
<1>1. IsConcat(c, a, b, E)
  BY ConcatIs
<1> HIDE DEF c
<1>2. /\ c \in Seq(E) /\ Len(c) = Len(a) + Len(b) /\ DOMAIN c = 1..Len(c) /\ Len(c) \in Nat
      /\ \A i \in 1..Len(a) : c[i] = a[i]
      /\ \A i \in 1..Len(b) : c[Len(a) + i] = b[i]
      /\ DOMAIN a = 1..Len(a) /\ Len(a) \in Nat /\ DOMAIN b = 1..Len(b) /\ Len(b) \in Nat
  BY <1>1, SeqIs DEF IsConcat
<1>3. /\ sa \in Seq(Y) /\ Len(sa) = Len(a)
      /\ \A i \in 1..Len(a) : sa[i] = IF i \in Chosen(a, T) THEN <<a[i]>> ELSE <<>>
  BY SinglesTyped
<1>4. /\ sb \in Seq(Y) /\ Len(sb) = Len(b)
      /\ \A i \in 1..Len(b) : sb[i] = IF i \in Chosen(b, T) THEN <<b[i]>> ELSE <<>>
  BY SinglesTyped
<1>5. /\ sc \in Seq(Y) /\ Len(sc) = Len(c)
      /\ \A i \in 1..Len(c) : sc[i] = IF i \in Chosen(c, T) THEN <<c[i]>> ELSE <<>>
  BY <1>2, SinglesTyped
<1>6. FlattenSeq(sa \o sb) = FlattenSeq(sa) \o FlattenSeq(sb) /\ FlattenSeq(sa) \in Seq(E)
  <2> HIDE DEF sa, sb
  <2> QED
    BY <1>3, <1>4, FlattenConcat, FlattenTyped DEF Y
<1>7. sc = sa \o sb
  <2> DEFINE d == sa \o sb
  <2>1. IsConcat(d, sa, sb, Y)
    <3> HIDE DEF sa, sb, Y
    <3> QED
      BY <1>3, <1>4, ConcatIs
  <2> HIDE DEF d, sa, sb, sc, Y
  <2>2. /\ d \in Seq(Y) /\ Len(d) = Len(a) + Len(b)
        /\ \A i \in 1..Len(a) : d[i] = sa[i]
        /\ \A i \in 1..Len(b) : d[Len(a) + i] = sb[i]
    BY <1>3, <1>4, <2>1 DEF IsConcat
  <2>3. ASSUME NEW i \in 1..Len(a) PROVE sc[i] = d[i]
    <3>1. i \in 1..Len(c) /\ c[i] = a[i]
      BY <1>2
    <3>2. i \in Chosen(c, T) <=> i \in Chosen(a, T)
      BY <1>2, <3>1 DEF Chosen
    <3>3. sc[i] = sa[i]
      BY <1>3, <1>5, <3>1, <3>2
    <3> QED
      BY <2>2, <3>3
  <2>4. ASSUME NEW i \in 1..Len(b) PROVE sc[Len(a) + i] = d[Len(a) + i]
    <3>1. Len(a) + i \in 1..Len(c) /\ c[Len(a) + i] = b[i]
      BY <1>2
    <3>2. Len(a) + i \in Chosen(c, T) <=> i \in Chosen(b, T)
      BY <1>2, <3>1 DEF Chosen
    <3>3. sc[Len(a) + i] = sb[i]
      BY <1>4, <1>5, <3>1, <3>2
    <3> QED
      BY <2>2, <3>3
  <2>5. \A k \in 1..Len(c) : sc[k] = d[k]
    <3> TAKE k \in 1..Len(c)
    <3>1. CASE k =< Len(a)
      <4>1. k \in 1..Len(a)
        BY <1>2, <3>1
      <4> QED
        BY <2>3, <4>1
    <3>2. CASE ~ (k =< Len(a))
      <4>1. PICK i \in 1..Len(b) : k = Len(a) + i
        <5>1. k - Len(a) \in 1..Len(b) /\ k = Len(a) + (k - Len(a))
          BY <1>2, <3>2
        <5> QED
          BY <5>1
      <4> QED
        BY <2>4, <4>1
    <3> QED
      BY <3>1, <3>2
  <2>6. sc = d
    BY <1>2, <1>5, <2>2, <2>5, SeqEqual
  <2> QED
    BY <2>6 DEF d
<1> QED
  <2>1. Within(a, T) = FlattenSeq(sa) /\ Within(b, T) = FlattenSeq(sb) /\ Within(c, T) = FlattenSeq(sc)
    BY PickedIs DEF Within
  <2> HIDE DEF sa, sb, sc
  <2>2. Within(c, T) = Within(a, T) \o Within(b, T)
    BY <1>6, <1>7, <2>1
  <2> QED
    BY <2>2 DEF c

Keeping(p) == [r \in Seq(Steps) |-> Within(r, DOMAIN p.tables)]
LEMMA KeepingIs ==
  ASSUME NEW p
  PROVE  /\ IsMorphism(Keeping(p), Steps)
         /\ \A x \in Steps : Keeping(p)[<<x>>] = IF x[1] \in DOMAIN p.tables THEN <<x>> ELSE <<>>
<1> DEFINE S == Seq(Steps)
           T == DOMAIN p.tables
           k(r) == Within(r, T)
<1>0. ASSUME NEW U, NEW a \in Seq(Steps), NEW b \in Seq(Steps)
      PROVE  Within(a, U) \in Seq(Steps) /\ Within(a \o b, U) = Within(a, U) \o Within(b, U)
  <2>1. Within(a, U) \in Seq(Steps)
    BY WithinTyped
  <2>2. Within(a \o b, U) = Within(a, U) \o Within(b, U)
    BY WithinConcat
  <2> QED
    BY <2>1, <2>2
<1>1. \A a, b \in S : k(a) \in S /\ k(a \o b) = k(a) \o k(b)
  <2> HIDE DEF T
  <2> QED
    BY <1>0
<1>2. k(<<>>) = <<>>
  <2>1. Singles(<<>>, Chosen(<<>>, T)) = <<>>
    BY DEF Singles
  <2> QED
    BY <2>1, PickedIs, FlattenEmpty DEF Within
<1>3. ASSUME NEW x \in Steps PROVE k(<<x>>) = IF x[1] \in T THEN <<x>> ELSE <<>>
  <2> DEFINE s == <<x>>
             e == IF x[1] \in T THEN <<x>> ELSE <<>>
  <2>1. DOMAIN s = {1} /\ s[1] = x
    OBVIOUS
  <2>2. 1 \in Chosen(s, T) <=> x[1] \in T
    BY <2>1 DEF Chosen
  <2>3. Singles(s, Chosen(s, T)) = <<e>>
    <3>1. <<e>> = [i \in {1} |-> e]
      OBVIOUS
    <3> QED
      BY <2>1, <2>2, <3>1 DEF Singles
  <2>4. e \in Seq(Steps)
    OBVIOUS
  <2> HIDE DEF s, e
  <2>5. FlattenSeq(<<e>>) = e
    BY <2>4, FlattenOne
  <2>6. k(s) = e
    BY <2>3, <2>5, PickedIs DEF Within
  <2> QED
    BY <2>6 DEF s, e
<1>4. Keeping(p) = [r \in S |-> k(r)]
  BY DEF Keeping
<1>5. <<>> \in S /\ (\A a, b \in S : a \o b \in S) /\ \A x \in Steps : <<x>> \in S
  OBVIOUS
<1> HIDE DEF S, T, k
<1>6. Keeping(p) \in [S -> S] /\ Keeping(p)[<<>>] = <<>> /\ \A a, b \in S : Keeping(p)[a \o b] = Keeping(p)[a] \o Keeping(p)[b]
  BY <1>1, <1>2, <1>4, <1>5
<1>7. \A x \in Steps : Keeping(p)[<<x>>] = IF x[1] \in T THEN <<x>> ELSE <<>>
  BY <1>3, <1>4, <1>5
<1> QED
  BY <1>6, <1>7 DEF IsMorphism, S, T

Recalled(p, x) == <<x[1], BitOf(ActionTables(p), x[2], x[1])>>
Recalling(p) == [r \in Seq(Steps) |-> [i \in DOMAIN r |-> Recalled(p, r[i])]]
LEMMA RecallingIs ==
  ASSUME NEW p
  PROVE  /\ IsMorphism(Recalling(p), Steps)
         /\ \A x \in Steps : Recalling(p)[<<x>>] = <<Recalled(p, x)>>
<1> DEFINE S == Seq(Steps)
           k(r) == [i \in DOMAIN r |-> Recalled(p, r[i])]
<1>1. ASSUME NEW x \in Steps PROVE Recalled(p, x) \in Steps
  <2>1. x[1] \in Seq(Nat) /\ x[2] \in Seq(Nat)
    BY DEF Steps
  <2>2. Distinct(x[2], x[1]) \in Seq(Nat)
    BY <2>1, DistinctIs DEF IsDistinct
  <2>3. BitOf(ActionTables(p), x[2], x[1]) \in Seq(Nat)
    BY <2>1, <2>2 DEF BitOf
  <2> QED
    BY <2>1, <2>3 DEF Recalled, Steps
<1>2. ASSUME NEW r \in S
      PROVE  k(r) \in S /\ Len(k(r)) = Len(r) /\ \A i \in 1..Len(r) : k(r)[i] = Recalled(p, r[i])
  <2> DEFINE n == Len(r)
             d == k(r)
  <2>1. n \in Nat /\ DOMAIN r = 1..n /\ \A i \in 1..n : r[i] \in Steps
    BY SeqIs
  <2>2. d \in [1..n -> Steps] /\ \A i \in 1..n : d[i] = Recalled(p, r[i])
    BY <1>1, <2>1
  <2> HIDE DEF d, n
  <2>3. d \in Seq(Steps) /\ Len(d) = n
    BY <2>1, <2>2, FunctionAsSeq
  <2> QED
    BY <2>2, <2>3 DEF d, n
<1>3. ASSUME NEW a \in S, NEW b \in S PROVE k(a \o b) = k(a) \o k(b)
  <2> DEFINE c == a \o b
             ka == k(a)
             kb == k(b)
             kc == k(c)
             d == ka \o kb
  <2>1. IsConcat(c, a, b, Steps)
    BY ConcatIs
  <2>2. c \in S
    OBVIOUS
  <2> HIDE DEF c, k
  <2>3. ka \in S /\ Len(ka) = Len(a) /\ kb \in S /\ Len(kb) = Len(b) /\ kc \in S /\ Len(kc) = Len(c)
    BY <1>2, <2>2
  <2>4. /\ \A i \in 1..Len(a) : ka[i] = Recalled(p, a[i])
        /\ \A i \in 1..Len(b) : kb[i] = Recalled(p, b[i])
        /\ \A i \in 1..Len(c) : kc[i] = Recalled(p, c[i])
    BY <1>2, <2>2
  <2>5. Len(a) \in Nat /\ Len(b) \in Nat /\ Len(c) = Len(a) + Len(b)
        /\ (\A i \in 1..Len(a) : c[i] = a[i]) /\ \A i \in 1..Len(b) : c[Len(a) + i] = b[i]
    BY <2>1 DEF IsConcat
  <2> HIDE DEF ka, kb, kc
  <2>6. IsConcat(d, ka, kb, Steps)
    BY <2>3, ConcatIs
  <2> HIDE DEF d
  <2>7. d \in Seq(Steps) /\ Len(d) = Len(a) + Len(b)
        /\ (\A i \in 1..Len(a) : d[i] = ka[i]) /\ \A i \in 1..Len(b) : d[Len(a) + i] = kb[i]
    BY <2>3, <2>6 DEF IsConcat
  <2>8. \A i \in 1..Len(c) : kc[i] = d[i]
    <3> TAKE i \in 1..Len(c)
    <3>1. CASE i =< Len(a)
      <4>1. i \in 1..Len(a)
        BY <2>5, <3>1
      <4>2. kc[i] = Recalled(p, a[i]) /\ d[i] = Recalled(p, a[i])
        BY <2>4, <2>5, <2>7, <4>1
      <4> QED
        BY <4>2
    <3>2. CASE ~ (i =< Len(a))
      <4>1. PICK j \in 1..Len(b) : i = Len(a) + j
        <5>1. i - Len(a) \in 1..Len(b) /\ i = Len(a) + (i - Len(a))
          BY <2>5, <3>2
        <5> QED
          BY <5>1
      <4>2. c[i] = b[j] /\ d[i] = kb[j]
        BY <2>5, <2>7, <4>1
      <4> QED
        BY <2>4, <4>2
    <3> QED
      BY <3>1, <3>2
  <2>9. kc = d
    BY <2>3, <2>5, <2>7, <2>8, SeqEqual
  <2> QED
    BY <2>9 DEF d, kc, c, ka, kb
<1>4. k(<<>>) = <<>> /\ \A x \in Steps : k(<<x>>) = <<Recalled(p, x)>>
  OBVIOUS
<1>5. Recalling(p) = [r \in S |-> k(r)]
  BY DEF Recalling
<1>6. <<>> \in S /\ (\A a, b \in S : a \o b \in S) /\ \A x \in Steps : <<x>> \in S
  OBVIOUS
<1> HIDE DEF S, k
<1>7. Recalling(p) \in [S -> S] /\ Recalling(p)[<<>>] = <<>>
      /\ \A a, b \in S : Recalling(p)[a \o b] = Recalling(p)[a] \o Recalling(p)[b]
  BY <1>2, <1>3, <1>4, <1>5, <1>6
<1>8. \A x \in Steps : Recalling(p)[<<x>>] = <<Recalled(p, x)>>
  BY <1>4, <1>5, <1>6
<1> QED
  BY <1>7, <1>8 DEF IsMorphism, S

-----------------------------------------------------------------------------
(* Statement by statement, the instrumented program's runs are the         *)
(* program's with new names.                                               *)

FirstCasesOf(p) ==
  \A n \in DOMAIN p.blocks : \A i \in DOMAIN p.blocks[n] :
    Part(p, n, i).kind = "apply" =>
      \A j \in DOMAIN Part(p, n, i).cases :
        IsPopular(ActionTables(p), Part(p, n, i).cases[j].on) => j = 1 /\ Plain(Part(p, n, i).table)
LEMMA BitTellsActions ==
  ASSUME NEW p \in Programs, NEW t \in DOMAIN p.tables, NEW a \in DOMAIN p.actions, NEW b \in DOMAIN p.actions,
         BitOf(ActionTables(p), a, t) = BitOf(ActionTables(p), b, t)
  PROVE  a = b
<1> DEFINE P(x) == IsPopular(ActionTables(p), x)
           B(x) == BitOf(ActionTables(p), x, t)
<1>1. Name(a) /\ Name(t) /\ (P(a) => B(a) = Distinct(a, t) /\ ~ Name(B(a))) /\ (~ P(a) => B(a) = a)
  BY BitIs
<1>2. Name(b) /\ (P(b) => B(b) = Distinct(b, t) /\ ~ Name(B(b))) /\ (~ P(b) => B(b) = b)
  BY BitIs
<1>3. B(a) = B(b)
  OBVIOUS
<1> HIDE DEF P, B
<1>4. CASE P(a) /\ P(b)
  <2>1. Distinct(a, t) = Distinct(b, t)
    BY <1>1, <1>2, <1>3, <1>4
  <2> QED
    BY <1>1, <1>2, <2>1, DistinctTellsApart
<1>5. CASE ~ (P(a) /\ P(b))
  BY <1>1, <1>2, <1>3, <1>5
<1> QED
  BY <1>4, <1>5

LEMMA CaseNamed ==
  ASSUME NEW p \in Programs, FirstCasesOf(p), NEW n \in DOMAIN p.blocks, NEW i \in DOMAIN p.blocks[n],
         Part(p, n, i).kind = "apply", NEW j \in DOMAIN Part(p, n, i).cases
  PROVE  /\ Part(p, n, i).table \in DOMAIN p.tables
         /\ Part(p, n, i).cases[j].on \in DOMAIN p.actions
         /\ Part(p, n, i).cases[j].block \in 1..(n - 1)
         /\ NewOn(p, Part(p, n, i), j) = BitOf(ActionTables(p), Part(p, n, i).cases[j].on, Part(p, n, i).table)
<1> DEFINE s == Part(p, n, i)
           A == DOMAIN p.actions
           B == 1..(n - 1)
           C == [on : A, block : B]
<1>1. s \in Statements(p, n)
  BY BlocksAre
<1>2. s.table \in DOMAIN p.tables /\ s.cases \in Seq(C)
  BY <1>1, StatementIs DEF IsApply, IsCall, IsIf, IsAssert
<1>3. \A x \in C : x.on \in A /\ x.block \in B
  OBVIOUS
<1>4. IsPopular(ActionTables(p), s.cases[j].on) => j = 1 /\ Plain(s.table)
  BY DEF FirstCasesOf
<1>5. \A a : a \in Range(PopularActions(p)) <=> IsPopular(ActionTables(p), a)
  BY PopularAre
<1>6. j \in DOMAIN s.cases
  OBVIOUS
<1>0. s = Part(p, n, i)
  OBVIOUS
<1> HIDE DEF s, C, A, B
<1>7. s.cases[j].on \in A /\ s.cases[j].block \in B
  <2>1. s.cases[j] \in C
    BY <1>2, <1>6, SeqIs
  <2> QED
    BY <1>3, <2>1
<1>8. s.cases[j].on \in DOMAIN ActionTables(p) <=> s.cases[j].on \in A
  BY ActionTablesAre DEF A
<1>9. NewOn(p, s, j) = BitOf(ActionTables(p), s.cases[j].on, s.table)
  BY <1>4, <1>5 DEF NewOn, BitOf
<1> QED
  BY <1>0, <1>2, <1>7, <1>9 DEF A, B

(* Blocks that match, up to the n-th.                                      *)
Matching(f, w, g, v, n) == \A m \in 1..(n - 1) : Through(f, w[m]) = Through(g, v[m])
LEMMA CasesMatch ==
  ASSUME NEW E, NEW f, IsMorphism(f, E), NEW g, IsMorphism(g, E), NEW n, NEW w, NEW v, Matching(f, w, g, v, n),
         NEW c, NEW s, NEW a, NEW b, DOMAIN c.cases = DOMAIN s.cases,
         \A j \in DOMAIN s.cases : /\ c.cases[j].block = s.cases[j].block /\ s.cases[j].block \in 1..(n - 1)
                                   /\ c.cases[j].on = b <=> s.cases[j].on = a
  PROVE  Through(f, CaseRuns(c, b, w)) = Through(g, CaseRuns(s, a, v))
<1> DEFINE J == {j \in DOMAIN s.cases : s.cases[j].on = a}
           K == {j \in DOMAIN c.cases : c.cases[j].on = b}
<1>1. K = J
  OBVIOUS
<1>2. Through(f, {<<>>}) = {<<>>} /\ Through(g, {<<>>}) = {<<>>}
  <2>1. {<<>>} \in SUBSET Seq(E)
    OBVIOUS
  <2> QED
    BY <2>1, ThroughJoined
<1>3. CASE J = {}
  <2>1. CaseRuns(c, b, w) = {<<>>} /\ CaseRuns(s, a, v) = {<<>>}
    BY <1>1, <1>3 DEF CaseRuns
  <2> QED
    BY <1>2, <2>1
<1>4. CASE J # {}
  <2> DEFINE L == UNION {w[c.cases[j].block] : j \in K}
             R == UNION {v[s.cases[j].block] : j \in J}
  <2>1. CaseRuns(c, b, w) = L
    BY <1>1, <1>4 DEF CaseRuns
  <2>2. CaseRuns(s, a, v) = R
    BY <1>4 DEF CaseRuns
  <2>3. \A j \in J : /\ c.cases[j].block = s.cases[j].block
                     /\ Through(f, w[c.cases[j].block]) = Through(g, v[s.cases[j].block])
    BY DEF Matching
  <2>4. ASSUME NEW x \in Through(f, L) PROVE x \in Through(g, R)
    <3>1. PICK r \in L : x = f[r]
      BY DEF Through
    <3>2. PICK j \in K : r \in w[c.cases[j].block]
      BY <3>1
    <3>3. x \in Through(f, w[c.cases[j].block])
      BY <3>1, <3>2 DEF Through
    <3>4. x \in Through(g, v[s.cases[j].block]) /\ j \in J
      BY <1>1, <2>3, <3>3
    <3>5. PICK q \in v[s.cases[j].block] : x = g[q]
      BY <3>4 DEF Through
    <3>6. q \in R
      BY <3>4, <3>5
    <3> QED
      BY <3>5, <3>6 DEF Through
  <2>5. ASSUME NEW x \in Through(g, R) PROVE x \in Through(f, L)
    <3>1. PICK r \in R : x = g[r]
      BY DEF Through
    <3>2. PICK j \in J : r \in v[s.cases[j].block]
      BY <3>1
    <3>3. x \in Through(g, v[s.cases[j].block])
      BY <3>1, <3>2 DEF Through
    <3>4. x \in Through(f, w[c.cases[j].block]) /\ j \in K
      BY <1>1, <2>3, <3>3
    <3>5. PICK q \in w[c.cases[j].block] : x = f[q]
      BY <3>4 DEF Through
    <3>6. q \in L
      BY <3>4, <3>5
    <3> QED
      BY <3>5, <3>6 DEF Through
  <2> HIDE DEF L, R
  <2> QED
    BY <2>1, <2>2, <2>4, <2>5
<1> QED
  BY <1>3, <1>4

-----------------------------------------------------------------------------

(* A table with its cases, one action at a time.                           *)
LEMMA TakenMatch ==
  ASSUME NEW E, NEW f, IsMorphism(f, E), NEW g, IsMorphism(g, E),
         NEW x \in E, NEW y \in E, f[<<x>>] = g[<<y>>],
         NEW A \in SUBSET Seq(E), NEW B \in SUBSET Seq(E), Through(f, A) = Through(g, B)
  PROVE  Through(f, Joined({<<x>>}, A)) = Through(g, Joined({<<y>>}, B))
<1> DEFINE X == {<<x>>}
           Y == {<<y>>}
<1>1. X \in SUBSET Seq(E) /\ Y \in SUBSET Seq(E)
  OBVIOUS
<1>2. Through(f, X) = Through(g, Y)
  BY DEF Through
<1> HIDE DEF X, Y
<1>3. Through(f, Joined(X, A)) = Joined(Through(f, X), Through(f, A))
  BY <1>1, ThroughJoined
<1>4. Through(g, Joined(Y, B)) = Joined(Through(g, Y), Through(g, B))
  BY <1>1, ThroughJoined
<1>5. Through(f, Joined(X, A)) = Through(g, Joined(Y, B))
  BY <1>2, <1>3, <1>4
<1> QED
  BY <1>5 DEF X, Y

LEMMA ApplyMatches ==
  ASSUME NEW p \in Programs, FirstCasesOf(p), NEW n \in DOMAIN p.blocks, NEW i \in DOMAIN p.blocks[n],
         Part(p, n, i).kind = "apply",
         NEW w, NEW v, IntoTyped(w, n, Steps), IntoTyped(v, n, Steps), Matching(Keeping(p), w, Recalling(p), v, n)
  PROVE  Through(Keeping(p), StatementRuns(NewCase(p, n, i), w, ActsNow(p)))
           = Through(Recalling(p), StatementRuns(Part(p, n, i), v, ActsOf(p)))
<1> DEFINE f == Keeping(p)
           g == Recalling(p)
           s == Part(p, n, i)
           c == NewCase(p, n, i)
           t == s.table
           B(a) == BitOf(ActionTables(p), a, t)
           L(b) == Joined({<<<<t, b>>>>}, CaseRuns(c, b, w))
           R(a) == Joined({<<<<t, a>>>>}, CaseRuns(s, a, v))
           old == ActsOf(p)[t]
           now == ActsNow(p)[t]
<1>0. s.kind = "apply" /\ s \in Statements(p, n)
  BY BlocksAre
<1>1. t \in DOMAIN p.tables
  BY <1>0, StatementIs DEF IsApply, IsCall, IsIf, IsAssert
<1>2. c.kind = "apply" /\ c.table = t /\ DOMAIN c.cases = DOMAIN s.cases
      /\ \A j \in DOMAIN s.cases : c.cases[j].block = s.cases[j].block /\ c.cases[j].on = NewOn(p, s, j)
  <2>1. IsNewCase(p, s, c)
    BY NewCaseIs
  <2> HIDE DEF s, c
  <2> QED
    BY <1>0, <2>1 DEF IsNewCase, t
<1>3. \A j \in DOMAIN s.cases : /\ s.cases[j].on \in DOMAIN p.actions /\ s.cases[j].block \in 1..(n - 1)
                                /\ NewOn(p, s, j) = B(s.cases[j].on)
  BY CaseNamed
<1>4. now = {B(a) : a \in old}
      /\ \A a \in old : a \in DOMAIN p.actions /\ <<t, a>> \in Steps /\ <<t, B(a)>> \in Steps
  BY <1>1, ActsAre
<1>5. IsMorphism(f, Steps) /\ IsMorphism(g, Steps)
  BY KeepingIs, RecallingIs
<1>6. ASSUME NEW a \in old PROVE Through(f, L(B(a))) = Through(g, R(a))
  <2> DEFINE b == B(a)
  <2>1. a \in DOMAIN p.actions /\ <<t, a>> \in Steps /\ <<t, b>> \in Steps
    BY <1>4
  <2>2. \A j \in DOMAIN s.cases : c.cases[j].on = b <=> s.cases[j].on = a
    <3> TAKE j \in DOMAIN s.cases
    <3>1. c.cases[j].on = B(s.cases[j].on) /\ s.cases[j].on \in DOMAIN p.actions
      BY <1>2, <1>3
    <3>2. B(s.cases[j].on) = B(a) => s.cases[j].on = a
      BY <1>1, <2>1, <3>1, BitTellsActions
    <3> HIDE DEF s, c, t, B
    <3> QED
      BY <3>1, <3>2
  <2>3. f[<<<<t, b>>>>] = g[<<<<t, a>>>>]
    <3>1. f[<<<<t, b>>>>] = <<<<t, b>>>>
      <4>1. \A x \in Steps : f[<<x>>] = IF x[1] \in DOMAIN p.tables THEN <<x>> ELSE <<>>
        BY KeepingIs
      <4>2. <<t, b>>[1] = t
        OBVIOUS
      <4> HIDE DEF f, b, t
      <4> QED
        BY <1>1, <2>1, <4>1, <4>2
    <3>2. g[<<<<t, a>>>>] = <<<<t, b>>>>
      <4>1. \A x \in Steps : g[<<x>>] = <<Recalled(p, x)>>
        BY RecallingIs
      <4>2. Recalled(p, <<t, a>>) = <<t, b>>
        BY DEF Recalled
      <4> HIDE DEF g, b, t
      <4> QED
        BY <2>1, <4>1, <4>2
    <3> QED
      BY <3>1, <3>2
  <2>4. \A j \in DOMAIN s.cases : s.cases[j].block \in 1..(n - 1) /\ c.cases[j].block = s.cases[j].block
    BY <1>2, <1>3
  <2>5. DOMAIN c.cases = DOMAIN s.cases
    BY <1>2
  <2> HIDE DEF s, c, f, g, b, t
  <2>6. \A j \in DOMAIN c.cases : c.cases[j].block \in 1..(n - 1)
    BY <2>4, <2>5
  <2>7. CaseRuns(c, b, w) \in SUBSET Seq(Steps)
    BY <2>6, CaseRunsTyped
  <2>8. CaseRuns(s, a, v) \in SUBSET Seq(Steps)
    BY <2>4, CaseRunsTyped
  <2>9. Matching(f, w, g, v, n)
    BY DEF f, g
  <2>10. Through(f, CaseRuns(c, b, w)) = Through(g, CaseRuns(s, a, v))
    <3>1. \A j \in DOMAIN s.cases : /\ c.cases[j].block = s.cases[j].block /\ s.cases[j].block \in 1..(n - 1)
                                    /\ c.cases[j].on = b <=> s.cases[j].on = a
      BY <2>2, <2>4
    <3> QED
      BY <1>5, <2>5, <2>9, <3>1, CasesMatch
  <2>11. Through(f, Joined({<<<<t, b>>>>}, CaseRuns(c, b, w))) = Through(g, Joined({<<<<t, a>>>>}, CaseRuns(s, a, v)))
    BY <1>5, <2>1, <2>3, <2>7, <2>8, <2>10, TakenMatch
  <2> QED
    BY <2>11 DEF b
<1>7. StatementRuns(c, w, ActsNow(p)) = UNION {L(b) : b \in now}
  <2>1. c.kind = "apply" /\ c.table = t
    BY <1>2
  <2> HIDE DEF c, t
  <2>2. StatementRuns(c, w, ActsNow(p)) = TableRuns(c, w, ActsNow(p))
    BY <2>1, ApplyRuns
  <2> QED
    BY <2>1, <2>2 DEF TableRuns
<1>8. StatementRuns(s, v, ActsOf(p)) = UNION {R(a) : a \in old}
  <2>1. s.kind = "apply"
    BY <1>0
  <2> HIDE DEF s
  <2>2. StatementRuns(s, v, ActsOf(p)) = TableRuns(s, v, ActsOf(p))
    BY <2>1, ApplyRuns
  <2> QED
    BY <2>2 DEF TableRuns
<1> DEFINE UL == UNION {L(b) : b \in now}
           UR == UNION {R(a) : a \in old}
<1>9. Through(f, UL) = Through(g, UR)
  <2>1. now = {B(a) : a \in old}
    BY <1>4
  <2> HIDE DEF L, R, f, g, old, now, B
  <2>2. ASSUME NEW x \in Through(f, UL) PROVE x \in Through(g, UR)
    <3>1. PICK r \in UL : x = f[r]
      BY DEF Through
    <3>2. PICK a \in old : r \in L(B(a))
      BY <2>1, <3>1
    <3>3. x \in Through(f, L(B(a)))
      BY <3>1, <3>2 DEF Through
    <3>4. x \in Through(g, R(a))
      BY <1>6, <3>3
    <3>5. PICK q \in R(a) : x = g[q]
      BY <3>4 DEF Through
    <3>6. q \in UR
      BY <3>5
    <3> QED
      BY <3>5, <3>6 DEF Through
  <2>3. ASSUME NEW x \in Through(g, UR) PROVE x \in Through(f, UL)
    <3>1. PICK r \in UR : x = g[r]
      BY DEF Through
    <3>2. PICK a \in old : r \in R(a)
      BY <3>1
    <3>3. x \in Through(g, R(a))
      BY <3>1, <3>2 DEF Through
    <3>4. x \in Through(f, L(B(a)))
      BY <1>6, <3>3
    <3>5. PICK q \in L(B(a)) : x = f[q]
      BY <3>4 DEF Through
    <3>6. q \in UL
      BY <2>1, <3>5
    <3> QED
      BY <3>5, <3>6 DEF Through
  <2> HIDE DEF UL, UR
  <2> QED
    BY <2>2, <2>3
<1> HIDE DEF s, c, f, g, UL, UR
<1>10. StatementRuns(c, w, ActsNow(p)) = UL /\ StatementRuns(s, v, ActsOf(p)) = UR
  BY <1>7, <1>8 DEF UL, UR
<1> QED
  BY <1>9, <1>10 DEF f, g, s, c

LEMMA StatementMatches ==
  ASSUME NEW p \in Programs, FirstCasesOf(p), NEW n \in DOMAIN p.blocks, NEW i \in DOMAIN p.blocks[n],
         NEW w, NEW v, IntoTyped(w, n, Steps), IntoTyped(v, n, Steps), Matching(Keeping(p), w, Recalling(p), v, n)
  PROVE  Through(Keeping(p), StatementRuns(NewCase(p, n, i), w, ActsNow(p)))
           = Through(Recalling(p), StatementRuns(Part(p, n, i), v, ActsOf(p)))
<1> DEFINE f == Keeping(p)
           g == Recalling(p)
           s == Part(p, n, i)
           c == NewCase(p, n, i)
<1>1. s \in Statements(p, n)
  BY BlocksAre
<1>2. IsNewCase(p, s, c)
  BY NewCaseIs
<1>3. Through(f, {<<>>}) = {<<>>} /\ Through(g, {<<>>}) = {<<>>}
  <2>1. {<<>>} \in SUBSET Seq(Steps)
    OBVIOUS
  <2> QED
    BY <2>1, KeepingIs, RecallingIs, ThroughJoined
<1>4. Matching(f, w, g, v, n)
  OBVIOUS
<1>5. CASE s.kind = "apply"
  BY <1>5, ApplyMatches
<1> HIDE DEF f, g
<1>6. CASE IsCall(p, n, s)
  <2>1. s.kind = "call" /\ s.block \in 1..(n - 1) /\ c = s
    <3> HIDE DEF s, c
    <3> QED
      BY <1>2, <1>6 DEF IsCall, IsNewCase
  <2>2. Through(f, w[s.block]) = Through(g, v[s.block])
    BY <1>4, <2>1 DEF Matching
  <2>3. StatementRuns(c, w, ActsNow(p)) = w[s.block] /\ StatementRuns(s, v, ActsOf(p)) = v[s.block]
    <3> HIDE DEF s, c
    <3> QED
      BY <2>1 DEF StatementRuns
  <2> HIDE DEF s, c
  <2> QED
    BY <2>2, <2>3 DEF f, g, s, c
<1>7. CASE IsIf(p, n, s)
  <2> DEFINE E(u) == IF s.else = <<>> THEN {<<>>} ELSE u[s.else[1]]
  <2>1. s.kind = "if" /\ s.then \in 1..(n - 1) /\ c = s /\ (s.else = <<>> \/ s.else[1] \in 1..(n - 1))
    <3>1. s.else = <<>> \/ s.else[1] \in 1..(n - 1)
      BY <1>7 DEF IsIf
    <3> HIDE DEF s, c
    <3> QED
      BY <1>2, <1>7, <3>1 DEF IsIf, IsNewCase
  <2>2. Through(f, w[s.then]) = Through(g, v[s.then]) /\ Through(f, E(w)) = Through(g, E(v))
    <3> HIDE DEF s, c
    <3> QED
      BY <1>3, <1>4, <2>1 DEF Matching
  <2>3. StatementRuns(c, w, ActsNow(p)) = w[s.then] \cup E(w) /\ StatementRuns(s, v, ActsOf(p)) = v[s.then] \cup E(v)
    <3> HIDE DEF s, c
    <3> QED
      BY <2>1 DEF StatementRuns
  <2> HIDE DEF s, c, E
  <2>4. /\ Through(f, w[s.then] \cup E(w)) = Through(f, w[s.then]) \cup Through(f, E(w))
        /\ Through(g, v[s.then] \cup E(v)) = Through(g, v[s.then]) \cup Through(g, E(v))
    BY DEF Through
  <2>5. Through(f, StatementRuns(c, w, ActsNow(p))) = Through(g, StatementRuns(s, v, ActsOf(p)))
    BY <2>2, <2>3, <2>4
  <2> QED
    BY <2>5 DEF f, g, s, c
<1>8. CASE IsAssert(p, n, s)
  <2>1. s.kind = "assert" /\ c = s
    <3> HIDE DEF s, c
    <3> QED
      BY <1>2, <1>8 DEF IsAssert, IsNewCase
  <2>2. StatementRuns(c, w, ActsNow(p)) = {<<>>} /\ StatementRuns(s, v, ActsOf(p)) = {<<>>}
    <3> HIDE DEF s, c
    <3> QED
      BY <2>1 DEF StatementRuns
  <2> QED
    BY <1>3, <2>2 DEF f, g
<1>9. CASE IsApply(p, n, s)
  BY <1>5, <1>9 DEF IsApply
<1> QED
  BY <1>1, <1>6, <1>7, <1>8, <1>9, StatementIs

-----------------------------------------------------------------------------
(* Block by block.                                                         *)

RunsOf(p) == Runs(p.blocks, ActsOf(p))
RunsNow(p) == Runs(BlocksEnded(p), ActsNow(p))
LEMMA RunsOfAre ==
  ASSUME NEW p \in Programs, NEW n \in DOMAIN p.blocks
  PROVE  /\ RunsOf(p)[n] = BlockRuns(p.blocks[n], RunsOf(p), ActsOf(p)) /\ IntoTyped(RunsOf(p), n, Steps)
         /\ RunsOf(p)[n] \in SUBSET Seq(Steps)
         /\ RunsTyped(Range(p.blocks[n]), RunsOf(p), ActsOf(p), Steps) /\ p.blocks[n] \in Seq(Range(p.blocks[n]))
<1>1. IsLaidOut(p.blocks, ActsOf(p), Steps)
  BY LaidOutProgram
<1>2. n \in 1..Len(p.blocks)
  BY BlocksAre
<1>3. RunsOf(p)[n] = BlockRuns(p.blocks[n], RunsOf(p), ActsOf(p)) /\ IntoTyped(RunsOf(p), n, Steps)
  BY <1>1, <1>2, RunsAre DEF RunsOf
<1>4. GuidedBlock(p.blocks[n], n, ActsOf(p), Steps)
  BY <1>1, <1>2 DEF IsLaidOut
<1>5. RunsTyped(Range(p.blocks[n]), RunsOf(p), ActsOf(p), Steps)
      /\ BlockRuns(p.blocks[n], RunsOf(p), ActsOf(p)) \in SUBSET Seq(Steps)
  BY <1>3, <1>4, GuidedBlockRuns
<1> QED
  BY <1>3, <1>4, <1>5 DEF GuidedBlock

LEMMA RunsNowAre ==
  ASSUME NEW p \in Programs, NEW n \in DOMAIN p.blocks
  PROVE  /\ RunsNow(p)[n] = BlockRuns(BlocksEnded(p)[n], RunsNow(p), ActsNow(p)) /\ IntoTyped(RunsNow(p), n, Steps)
         /\ RunsTyped(Finals(p, n), RunsNow(p), ActsNow(p), Steps)
<1>1. IsLaidOut(BlocksEnded(p), ActsNow(p), Steps) /\ Len(BlocksEnded(p)) = Len(p.blocks)
  BY LaidOutNow
<1>2. n \in 1..Len(BlocksEnded(p))
  BY <1>1, BlocksAre
<1>3. RunsNow(p)[n] = BlockRuns(BlocksEnded(p)[n], RunsNow(p), ActsNow(p)) /\ IntoTyped(RunsNow(p), n, Steps)
  BY <1>1, <1>2, RunsAre DEF RunsNow
<1>4. ASSUME NEW s \in Finals(p, n) PROVE StatementRuns(s, RunsNow(p), ActsNow(p)) \in SUBSET Seq(Steps)
  <2>1. IsGuided(s, n, ActsNow(p), Steps)
    BY FinalsGuided
  <2> QED
    BY <1>3, <2>1, GuidedRuns
<1> QED
  BY <1>3, <1>4 DEF RunsTyped

(* The tables put behind statements and blocks are none of the program's.  *)
LEMMA AddedRuns ==
  ASSUME NEW p \in Programs, NEW s \in Added(p), NEW w
  PROVE  /\ StatementRuns(s, w, ActsNow(p)) = {<<<<s.table, None>>>>} /\ <<s.table, None>> \in Steps
         /\ Through(Keeping(p), StatementRuns(s, w, ActsNow(p))) = {<<>>}
<1> DEFINE x == <<s.table, None>>
<1>1. s.kind = "apply" /\ s.cases = <<>> /\ s.table \in AddedTables(p) /\ s.table \notin DOMAIN p.tables
  BY AddedAre
<1>2. ActsNow(p)[s.table] = {None} /\ x \in Steps
  BY <1>1, ActsAre
<1>3. CaseRuns(s, None, w) = {<<>>}
  BY <1>1 DEF CaseRuns
<1>4. StatementRuns(s, w, ActsNow(p)) = TableRuns(s, w, ActsNow(p))
  BY <1>1, ApplyRuns
<1>5. TableRuns(s, w, ActsNow(p)) = Joined({<<x>>}, {<<>>})
  BY <1>2, <1>3 DEF TableRuns
<1>6. Joined({<<x>>}, {<<>>}) = {<<x>>}
  <2> DEFINE X == {<<x>>}
  <2>1. X \in SUBSET Seq(Steps)
    BY <1>2
  <2> HIDE DEF X
  <2>2. Joined(X, {<<>>}) = X
    BY <2>1, JoinedIs
  <2> QED
    BY <2>2 DEF X
<1>7. Keeping(p)[<<x>>] = <<>>
  <2>1. x[1] = s.table
    OBVIOUS
  <2>2. \A y \in Steps : Keeping(p)[<<y>>] = IF y[1] \in DOMAIN p.tables THEN <<y>> ELSE <<>>
    BY KeepingIs
  <2> HIDE DEF x
  <2> QED
    BY <1>1, <1>2, <2>1, <2>2
<1>8. StatementRuns(s, w, ActsNow(p)) = {<<x>>}
  BY <1>4, <1>5, <1>6
<1>9. Through(Keeping(p), {<<x>>}) = {<<>>}
  <2> HIDE DEF x
  <2> QED
    BY <1>7 DEF Through
<1> QED
  BY <1>2, <1>8, <1>9

LEMMA AddedUnseen ==
  ASSUME NEW p \in Programs, NEW b \in Seq(Added(p)), NEW w
  PROVE  /\ Through(Keeping(p), BlockRuns(b, w, ActsNow(p))) = {<<>>}
         /\ BlockRuns(b, w, ActsNow(p)) \in SUBSET Seq(Steps)
<1>1. RunsTyped(Added(p), w, ActsNow(p), Steps)
  <2>1. ASSUME NEW s \in Added(p) PROVE StatementRuns(s, w, ActsNow(p)) \in SUBSET Seq(Steps)
    <3>1. StatementRuns(s, w, ActsNow(p)) = {<<<<s.table, None>>>>} /\ <<s.table, None>> \in Steps
      BY AddedRuns
    <3> DEFINE x == <<s.table, None>>
    <3>2. x \in Steps /\ StatementRuns(s, w, ActsNow(p)) = {<<x>>}
      BY <3>1
    <3> HIDE DEF x
    <3> QED
      BY <3>2
  <2> QED
    BY <2>1 DEF RunsTyped
<1>2. \A s \in Added(p) : Through(Keeping(p), StatementRuns(s, w, ActsNow(p))) = {<<>>}
  BY AddedRuns
<1>3. IsMorphism(Keeping(p), Steps)
  BY KeepingIs
<1> QED
  BY <1>1, <1>2, <1>3, NothingSeen, BlockRunsTyped

LEMMA UnseenBehind ==
  ASSUME NEW X, NEW b \in Seq(X), NEW d \in Seq(X), NEW w, NEW acts, NEW E, RunsTyped(X, w, acts, E),
         NEW f, IsMorphism(f, E), Through(f, BlockRuns(d, w, acts)) = {<<>>}
  PROVE  Through(f, BlockRuns(b \o d, w, acts)) = Through(f, BlockRuns(b, w, acts))
<1> DEFINE A == BlockRuns(b, w, acts)
           B == BlockRuns(d, w, acts)
<1>1. BlockRuns(b \o d, w, acts) = Joined(A, B)
  BY BlockRunsConcat
<1>2. A \in SUBSET Seq(E) /\ B \in SUBSET Seq(E)
  BY BlockRunsTyped
<1> HIDE DEF A, B
<1>3. Through(f, Joined(A, B)) = Joined(Through(f, A), Through(f, B))
  BY <1>2, ThroughJoined
<1>4. Through(f, A) \in SUBSET Seq(E)
  BY <1>2, ThroughJoined
<1>5. Joined(Through(f, A), {<<>>}) = Through(f, A)
  BY <1>4, JoinedIs
<1>6. Through(f, B) = {<<>>}
  BY DEF B
<1>7. Through(f, Joined(A, B)) = Through(f, A)
  BY <1>3, <1>5, <1>6
<1> QED
  BY <1>1, <1>7 DEF A

-----------------------------------------------------------------------------

LEMMA PartMatches ==
  ASSUME NEW p \in Programs, FirstCasesOf(p), NEW n \in DOMAIN p.blocks, NEW i \in DOMAIN p.blocks[n],
         Matching(Keeping(p), RunsNow(p), Recalling(p), RunsOf(p), n)
  PROVE  Through(Keeping(p), BlockRuns(FinalParts(p, n)[i], RunsNow(p), ActsNow(p)))
           = Through(Recalling(p), StatementRuns(Part(p, n, i), RunsOf(p), ActsOf(p)))
<1> DEFINE c == NewCase(p, n, i)
           m == Markers(p, n, i)
           w == RunsNow(p)
           X == Finals(p, n)
<1>1. c \in X /\ Added(p) \subseteq X
  BY DEF Finals
<1>2. FinalParts(p, n)[i] = <<c>> \o m
  BY FinalPartsAre
<1>3. m \in Seq(Added(p))
  BY MarkersAre
<1>4. RunsTyped(X, w, ActsNow(p), Steps) /\ IntoTyped(w, n, Steps) /\ IntoTyped(RunsOf(p), n, Steps)
  BY RunsNowAre, RunsOfAre
<1>5. Through(Keeping(p), StatementRuns(c, w, ActsNow(p))) = Through(Recalling(p), StatementRuns(Part(p, n, i), RunsOf(p), ActsOf(p)))
  BY <1>4, StatementMatches
<1>6. IsMorphism(Keeping(p), Steps)
  BY KeepingIs
<1> HIDE DEF c, m, w, X
<1>7. Through(Keeping(p), BlockRuns(m, w, ActsNow(p))) = {<<>>}
  BY <1>3, AddedUnseen
<1>8. m \in Seq(X) /\ <<c>> \in Seq(X)
  <2>1. \A A, B : A \subseteq B => Seq(A) \subseteq Seq(B)
    OBVIOUS
  <2> QED
    BY <1>1, <1>3, <2>1
<1> DEFINE b == <<c>>
<1>9. b \in Seq(X)
  BY <1>8
<1>10. BlockRuns(b, w, ActsNow(p)) = StatementRuns(c, w, ActsNow(p))
  <2>1. StatementRuns(c, w, ActsNow(p)) \in SUBSET Seq(Steps)
    BY <1>1, <1>4 DEF RunsTyped
  <2> QED
    BY <2>1, BlockRunsOne
<1> HIDE DEF b
<1>11. Through(Keeping(p), BlockRuns(b \o m, w, ActsNow(p))) = Through(Keeping(p), BlockRuns(b, w, ActsNow(p)))
  BY <1>4, <1>6, <1>7, <1>8, <1>9, UnseenBehind
<1>12. FinalParts(p, n)[i] = b \o m
  BY <1>2 DEF b
<1>13. Through(Keeping(p), BlockRuns(FinalParts(p, n)[i], w, ActsNow(p)))
         = Through(Recalling(p), StatementRuns(Part(p, n, i), RunsOf(p), ActsOf(p)))
  BY <1>5, <1>10, <1>11, <1>12
<1> QED
  BY <1>13 DEF w

LEMMA BlockMatches ==
  ASSUME NEW p \in Programs, FirstCasesOf(p), NEW n \in DOMAIN p.blocks,
         Matching(Keeping(p), RunsNow(p), Recalling(p), RunsOf(p), n)
  PROVE  Through(Keeping(p), RunsNow(p)[n]) = Through(Recalling(p), RunsOf(p)[n])
<1> DEFINE b == p.blocks[n]
           ss == FinalParts(p, n)
           X == Finals(p, n)
           f == Keeping(p)
           g == Recalling(p)
           w == RunsNow(p)
           v == RunsOf(p)
           N == Len(b)
           d == Behind(p, n)
           A == ActsNow(p)
           F == PartsRuns(ss, w, A)
           G == PartRuns(b, v, ActsOf(p))
<1>1. N \in Nat /\ DOMAIN b = 1..N
  BY BlocksAre
<1>2. ss \in Seq(Seq(X)) /\ Len(ss) = N
  BY FinalPartsAre
<1>3. BlocksEnded(p)[n] = FlattenSeq(ss) \o d /\ d \in Seq(X)
  BY BlocksFinal
<1>4. w[n] = BlockRuns(BlocksEnded(p)[n], w, A) /\ RunsTyped(X, w, A, Steps)
  BY RunsNowAre
<1>5. v[n] = BlockRuns(b, v, ActsOf(p)) /\ RunsTyped(Range(b), v, ActsOf(p), Steps) /\ b \in Seq(Range(b))
  BY RunsOfAre
<1>6. IsMorphism(f, Steps) /\ IsMorphism(g, Steps)
  BY KeepingIs, RecallingIs
<1>7. Through(f, BlockRuns(d, w, A)) = {<<>>}
  <2>1. d \in Seq({Apply(PortCorrection), Apply(VisitedType)})
    BY BehindIs
  <2>2. {Apply(PortCorrection), Apply(VisitedType)} \subseteq Added(p)
    BY DEF Added
  <2>3. \A Y, Z : Y \subseteq Z => Seq(Y) \subseteq Seq(Z)
    OBVIOUS
  <2>4. d \in Seq(Added(p))
    BY <2>1, <2>2, <2>3
  <2> HIDE DEF d, w
  <2> QED
    BY <2>4, AddedUnseen
<1>8. ASSUME NEW i \in 1..N PROVE Through(f, F[i]) = Through(g, G[i])
  <2>1. i \in DOMAIN b /\ i \in DOMAIN ss
    BY <1>1, <1>2, SeqIs
  <2>2. F[i] = BlockRuns(ss[i], w, A)
    BY <2>1 DEF PartsRuns
  <2>3. G[i] = StatementRuns(Part(p, n, i), v, ActsOf(p))
    BY <2>1 DEF PartRuns, Part
  <2>4. Through(f, BlockRuns(ss[i], w, A)) = Through(g, StatementRuns(Part(p, n, i), v, ActsOf(p)))
    BY <2>1, PartMatches
  <2> HIDE DEF F, G, f, g
  <2> QED
    BY <2>2, <2>3, <2>4
<1> HIDE DEF b, ss, X, f, g, w, v, N, d, A
<1>9. PICK q : IsChain(q, N, Steps, F) /\ BlockRuns(FlattenSeq(ss), w, A) = q[N]
  BY <1>2, <1>4, FlattenChain
<1>10. PICK u : IsChain(u, N, Steps, G) /\ BlockRuns(b, v, ActsOf(p)) = u[N]
  BY <1>5, ChainIs DEF N
<1> HIDE DEF F, G
<1>11. Through(f, q[N]) = Through(g, u[N])
  BY <1>1, <1>6, <1>8, <1>9, <1>10, ChainsMatch
<1> DEFINE h == FlattenSeq(ss)
<1>12. h \in Seq(X)
  BY <1>2, FlattenTyped
<1> HIDE DEF h
<1>13. Through(f, BlockRuns(h \o d, w, A)) = Through(f, BlockRuns(h, w, A))
  BY <1>3, <1>4, <1>6, <1>7, <1>12, UnseenBehind
<1>14. Through(f, w[n]) = Through(g, v[n])
  BY <1>3, <1>4, <1>5, <1>9, <1>10, <1>11, <1>13 DEF h
<1> QED
  BY <1>14 DEF f, g, w, v

LEMMA AllMatch ==
  ASSUME NEW p \in Programs, FirstCasesOf(p), NEW n \in DOMAIN p.blocks
  PROVE  Through(Keeping(p), RunsNow(p)[n]) = Through(Recalling(p), RunsOf(p)[n])
<1> DEFINE N == Len(p.blocks)
           M(m) == Through(Keeping(p), RunsNow(p)[m]) = Through(Recalling(p), RunsOf(p)[m])
           S == {k \in 0..N : \A m \in 1..k : M(m)}
<1>1. N \in Nat /\ DOMAIN p.blocks = 1..N
  BY BlocksAre
<1>2. 0 \in S
  BY <1>1
<1>3. ASSUME NEW i \in 1..N, i - 1 \in S PROVE i \in S
  <2>1. PICK k \in S : k = i - 1
    BY <1>3
  <2>2. \A m \in 1..(i - 1) : M(m)
    BY <2>1
  <2>3. Matching(Keeping(p), RunsNow(p), Recalling(p), RunsOf(p), i)
    BY <2>2 DEF Matching
  <2>4. M(i)
    BY <1>1, <2>3, BlockMatches
  <2> HIDE DEF M
  <2>5. \A m \in 1..i : M(m)
    BY <2>2, <2>4
  <2>6. i \in 0..N
    BY <1>1
  <2> QED
    BY <2>5, <2>6
<1> HIDE DEF S, N, M
<1>4. 0..N \subseteq S
  BY <1>1, <1>2, <1>3, InductionUpTo
<1>5. N \in S
  BY <1>1, <1>4
<1>6. M(n)
  BY <1>1, <1>5 DEF S
<1> QED
  BY <1>6 DEF M

(* The instrumented program takes a packet the way the program takes it.   *)
LEMMA SameRunsHolds == PassesMade => SameRuns
<1> SUFFICES ASSUME PassesMade, Done PROVE SameRuns
  BY DEF SameRuns
<1>1. /\ prog \in Programs /\ popular = PopularActions(prog) /\ tables = TablesRenamed(prog)
      /\ blocks = BlocksEnded(prog) /\ extra = ExtraPort(prog)
  BY DoneMade
<1>2. DropsRedirected
  BY DropsRedirectedHolds
<1>3. ASSUME FirstCasesOnly, NEW c \in Range(prog.roots)
      PROVE  {OfProgram(r) : r \in InstrumentedRuns[c]} = {Renaming(r) : r \in ProgramRuns[c]}
  <2>1. c \in DOMAIN prog.blocks
    <3>1. prog.roots \in Seq(DOMAIN prog.blocks)
      BY <1>1, BlocksAre
    <3> QED
      BY <3>1, InRange
  <2>2. FirstCasesOf(prog)
    <3> SUFFICES ASSUME NEW n \in DOMAIN prog.blocks, NEW i \in DOMAIN prog.blocks[n],
                        Part(prog, n, i).kind = "apply", NEW j \in DOMAIN Part(prog, n, i).cases,
                        IsPopular(ActionTables(prog), Part(prog, n, i).cases[j].on)
                 PROVE  j = 1 /\ Plain(Part(prog, n, i).table)
      BY DEF FirstCasesOf
    <3> DEFINE s == Part(prog, n, i)
    <3>1. s \in InProgram(n)
      BY DEF InProgram, Part, Range
    <3>2. s.cases # <<>>
      OBVIOUS
    <3>3. s \in Selects
      BY <3>1, <3>2 DEF Selects
    <3>4. s.cases[j].on \in Range(popular)
      BY <1>1, PopularAre
    <3> HIDE DEF s
    <3>5. j \in DOMAIN s.cases
      BY DEF s
    <3>6. j = 1 /\ Plain(s.table)
      BY <1>3, <3>3, <3>4, <3>5 DEF FirstCasesOnly
    <3> QED
      BY <3>6 DEF s
  <2>3. ProgramRuns = RunsOf(prog)
    BY DEF ProgramRuns, RunsOf, ActsOf, Actions, ProgramTables
  <2>4. InstrumentedRuns = RunsNow(prog)
    BY <1>1 DEF InstrumentedRuns, InstrumentedActions, RunsNow, ActsNow, AddedTables, ProgramTables
  <2>5. RunsNow(prog)[c] \in SUBSET Seq(Steps) /\ RunsOf(prog)[c] \in SUBSET Seq(Steps)
    <3>1. BlocksEnded(prog)[c] \in Seq(Finals(prog, c)) /\ RunsTyped(Finals(prog, c), RunsNow(prog), ActsNow(prog), Steps)
      BY <1>1, <2>1, BlocksFinal, RunsNowAre
    <3>2. RunsNow(prog)[c] = BlockRuns(BlocksEnded(prog)[c], RunsNow(prog), ActsNow(prog))
      BY <1>1, <2>1, RunsNowAre
    <3>3. BlockRuns(BlocksEnded(prog)[c], RunsNow(prog), ActsNow(prog)) \in SUBSET Seq(Steps)
      BY <3>1, BlockRunsTyped
    <3> QED
      BY <1>1, <2>1, <3>2, <3>3, RunsOfAre
  <2>6. \A r \in Seq(Steps) : OfProgram(r) = Keeping(prog)[r] /\ Renaming(r) = Recalling(prog)[r]
    BY DEF OfProgram, Renaming, Keeping, Recalling, Within, Chosen, Recalled, Taken, ProgramTables
  <2>7. Through(Keeping(prog), RunsNow(prog)[c]) = Through(Recalling(prog), RunsOf(prog)[c])
    BY <1>1, <2>1, <2>2, AllMatch
  <2>8. {OfProgram(r) : r \in RunsNow(prog)[c]} = Through(Keeping(prog), RunsNow(prog)[c])
    BY <2>5, <2>6 DEF Through
  <2>9. {Renaming(r) : r \in RunsOf(prog)[c]} = Through(Recalling(prog), RunsOf(prog)[c])
    BY <2>5, <2>6 DEF Through
  <2> QED
    BY <2>3, <2>4, <2>7, <2>8, <2>9
<1> QED
  BY <1>2, <1>3 DEF SameRuns

(* The instrumented blocks take a packet through the tables the program    *)
(* takes it through, actions renamed (UTModifier), and no action drops.    *)
THEOREM SameRunsAlways == Spec => []SameRuns
<1>1. PassesMade => SameRuns
  BY SameRunsHolds
<1> QED
  BY <1>1, InstrumentedAs, PTL

-----------------------------------------------------------------------------
(* Where a packet may come to.                                             *)

LEMMA ChildrenAre ==
  ASSUME NEW p \in Programs, NEW n \in DOMAIN p.blocks, NEW i \in DOMAIN p.blocks[n]
  PROVE  Children(Part(p, n, i)) \subseteq 1..(n - 1)
<1> DEFINE s == Part(p, n, i)
           B == 1..(n - 1)
<1>1. s \in Statements(p, n)
  BY BlocksAre
<1>0. s = Part(p, n, i)
  OBVIOUS
<1> SUFFICES Children(s) \subseteq B
  OBVIOUS
<1>2. CASE IsApply(p, n, s)
  <2> DEFINE C == [on : DOMAIN p.actions, block : B]
  <2>1. s.cases \in Seq(C) /\ s.kind = "apply" /\ \A x \in C : x.block \in B
    BY <1>2 DEF IsApply
  <2> HIDE DEF C, B, s
  <2>2. \A j \in DOMAIN s.cases : s.cases[j].block \in B
    BY <2>1, SeqIs
  <2> QED
    BY <2>1, <2>2 DEF Children
<1>3. CASE IsCall(p, n, s)
  <2> HIDE DEF s
  <2> QED
    BY <1>3 DEF IsCall, Children
<1>4. CASE IsIf(p, n, s)
  <2> HIDE DEF s
  <2>1. s.kind = "if" /\ s.then \in B
    BY <1>4 DEF IsIf
  <2>2. Range(s.else) \subseteq B
    <3>1. CASE s.else = <<>>
      BY <3>1 DEF Range
    <3>2. CASE \E m \in B : s.else = <<m>>
      BY <3>2 DEF Range
    <3> QED
      BY <1>4, <3>1, <3>2 DEF IsIf
  <2>3. Children(s) = {s.then} \cup Range(s.else)
    BY <2>1 DEF Children
  <2> HIDE DEF B
  <2> QED
    BY <2>1, <2>2, <2>3
<1>5. CASE IsAssert(p, n, s)
  <2> HIDE DEF s
  <2> QED
    BY <1>5 DEF IsAssert, Children
<1> QED
  BY <1>1, <1>2, <1>3, <1>4, <1>5, StatementIs

LeadsFrom(s, v) == UNION {v[m] : m \in Children(s)}
LeadsAt(bs, n, v) == {n} \cup UNION {LeadsFrom(bs[n][i], v) : i \in DOMAIN bs[n]}
LEMMA LeadsAtTyped ==
  ASSUME NEW p \in Programs, NEW n \in DOMAIN p.blocks, NEW v, \A m \in 1..(n - 1) : v[m] \in SUBSET Nat
  PROVE  LeadsAt(p.blocks, n, v) \in SUBSET Nat
<1>1. n \in Nat
  BY BlocksAre
<1>2. ASSUME NEW i \in DOMAIN p.blocks[n] PROVE LeadsFrom(p.blocks[n][i], v) \in SUBSET Nat
  <2>1. Children(p.blocks[n][i]) \subseteq 1..(n - 1)
    BY ChildrenAre DEF Part
  <2> DEFINE C == Children(p.blocks[n][i])
  <2>2. \A m \in C : v[m] \in SUBSET Nat
    BY <2>1
  <2>3. LeadsFrom(p.blocks[n][i], v) = UNION {v[m] : m \in C}
    BY DEF LeadsFrom
  <2> HIDE DEF C
  <2> QED
    BY <2>2, <2>3
<1> DEFINE L(i) == LeadsFrom(p.blocks[n][i], v)
           D == DOMAIN p.blocks[n]
<1>3. LeadsAt(p.blocks, n, v) = {n} \cup UNION {L(i) : i \in D} /\ \A i \in D : L(i) \in SUBSET Nat
  BY <1>2 DEF LeadsAt
<1> HIDE DEF L, D
<1> QED
  BY <1>1, <1>3

LEMMA LeadsAtAgrees ==
  ASSUME NEW p \in Programs, NEW n \in DOMAIN p.blocks, NEW v, NEW w, \A m \in 1..(n - 1) : v[m] = w[m]
  PROVE  LeadsAt(p.blocks, n, v) = LeadsAt(p.blocks, n, w)
<1>1. ASSUME NEW i \in DOMAIN p.blocks[n] PROVE LeadsFrom(p.blocks[n][i], v) = LeadsFrom(p.blocks[n][i], w)
  <2> DEFINE C == Children(p.blocks[n][i])
  <2>1. C \subseteq 1..(n - 1)
    BY ChildrenAre DEF Part
  <2>2. \A m \in C : v[m] = w[m]
    BY <2>1
  <2>3. LeadsFrom(p.blocks[n][i], v) = UNION {v[m] : m \in C} /\ LeadsFrom(p.blocks[n][i], w) = UNION {w[m] : m \in C}
    BY DEF LeadsFrom
  <2> HIDE DEF C
  <2>4. {v[m] : m \in C} = {w[m] : m \in C}
    BY <2>2
  <2> QED
    BY <2>3, <2>4
<1> DEFINE L(i) == LeadsFrom(p.blocks[n][i], v)
           M(i) == LeadsFrom(p.blocks[n][i], w)
           D == DOMAIN p.blocks[n]
<1>2. LeadsAt(p.blocks, n, v) = {n} \cup UNION {L(i) : i \in D} /\ LeadsAt(p.blocks, n, w) = {n} \cup UNION {M(i) : i \in D}
  BY DEF LeadsAt
<1>3. \A i \in D : L(i) = M(i)
  BY <1>1
<1> HIDE DEF L, M, D
<1>4. {L(i) : i \in D} = {M(i) : i \in D}
  BY <1>3
<1> QED
  BY <1>2, <1>4

LEMMA LeadsAre ==
  ASSUME NEW p \in Programs
  PROVE  \A n \in DOMAIN p.blocks : Leads(p.blocks)[n] = LeadsAt(p.blocks, n, Leads(p.blocks))
<1> DEFINE bs == p.blocks
           N == Len(bs)
           Z == SUBSET Nat
           F == [n \in 1..N |-> [v \in Seq(Z) |-> IF Len(v) = n - 1 THEN LeadsAt(bs, n, v) ELSE {}]]
           G(n, v) == {n} \cup UNION {UNION {v[m] : m \in Children(bs[n][i])} : i \in DOMAIN bs[n]}
           Is(u) == u = [n \in 0..N |-> IF n = 0 THEN <<>> ELSE Append(u[n - 1], G(n, u[n - 1]))]
           U == CHOOSE u : Is(u)
<1>1. N \in Nat /\ DOMAIN bs = 1..N
  BY BlocksAre
<1>0. \A n \in 1..N : \A v : G(n, v) = LeadsAt(bs, n, v)
  BY DEF LeadsAt, LeadsFrom
<1>2. F \in [1..N -> [Seq(Z) -> Z]]
  <2>1. ASSUME NEW n \in 1..N, NEW v \in Seq(Z), Len(v) = n - 1 PROVE LeadsAt(bs, n, v) \in Z
    <3>1. \A m \in 1..(n - 1) : v[m] \in SUBSET Nat
      BY <2>1
    <3> HIDE DEF bs, N, Z
    <3> QED
      BY <1>1, <3>1, LeadsAtTyped DEF bs, Z
  <2>2. {} \in Z
    OBVIOUS
  <2> HIDE DEF N, Z, bs
  <2> QED
    BY <2>1, <2>2
<1>3. PICK f : IsGrowing(f, N, Z, F)
  <2> HIDE DEF N, Z, F
  <2> QED
    BY <1>1, <1>2, GrowingExists
<1>4. /\ f \in [0..N -> Seq(Z)] /\ f[0] = <<>> /\ \A n \in 0..N : Len(f[n]) = n
      /\ \A n \in 1..N : f[n] = Append(f[n - 1], F[n][f[n - 1]])
  <2> HIDE DEF N, Z, F
  <2> QED
    BY <1>3 DEF IsGrowing
<1>5. \A n \in 1..N : F[n][f[n - 1]] = LeadsAt(bs, n, f[n - 1])
  <2> TAKE n \in 1..N
  <2>1. \A v \in Seq(Z) : Len(v) = n - 1 => F[n][v] = LeadsAt(bs, n, v)
    OBVIOUS
  <2> HIDE DEF N, Z, F, bs
  <2>2. n - 1 \in 0..N
    BY <1>1
  <2>3. f[n - 1] \in Seq(Z) /\ Len(f[n - 1]) = n - 1
    BY <1>4, <2>2
  <2> QED
    BY <2>1, <2>3
<1> HIDE DEF G
<1>6. Is(f)
  <2> HIDE DEF N, Z, F, bs
  <2>1. \A n \in 0..N : f[n] = IF n = 0 THEN <<>> ELSE Append(f[n - 1], G(n, f[n - 1]))
    <3> TAKE n \in 0..N
    <3>1. CASE n = 0
      BY <1>4, <3>1
    <3>2. CASE n # 0
      <4>1. n \in 1..N
        BY <1>1, <3>2
      <4> QED
        BY <1>0, <1>4, <1>5, <3>2, <4>1
    <3> QED
      BY <3>1, <3>2
  <2>2. f = [n \in 0..N |-> f[n]]
    BY <1>4
  <2> QED
    BY <2>1, <2>2
<1>7. Leads(bs) = U[N]
  BY DEF Leads, G
<1>8. Is(U)
  <2> HIDE DEF Is
  <2> QED
    BY <1>6
<1>9. U[N] = f[N]
  <2> HIDE DEF U, F, Z, N, bs
  <2>1. U[0] = f[0]
    BY <1>1, <1>4, <1>8
  <2>2. \A n \in 1..N : U[n] = Append(U[n - 1], G(n, U[n - 1]))
    <3> TAKE n \in 1..N
    <3>1. n \in 0..N /\ n # 0
      BY <1>1
    <3> QED
      BY <1>8, <3>1
  <2>3. \A n \in 1..N : U[n - 1] = f[n - 1] => U[n] = f[n]
    BY <1>0, <1>4, <1>5, <2>2
  <2> QED
    BY <1>1, <2>1, <2>3, SameSteps
<1>10. /\ f[N] \in Seq(Z) /\ Len(f[N]) = N
       /\ \A n \in 1..N : /\ f[n - 1] \in Seq(Z) /\ Len(f[n - 1]) = n - 1
                          /\ f[N][n] = F[n][f[n - 1]] /\ \A m \in 1..(n - 1) : f[n - 1][m] = f[N][m]
  <2> HIDE DEF F, Z, N, bs
  <2>1. IsGrown(f, N, Z, F)
    BY <1>1, <1>3, GrowingIs
  <2> QED
    BY <2>1 DEF IsGrown
<1> HIDE DEF U, F, Is, Z
<1>11. ASSUME NEW n \in 1..N PROVE Leads(bs)[n] = LeadsAt(bs, n, Leads(bs))
  <2>1. Leads(bs)[n] = LeadsAt(bs, n, f[n - 1])
    BY <1>5, <1>7, <1>9, <1>10
  <2>2. \A m \in 1..(n - 1) : f[n - 1][m] = Leads(bs)[m]
    BY <1>7, <1>9, <1>10
  <2>3. LeadsAt(bs, n, f[n - 1]) = LeadsAt(bs, n, Leads(bs))
    BY <1>1, <2>2, LeadsAtAgrees
  <2> QED
    BY <2>1, <2>3
<1> QED
  BY <1>1, <1>11

(* A packet that comes to a block may come to the ones it leads to.        *)
LEMMA LeadsOn ==
  ASSUME NEW p \in Programs, NEW n \in DOMAIN p.blocks
  PROVE  /\ n \in Leads(p.blocks)[n]
         /\ \A i \in DOMAIN p.blocks[n] : \A m \in Children(Part(p, n, i)) : Leads(p.blocks)[m] \subseteq Leads(p.blocks)[n]
<1> DEFINE v == Leads(p.blocks)
<1>1. v[n] = LeadsAt(p.blocks, n, v)
  BY LeadsAre
<1> HIDE DEF v
<1>2. n \in v[n]
  BY <1>1 DEF LeadsAt
<1>3. ASSUME NEW i \in DOMAIN p.blocks[n], NEW m \in Children(Part(p, n, i)) PROVE v[m] \subseteq v[n]
  <2>1. v[m] \subseteq LeadsFrom(p.blocks[n][i], v)
    BY DEF LeadsFrom, Part
  <2>2. LeadsFrom(p.blocks[n][i], v) \subseteq v[n]
    BY <1>1 DEF LeadsAt
  <2> QED
    BY <2>1, <2>2
<1> QED
  BY <1>2, <1>3 DEF v

-----------------------------------------------------------------------------
(* What the elements of a run tell, and what is to be told of them.        *)

Told(p, x) ==
  IF x[1] \notin DOMAIN p.tables THEN {e.sets : e \in {f \in Range(ExtraPort(p)) : f.table = x[1]}}
  ELSE IF x[2] \in DOMAIN NodesRedirected(p) THEN Fields(NodesRedirected(p)[x[2]].stmts) ELSE {}
Tell(p, R) == (UNION {Told(p, x) : x \in R}) \ {None, PktType}
Say(p, R) == {x[2] : x \in {y \in R : y[1] \in DOMAIN p.tables}}
Honest(p, R) == Tell(p, R) = Say(p, R) /\ \A f \in Say(p, R) : DeclaredOnce(p, f)
LEMMA HonestBoth ==
  ASSUME NEW p, NEW R, NEW S, Honest(p, R), Honest(p, S)
  PROVE  Honest(p, R \cup S)
<1>1. Tell(p, R \cup S) = Tell(p, R) \cup Tell(p, S)
  BY DEF Tell
<1>2. Say(p, R \cup S) = Say(p, R) \cup Say(p, S)
  BY DEF Say
<1> QED
  BY <1>1, <1>2 DEF Honest

LEMMA HonestNone ==
  ASSUME NEW p
  PROVE  Honest(p, {})
BY DEF Honest, Tell, Say

LEMMA ToldInTable ==
  ASSUME NEW p \in Programs, NEW t \in DOMAIN p.tables, NEW a \in Range(p.tables[t].actions)
  PROVE  LET b == BitOf(ActionTables(p), a, t)
         IN  /\ Told(p, <<t, b>>) = IF a \in StateActions(p) /\ ~ IsPopular(ActionTables(p), a) THEN {} ELSE {b}
             /\ b # None /\ b # PktType /\ DeclaredOnce(p, b)
<1> DEFINE b == BitOf(ActionTables(p), a, t)
           P(x) == IsPopular(ActionTables(p), x)
<1>1. b \in DOMAIN NodesRedirected(p) /\ ~ NodesRedirected(p)[b].removed
  BY ResolvesHere
<1>2. Fields(NodesRedirected(p)[b].stmts) = (IF Silent(p, b) THEN {} ELSE {b}) /\ ~ P(b)
  <2> HIDE DEF b
  <2>1. Fields(NodesRedirected(p)[b].stmts) = IF Silent(p, b) THEN {} ELSE {b}
    BY <1>1, NodeMarks
  <2>2. NodesRedirected(p)[b].removed = IsPopular(ActionTables(p), b)
    BY <1>1, NodeMarks
  <2>3. ~ P(b)
    BY <1>1, <2>2
  <2> QED
    BY <2>1, <2>3
<1>3. a \in DOMAIN p.actions
  BY ActionOfTable
<1>4. Name(a) /\ Name(t) /\ (P(a) => b = Distinct(a, t) /\ ~ Name(b)) /\ (~ P(a) => b = a)
  BY <1>3, BitIs
<1>5. \A x \in StateActions(p) : Name(x)
  BY ProgramIs DEF StateActions
<1>6. DeclaredOnce(p, b)
  BY DeclaredIs
<1>7. NoWord(b)
  BY <1>3, BitIsNoWord
<1>8. b # None
  <2>1. CASE P(a)
    <3>1. IsDistinct(Distinct(a, t), a, t)
      BY <1>4, DistinctIs DEF Name
    <3>2. Len(Distinct(a, t)) = Len(a) + 3 + Len(t) /\ Len(a) \in Nat /\ Len(t) \in Nat
      <4>1. Len(Distinct(a, t)) = Len(a) + 3 + Len(t)
        BY <3>1 DEF IsDistinct
      <4>2. Name(a) /\ Name(t)
        BY <1>4
      <4>3. Len(a) \in Nat /\ Len(t) \in Nat
        BY <4>2, NameIs
      <4> QED
        BY <4>1, <4>3
    <3>3. Len(Distinct(a, t)) # 0
      BY <3>2
    <3>4. Distinct(a, t) # <<>>
      BY <3>3
    <3> QED
      BY <1>4, <2>1, <3>4 DEF None
  <2>2. CASE ~ P(a)
    BY <1>4, <2>2 DEF None, Name
  <2> QED
    BY <2>1, <2>2
<1>9. b # PktType
  BY <1>7, WordsAreWords DEF PktType
<1>10. Told(p, <<t, b>>) = Fields(NodesRedirected(p)[b].stmts)
  <2> DEFINE x == <<t, b>>
  <2>1. x[1] = t /\ x[2] = b
    OBVIOUS
  <2> HIDE DEF x, b
  <2>2. Told(p, x) = Fields(NodesRedirected(p)[b].stmts)
    BY <1>1, <2>1 DEF Told
  <2> QED
    BY <2>2 DEF x
<1> HIDE DEF b, P
<1>11. Silent(p, b) <=> a \in StateActions(p) /\ ~ P(a)
  <2>1. Silent(p, b) <=> P(b) \/ b \in StateActions(p)
    BY DEF Silent, P
  <2>2. ~ P(b)
    BY <1>2
  <2>3. CASE P(a)
    BY <1>4, <1>5, <2>1, <2>2, <2>3
  <2>4. CASE ~ P(a)
    BY <1>4, <2>1, <2>2, <2>4
  <2> QED
    BY <2>3, <2>4
<1>12. Told(p, <<t, b>>) = IF a \in StateActions(p) /\ ~ P(a) THEN {} ELSE {b}
  BY <1>2, <1>10, <1>11
<1> QED
  BY <1>6, <1>8, <1>9, <1>12 DEF b, P

(* An action that is not stateful tells of itself.                         *)
LEMMA TakenHonest ==
  ASSUME NEW p \in Programs, NEW t \in DOMAIN p.tables, NEW a \in Range(p.tables[t].actions),
         ~ (a \in StateActions(p) /\ ~ IsPopular(ActionTables(p), a))
  PROVE  Honest(p, {<<t, BitOf(ActionTables(p), a, t)>>})
<1> DEFINE b == BitOf(ActionTables(p), a, t)
           x == <<t, b>>
           R == {x}
<1>1. Told(p, x) = {b} /\ b # None /\ b # PktType /\ DeclaredOnce(p, b)
  BY ToldInTable
<1>2. x[1] = t /\ x[2] = b
  OBVIOUS
<1> HIDE DEF b, x
<1>3. Tell(p, R) = {b}
  BY <1>1 DEF Tell
<1>4. Say(p, R) = {b}
  BY <1>2 DEF Say
<1>5. Honest(p, R)
  BY <1>1, <1>3, <1>4 DEF Honest
<1> QED
  BY <1>5 DEF b, x

-----------------------------------------------------------------------------
(* The added tables tell what they set.                                    *)

LEMMA EntryTables ==
  ASSUME NEW p \in Programs, NEW e \in Range(ExtraPort(p))
  PROVE  \/ e.table[1] = 52 /\ \E u \in DOMAIN TableState(p) : e = StateEntry(p, u) /\ e.table = <<52>> \o u
         \/ e.table[1] = 53
         \/ e.table[1] = 55 /\ e.sets = None
         \/ e.table[1] = 56 /\ e.sets = PktType
<1>1. CASE e \in StateEntries(p)
  <2>1. PICK u \in DOMAIN TableState(p) : e = StateEntry(p, u)
    BY <1>1 DEF StateEntries
  <2>2. e.table = <<52>> \o u /\ u \in Seq(Nat)
    BY <2>1, TableStateIs DEF StateEntry, TState
  <2>3. (<<52>> \o u)[1] = 52
    BY <2>2
  <2> QED
    BY <2>1, <2>2, <2>3
<1>2. CASE \E i \in 1..Len(AssertsMet(p)) : e = AssertEntry(AssertsMet(p)[i].num)
  BY <1>2 DEF AssertEntry, AssertTable
<1>3. CASE e = VisitedEntry
  BY <1>3 DEF VisitedEntry, VisitedType
<1>4. CASE e = PortEntry
  BY <1>4 DEF PortEntry, PortCorrection
<1> QED
  BY <1>1, <1>2, <1>3, <1>4, ExtraRange

LEMMA MarkerTold ==
  ASSUME NEW p \in Programs, NEW t \in DOMAIN TableState(p)
  PROVE  /\ Told(p, <<TState \o t, None>>) = {TableState(p)[t]}
         /\ TState \o t \notin DOMAIN p.tables
<1> DEFINE y == <<52>> \o t
           E == {f \in Range(ExtraPort(p)) : f.table = y}
           x == <<y, None>>
<1>1. t \in Seq(Nat)
  BY TableStateIs
<1>2. y[1] = 52 /\ y \in Seq(Nat)
  BY <1>1
<1>3. StateEntry(p, t) \in Range(ExtraPort(p)) /\ StateEntry(p, t).table = y /\ StateEntry(p, t).sets = TableState(p)[t]
  BY ExtraRange DEF StateEntries, StateEntry, TState
<1>4. ASSUME NEW f \in E PROVE f.sets = TableState(p)[t]
  <2>1. f.table[1] = 52
    BY <1>2
  <2>2. PICK u \in DOMAIN TableState(p) : f = StateEntry(p, u) /\ f.table = <<52>> \o u
    BY <2>1, EntryTables
  <2>3. u \in Seq(Nat)
    BY TableStateIs
  <2>4. <<52>> \o u = <<52>> \o t
    BY <2>2
  <2>5. u = t
    <3>1. <<52>> \in Seq(Nat)
      OBVIOUS
    <3> QED
      BY <1>1, <2>3, <2>4, <3>1, ConcatSimplifications
  <2> QED
    BY <2>2, <2>5 DEF StateEntry
<1>5. y \notin DOMAIN p.tables
  <2>1. 1 \in DOMAIN y
    BY <1>1
  <2>2. 52 \in 51..59
    OBVIOUS
  <2> HIDE DEF y
  <2>3. ~ Name(y)
    BY <1>2, <2>1, <2>2 DEF Name
  <2> QED
    BY <2>3, ProgramIs
<1>6. {e.sets : e \in E} = {TableState(p)[t]}
  <2>1. StateEntry(p, t) \in E
    BY <1>3
  <2> HIDE DEF E
  <2> QED
    BY <1>3, <1>4, <2>1
<1>7. x[1] = y
  OBVIOUS
<1> HIDE DEF x, y
<1>8. Told(p, x) = {TableState(p)[t]}
  BY <1>5, <1>6, <1>7 DEF Told
<1> QED
  BY <1>5, <1>8 DEF x, y, TState

(* A stateful action and the table behind its own tell of it together.     *)
LEMMA StatefulHonest ==
  ASSUME NEW p \in Programs, NEW t \in DOMAIN TableState(p), NEW a, a = TableState(p)[t],
         ~ IsPopular(ActionTables(p), a)
  PROVE  Honest(p, {<<t, a>>, <<TState \o t, None>>})
<1> DEFINE x == <<t, a>>
           u == TState \o t
           y == <<u, None>>
           R == {x, y}
<1>1. /\ t \in DOMAIN p.tables /\ a \in DOMAIN p.actions /\ p.tables[t].actions = <<a>> /\ a \in StateActions(p)
  BY TableStateIs
<1>2. a \in Range(p.tables[t].actions)
  <2>1. 1 \in DOMAIN <<a>> /\ <<a>>[1] = a
    OBVIOUS
  <2> QED
    BY <1>1, <2>1 DEF Range
<1>3. BitOf(ActionTables(p), a, t) = a
  BY <1>1, BitIs
<1>4. Told(p, x) = {} /\ a # None /\ a # PktType /\ DeclaredOnce(p, a)
  <2> DEFINE b == BitOf(ActionTables(p), a, t)
  <2>1. /\ Told(p, <<t, b>>) = IF a \in StateActions(p) /\ ~ IsPopular(ActionTables(p), a) THEN {} ELSE {b}
        /\ b # None /\ b # PktType /\ DeclaredOnce(p, b)
    BY <1>1, <1>2, ToldInTable
  <2> HIDE DEF b
  <2>2. b = a
    BY <1>3 DEF b
  <2> QED
    BY <1>1, <2>1, <2>2
<1>5. Told(p, y) = {a} /\ u \notin DOMAIN p.tables
  BY MarkerTold
<1>6. x[1] = t /\ x[2] = a /\ y[1] = u
  OBVIOUS
<1> HIDE DEF x, y, u
<1>7. Tell(p, R) = {a}
  <2>1. UNION {Told(p, z) : z \in R} = Told(p, x) \cup Told(p, y)
    OBVIOUS
  <2> QED
    BY <1>4, <1>5, <2>1 DEF Tell
<1>8. Say(p, R) = {a}
  BY <1>1, <1>5, <1>6 DEF Say
<1>9. Honest(p, R)
  BY <1>4, <1>7, <1>8 DEF Honest
<1> QED
  BY <1>9 DEF x, y, u

(* What ends ingress and egress tells nothing.                             *)
LEMMA EndHonest ==
  ASSUME NEW p \in Programs, NEW t \in {PortCorrection, VisitedType}
  PROVE  Honest(p, {<<t, None>>})
<1> DEFINE x == <<t, None>>
           R == {x}
           E == {f \in Range(ExtraPort(p)) : f.table = t}
<1>1. 1 \in DOMAIN t /\ t[1] \in {55, 56} /\ t[1] \in 51..59
  BY DEF PortCorrection, VisitedType
<1>2. t \notin DOMAIN p.tables
  <2>1. ~ Name(t)
    BY <1>1 DEF Name
  <2> QED
    BY <2>1, ProgramIs
<1>3. \A f \in E : f.sets \in {None, PktType}
  <2> TAKE f \in E
  <2>1. f.table[1] \in {55, 56}
    BY <1>1
  <2> QED
    BY <2>1, EntryTables
<1>4. x[1] = t
  OBVIOUS
<1> HIDE DEF x
<1>5. Told(p, x) = {e.sets : e \in E}
  BY <1>2, <1>4 DEF Told
<1>6. Tell(p, R) = {}
  <2> HIDE DEF E
  <2>1. Told(p, x) \subseteq {None, PktType}
    BY <1>3, <1>5
  <2> QED
    BY <2>1 DEF Tell
<1>7. Say(p, R) = {}
  BY <1>2, <1>4 DEF Say
<1>8. Honest(p, R)
  BY <1>6, <1>7 DEF Honest
<1> QED
  BY <1>8 DEF x

-----------------------------------------------------------------------------
(* Runs that tell what happened in them.                                   *)

HonestRuns(p) == {r \in Seq(Steps) : Honest(p, Range(r))}
LEMMA HonestEmpty ==
  ASSUME NEW p
  PROVE  {<<>>} \in SUBSET HonestRuns(p)
<1>1. Range(<<>>) = {}
  BY DEF Range
<1>2. <<>> \in Seq(Steps)
  OBVIOUS
<1>3. Honest(p, Range(<<>>))
  BY <1>1, HonestNone
<1>4. <<>> \in HonestRuns(p)
  BY <1>2, <1>3 DEF HonestRuns
<1> QED
  BY <1>4

LEMMA HonestJoined ==
  ASSUME NEW p, NEW A \in SUBSET HonestRuns(p), NEW B \in SUBSET HonestRuns(p)
  PROVE  Joined(A, B) \in SUBSET HonestRuns(p)
<1> SUFFICES ASSUME NEW x \in Joined(A, B) PROVE x \in HonestRuns(p)
  OBVIOUS
<1>1. IsJoined(Joined(A, B), A, B)
  BY InJoined
<1>2. PICK l \in A, r \in B : x = l \o r
  BY <1>1 DEF IsJoined
<1>3. l \in Seq(Steps) /\ r \in Seq(Steps) /\ Honest(p, Range(l)) /\ Honest(p, Range(r))
  BY DEF HonestRuns
<1>4. l \o r \in Seq(Steps)
  BY <1>3
<1>5. Range(l \o r) = Range(l) \cup Range(r)
  BY <1>3, RangeConcatenation
<1>6. Honest(p, Range(l \o r))
  BY <1>3, <1>5, HonestBoth
<1> QED
  BY <1>2, <1>4, <1>6 DEF HonestRuns

LEMMA HonestOne ==
  ASSUME NEW p, NEW x \in Steps, Honest(p, {x})
  PROVE  {<<x>>} \in SUBSET HonestRuns(p)
<1>1. Range(<<x>>) = {x}
  BY DEF Range
<1>2. <<x>> \in Seq(Steps)
  OBVIOUS
<1> QED
  BY <1>1, <1>2 DEF HonestRuns

LEMMA HonestChain ==
  ASSUME NEW p, NEW N \in Nat, NEW E, NEW F, NEW u, IsChain(u, N, E, F), \A i \in 1..N : F[i] \in SUBSET HonestRuns(p)
  PROVE  u[N] \in SUBSET HonestRuns(p)
<1> DEFINE H == SUBSET HonestRuns(p)
           T == {i \in 0..N : u[i] \in H}
<1>1. u[0] = {<<>>} /\ \A i \in 1..N : u[i] = Joined(u[i - 1], F[i])
  BY DEF IsChain
<1>2. {<<>>} \in H
  BY HonestEmpty
<1>3. \A A, B \in H : Joined(A, B) \in H
  BY HonestJoined
<1>4. \A i \in 1..N : F[i] \in H
  OBVIOUS
<1> HIDE DEF H
<1>5. 0 \in T
  <2>1. u[0] \in H
    BY <1>1, <1>2
  <2>2. 0 \in 0..N
    OBVIOUS
  <2> QED
    BY <2>1, <2>2
<1>6. ASSUME NEW i \in 1..N, i - 1 \in T PROVE i \in T
  <2>1. PICK k \in T : k = i - 1
    BY <1>6
  <2>2. u[i - 1] \in H
    BY <2>1
  <2> QED
    BY <1>1, <1>3, <1>4, <2>2
<1> HIDE DEF T
<1>7. 0..N \subseteq T
  BY <1>5, <1>6, InductionUpTo
<1>8. N \in T
  BY <1>7
<1> QED
  BY <1>8 DEF T, H

(* However often a marking table is put there, a packet goes through it.   *)
Takes(s, w, acts, y) == StatementRuns(s, w, acts) = {<<y>>}
IsMany(m, s) == m \in Seq({s}) /\ Len(m) > 0
LEMMA MarkersRuns ==
  ASSUME NEW s, NEW m, IsMany(m, s), NEW y, NEW w, NEW acts, Takes(s, w, acts, y),
         NEW r \in BlockRuns(m, w, acts)
  PROVE  IsMany(r, y) /\ Range(r) = {y}
<1>0. m \in Seq({s}) /\ Len(m) > 0 /\ StatementRuns(s, w, acts) = {<<y>>}
  BY DEF IsMany, Takes
<1> DEFINE X == {s}
           E == {y}
           N == Len(m)
           F == PartRuns(m, w, acts)
<1>1. RunsTyped(X, w, acts, E)
  <2>1. ASSUME NEW x \in X PROVE StatementRuns(x, w, acts) \in SUBSET Seq(E)
    <3>1. x = s
      OBVIOUS
    <3>2. StatementRuns(x, w, acts) = {<<y>>}
      BY <1>0, <3>1
    <3>3. <<y>> \in Seq(E)
      OBVIOUS
    <3> QED
      BY <3>2, <3>3
  <2> QED
    BY <2>1 DEF RunsTyped
<1>2. PICK u : IsChain(u, N, E, F) /\ BlockRuns(m, w, acts) = u[N]
  <2>1. m \in Seq(X)
    BY <1>0
  <2> HIDE DEF E, X
  <2> QED
    BY <1>1, <2>1, ChainIs
<1>3. N \in 1..N /\ N - 1 \in 0..N /\ DOMAIN m = 1..N /\ m[N] = s
  BY <1>0, SeqIs
<1>4. F[N] = {<<y>>}
  BY <1>0, <1>3 DEF PartRuns
<1> HIDE DEF E, X, F, N
<1>5. u[N] = Joined(u[N - 1], F[N]) /\ u[N - 1] \in SUBSET Seq(E)
  BY <1>2, <1>3 DEF IsChain
<1>6. IsJoined(Joined(u[N - 1], F[N]), u[N - 1], F[N])
  BY InJoined
<1>7. PICK l \in u[N - 1] : r = l \o <<y>>
  BY <1>2, <1>4, <1>5, <1>6 DEF IsJoined
<1>8. l \in Seq(E) /\ <<y>> \in Seq(E) /\ Range(<<y>>) = {y}
  <2>1. l \in Seq(E)
    BY <1>5
  <2>2. <<y>> \in Seq(E) /\ Range(<<y>>) = {y}
    BY DEF E, Range
  <2> QED
    BY <2>1, <2>2
<1>9. Range(l \o <<y>>) = Range(l) \cup {y}
  <2> DEFINE z == <<y>>
  <2>1. z \in Seq(E) /\ Range(z) = {y}
    BY <1>8
  <2> HIDE DEF z
  <2>2. Range(l \o z) = Range(l) \cup Range(z)
    BY <1>8, <2>1, RangeConcatenation
  <2> QED
    BY <2>1, <2>2 DEF z
<1>10. Range(l) \subseteq E
  BY <1>8, RangeOfSeq
<1>11. l \o <<y>> \in Seq(E)
  BY <1>8
<1>12. Len(l \o <<y>>) > 0
  BY <1>8
<1> QED
  BY <1>7, <1>9, <1>10, <1>11, <1>12 DEF E, IsMany

(* What the passes ask of stateful actions, of the program alone.          *)
LiveOf(p) == UNION {Leads(p.blocks)[c] : c \in Range(p.roots)}
StatefulAloneOf(p) ==
  \A t \in DOMAIN p.tables : \A a \in Range(p.tables[t].actions) \cap StateActions(p) :
    /\ p.tables[t].actions = <<a>> /\ ~ IsPopular(ActionTables(p), a)
    /\ \A n \in DOMAIN p.blocks : \A i \in DOMAIN p.blocks[n] :
         Part(p, n, i).kind = "apply" /\ Part(p, n, i).table = t => Part(p, n, i).cases = <<>>
    /\ \A n \in LiveOf(p) : \A i \in DOMAIN p.blocks[n] :
         p.blocks[n][i] = Apply(t) => <<n, i>> \in Range(Walked(p))
AllHonest(p, M, w) == \A m \in M : w[m] \in SUBSET HonestRuns(p)

LEMMA CasesHonest ==
  ASSUME NEW p, NEW c, NEW b, NEW w, \A j \in DOMAIN c.cases : w[c.cases[j].block] \in SUBSET HonestRuns(p)
  PROVE  CaseRuns(c, b, w) \in SUBSET HonestRuns(p)
<1> DEFINE K == {j \in DOMAIN c.cases : c.cases[j].on = b}
           H == HonestRuns(p)
<1>1. CaseRuns(c, b, w) = IF K = {} THEN {<<>>} ELSE UNION {w[c.cases[j].block] : j \in K}
  BY DEF CaseRuns
<1>2. \A j \in K : w[c.cases[j].block] \in SUBSET H
  OBVIOUS
<1>3. {<<>>} \in SUBSET H
  BY HonestEmpty
<1> HIDE DEF K, H
<1>4. UNION {w[c.cases[j].block] : j \in K} \in SUBSET H
  BY <1>2
<1> QED
  BY <1>1, <1>3, <1>4 DEF H

-----------------------------------------------------------------------------
(* What is put in place of a statement tells what happens there.           *)

LEMMA LeadingHonest ==
  ASSUME NEW p \in Programs, NEW n \in DOMAIN p.blocks, NEW i \in DOMAIN p.blocks[n],
         Part(p, n, i).kind # "apply", NEW w, NEW acts, AllHonest(p, Children(Part(p, n, i)), w)
  PROVE  StatementRuns(Part(p, n, i), w, acts) \in SUBSET HonestRuns(p)
<1> DEFINE s == Part(p, n, i)
           H == SUBSET HonestRuns(p)
<1>1. IsApply(p, n, s) \/ IsCall(p, n, s) \/ IsIf(p, n, s) \/ IsAssert(p, n, s)
  <2>1. s \in Statements(p, n)
    BY BlocksAre
  <2> HIDE DEF s
  <2> QED
    BY <2>1, StatementIs
<1>2. {<<>>} \in H
  BY HonestEmpty
<1>3. s.kind # "apply" /\ \A m \in Children(s) : w[m] \in H
  BY DEF AllHonest
<1>4. \A A, B \in H : A \cup B \in H
  OBVIOUS
<1> HIDE DEF s, H
<1>5. CASE IsCall(p, n, s)
  <2>1. s.kind = "call"
    BY <1>5 DEF IsCall
  <2>2. s.block \in Children(s)
    BY <2>1 DEF Children
  <2>3. StatementRuns(s, w, acts) = w[s.block]
    BY <2>1 DEF StatementRuns
  <2> QED
    BY <1>3, <2>2, <2>3 DEF s, H
<1>6. CASE IsIf(p, n, s)
  <2>1. s.kind = "if" /\ (s.else = <<>> \/ \E m \in 1..(n - 1) : s.else = <<m>>)
    BY <1>6 DEF IsIf
  <2>2. Children(s) = {s.then} \cup Range(s.else)
    BY <2>1 DEF Children
  <2>3. StatementRuns(s, w, acts) = w[s.then] \cup IF s.else = <<>> THEN {<<>>} ELSE w[s.else[1]]
    BY <2>1 DEF StatementRuns
  <2>4. w[s.then] \in H
    BY <1>3, <2>2
  <2>5. CASE s.else = <<>>
    BY <1>2, <1>4, <2>3, <2>4, <2>5 DEF s, H
  <2>6. ASSUME NEW m \in 1..(n - 1), s.else = <<m>> PROVE StatementRuns(s, w, acts) \in H
    <3>1. s.else # <<>> /\ s.else[1] = m
      BY <2>6
    <3>2. m \in Range(s.else)
      BY <2>6 DEF Range
    <3>3. w[m] \in H
      BY <1>3, <2>2, <3>2
    <3>4. StatementRuns(s, w, acts) = w[s.then] \cup w[m]
      BY <2>3, <3>1
    <3> QED
      BY <1>4, <2>4, <3>3, <3>4
  <2> QED
    BY <2>1, <2>5, <2>6 DEF s, H
<1>7. CASE IsAssert(p, n, s)
  <2>1. s.kind = "assert"
    BY <1>7 DEF IsAssert
  <2>2. StatementRuns(s, w, acts) = {<<>>}
    BY <2>1 DEF StatementRuns
  <2> QED
    BY <1>2, <2>2 DEF s, H
<1>8. ~ IsApply(p, n, s)
  BY <1>3 DEF IsApply
<1> QED
  BY <1>1, <1>5, <1>6, <1>7, <1>8

(* A table that does not have its stateful action alone.                   *)
LEMMA TakingHonest ==
  ASSUME NEW p \in Programs, StatefulAloneOf(p), NEW n \in DOMAIN p.blocks, NEW i \in DOMAIN p.blocks[n],
         Part(p, n, i).kind = "apply", ~ Marking(p, NewCase(p, n, i)),
         NEW w, AllHonest(p, Children(Part(p, n, i)), w)
  PROVE  StatementRuns(NewCase(p, n, i), w, ActsNow(p)) \in SUBSET HonestRuns(p)
<1> DEFINE s == Part(p, n, i)
           c == NewCase(p, n, i)
           t == s.table
<1>1. s \in Statements(p, n) /\ IsNewCase(p, s, c)
  BY BlocksAre, NewCaseIs
<1>2. IsApply(p, n, s)
  <2>1. s.kind = "apply"
    OBVIOUS
  <2> HIDE DEF s
  <2> QED
    BY <1>1, <2>1, StatementIs DEF IsCall, IsIf, IsAssert
<1>3. t \in DOMAIN p.tables
  BY <1>2 DEF IsApply
<1>4. /\ c.kind = "apply" /\ c.table = t /\ DOMAIN c.cases = DOMAIN s.cases
      /\ \A j \in DOMAIN s.cases : c.cases[j].block = s.cases[j].block
  BY <1>1 DEF IsNewCase
<1>5. s.cases = <<>> => c.cases = <<>>
  <2>1. s.cases = <<>> => RenamedCase(s, Range(PopularActions(p))) = s
    BY <1>1, RenamedCaseKeeps
  <2> QED
    BY <2>1 DEF NewCase
<1>6. \A a \in Range(p.tables[t].actions) : ~ (a \in StateActions(p) /\ ~ IsPopular(ActionTables(p), a))
  <2> SUFFICES ASSUME NEW a \in Range(p.tables[t].actions) \cap StateActions(p) PROVE FALSE
    OBVIOUS
  <2>1. p.tables[t].actions = <<a>>
    BY <1>3 DEF StatefulAloneOf
  <2>2. s.cases = <<>>
    BY <1>3 DEF StatefulAloneOf
  <2>3. t \in DOMAIN TableState(p)
    <3>1. Len(p.tables[t].actions) = 1 /\ p.tables[t].actions[1] = a
      BY <2>1
    <3> QED
      BY <1>3, <3>1 DEF TableState
  <2>4. c.cases = <<>>
    BY <1>5, <2>2
  <2> QED
    BY <1>4, <2>3, <2>4 DEF Marking
<1>7. \A j \in DOMAIN c.cases : w[c.cases[j].block] \in SUBSET HonestRuns(p)
  <2> TAKE j \in DOMAIN c.cases
  <2>1. c.cases[j].block = s.cases[j].block /\ j \in DOMAIN s.cases
    BY <1>4
  <2>2. s.cases[j].block \in Children(s)
    BY <2>1 DEF Children
  <2>3. w[s.cases[j].block] \in SUBSET HonestRuns(p)
    BY <2>2 DEF AllHonest
  <2> QED
    BY <2>1, <2>3
<1>8. StatementRuns(c, w, ActsNow(p)) = TableRuns(c, w, ActsNow(p))
  BY <1>4, ApplyRuns
<1>9. ActsNow(p)[t] = {BitOf(ActionTables(p), a, t) : a \in Range(p.tables[t].actions)}
  <2>1. /\ ActsOf(p)[t] = Range(p.tables[t].actions)
        /\ ActsNow(p)[t] = {BitOf(ActionTables(p), a, t) : a \in ActsOf(p)[t]}
    BY <1>3, ActsAre
  <2> QED
    BY <2>1
<1> HIDE DEF s, c, t
<1>10. ASSUME NEW b \in ActsNow(p)[t] PROVE Joined({<<<<t, b>>>>}, CaseRuns(c, b, w)) \in SUBSET HonestRuns(p)
  <2>1. PICK a \in Range(p.tables[t].actions) : b = BitOf(ActionTables(p), a, t)
    BY <1>9
  <2> DEFINE x == <<t, b>>
             X == {<<x>>}
  <2>2. Honest(p, {x})
    BY <1>3, <1>6, <2>1, TakenHonest
  <2>3. x \in Steps
    BY <1>3, <2>1, ActsAre
  <2> HIDE DEF x
  <2>4. X \in SUBSET HonestRuns(p)
    BY <2>2, <2>3, HonestOne
  <2>5. CaseRuns(c, b, w) \in SUBSET HonestRuns(p)
    BY <1>7, CasesHonest
  <2> HIDE DEF X
  <2>6. Joined(X, CaseRuns(c, b, w)) \in SUBSET HonestRuns(p)
    BY <2>4, <2>5, HonestJoined
  <2> QED
    BY <2>6 DEF x, X
<1>11. TableRuns(c, w, ActsNow(p)) \in SUBSET HonestRuns(p)
  <2> SUFFICES ASSUME NEW r \in TableRuns(c, w, ActsNow(p)) PROVE r \in HonestRuns(p)
    OBVIOUS
  <2>1. c.table = t
    BY <1>4
  <2>2. PICK b \in ActsNow(p)[t] : r \in Joined({<<<<t, b>>>>}, CaseRuns(c, b, w))
    BY <2>1 DEF TableRuns
  <2> QED
    BY <1>10, <2>2
<1> QED
  BY <1>8, <1>11 DEF c

-----------------------------------------------------------------------------
(* A table that has: the tables behind it tell what it does not.           *)

LEMMA MarkedTable ==
  ASSUME NEW p \in Programs, StatefulAloneOf(p), NEW n \in DOMAIN p.blocks, n \in LiveOf(p),
         NEW i \in DOMAIN p.blocks[n], Part(p, n, i).kind = "apply", Marking(p, NewCase(p, n, i))
  PROVE  \E t \in DOMAIN TableState(p) :
           /\ NewCase(p, n, i) = Apply(t) /\ ~ IsPopular(ActionTables(p), TableState(p)[t])
           /\ Markers(p, n, i) \in Seq({Apply(TState \o t)}) /\ Len(Markers(p, n, i)) > 0
<1> DEFINE s == Part(p, n, i)
           c == NewCase(p, n, i)
           t == s.table
           a == TableState(p)[t]
           K == Counted(<<n, i>>, Walked(p))
<1>1. s \in Statements(p, n)
  BY BlocksAre
<1>2. IsApply(p, n, s)
  <2>1. s.kind = "apply"
    OBVIOUS
  <2> HIDE DEF s
  <2> QED
    BY <1>1, <2>1, StatementIs DEF IsCall, IsIf, IsAssert
<1>3. c.table = t /\ (s.cases = <<>> => c = s) /\ (s.cases # <<>> => c.cases # <<>>)
  BY <1>1, RenamedCaseKeeps DEF NewCase
<1>4. c.cases = <<>> /\ t \in DOMAIN TableState(p)
  BY <1>3 DEF Marking
<1>5. s.cases = <<>> /\ c = s
  BY <1>3, <1>4
<1>6. s = Apply(t)
  BY <1>2, <1>5 DEF IsApply, Apply
<1>7. /\ t \in DOMAIN p.tables /\ p.tables[t].actions = <<a>> /\ a \in StateActions(p)
  BY <1>4, TableStateIs
<1>8. a \in Range(p.tables[t].actions) \cap StateActions(p)
  <2>1. 1 \in DOMAIN <<a>> /\ <<a>>[1] = a
    OBVIOUS
  <2> QED
    BY <1>7, <2>1 DEF Range
<1>9. ~ IsPopular(ActionTables(p), a) /\ <<n, i>> \in Range(Walked(p))
  <2>1. p.blocks[n][i] = Apply(t)
    BY <1>6 DEF Part
  <2> QED
    BY <1>7, <1>8, <2>1 DEF StatefulAloneOf
<1>10. K \in Nat /\ K > 0
  <2>1. Walked(p) \in Seq(Spots(p))
    BY WalkedIs
  <2>2. \E k \in 1..Len(Walked(p)) : Walked(p)[k] = <<n, i>>
    BY <1>9, <2>1, SeqIs
  <2> QED
    BY <2>1, <2>2, CountedIs
<1>11. Markers(p, n, i) = [k \in 1..K |-> Apply(TState \o t)]
  BY <1>3 DEF Markers
<1> HIDE DEF K, t, c, s
<1>12. Markers(p, n, i) \in Seq({Apply(TState \o t)}) /\ Len(Markers(p, n, i)) = K
  <2> DEFINE y == Apply(TState \o t)
             f == [k \in 1..K |-> y]
  <2>1. f \in [1..K -> {y}]
    OBVIOUS
  <2> HIDE DEF y, f
  <2>2. f \in Seq({y}) /\ Len(f) = K
    BY <1>10, <2>1, FunctionAsSeq
  <2> QED
    BY <1>11, <2>2 DEF f, y
<1> QED
  BY <1>4, <1>5, <1>6, <1>9, <1>10, <1>12 DEF c

LEMMA MarkedHonest ==
  ASSUME NEW p \in Programs, StatefulAloneOf(p), NEW n \in DOMAIN p.blocks, n \in LiveOf(p),
         NEW i \in DOMAIN p.blocks[n], Part(p, n, i).kind = "apply", Marking(p, NewCase(p, n, i))
  PROVE  BlockRuns(FinalParts(p, n)[i], RunsNow(p), ActsNow(p)) \in SUBSET HonestRuns(p)
<1> DEFINE c == NewCase(p, n, i)
           m == Markers(p, n, i)
           w == RunsNow(p)
           A == ActsNow(p)
           X == Finals(p, n)
<1>1. PICK t \in DOMAIN TableState(p) :
           /\ c = Apply(t) /\ ~ IsPopular(ActionTables(p), TableState(p)[t])
           /\ m \in Seq({Apply(TState \o t)}) /\ Len(m) > 0
  BY MarkedTable
<1> DEFINE a == TableState(p)[t]
           x == <<t, a>>
           z == Apply(TState \o t)
           y == <<z.table, None>>
<1>2. FinalParts(p, n)[i] = <<c>> \o m
  BY FinalPartsAre
<1>3. c \in X /\ RunsTyped(X, w, A, Steps) /\ m \in Seq(Added(p)) /\ Added(p) \subseteq X
  BY RunsNowAre, MarkersAre DEF Finals
<1>4. Honest(p, {x, y})
  <2>1. z.table = TState \o t
    BY DEF Apply
  <2>2. Honest(p, {<<t, a>>, <<TState \o t, None>>})
    BY <1>1, StatefulHonest
  <2> QED
    BY <2>1, <2>2
<1>5. StatementRuns(c, w, A) = {<<x>>} /\ x \in Steps
  <2>1. /\ t \in DOMAIN p.tables /\ a \in DOMAIN p.actions /\ p.tables[t].actions = <<a>>
        /\ t \in Seq(Nat) /\ a \in Seq(Nat)
    BY TableStateIs
  <2>2. x \in Steps
    BY <2>1 DEF Steps
  <2>3. c.kind = "apply" /\ c.table = t /\ c.cases = <<>>
    BY <1>1 DEF Apply
  <2>4. ActsNow(p)[t] = {a}
    <3>1. /\ ActsOf(p)[t] = Range(p.tables[t].actions)
          /\ ActsNow(p)[t] = {BitOf(ActionTables(p), b, t) : b \in ActsOf(p)[t]}
      BY <2>1, ActsAre
    <3>2. Range(<<a>>) = {a}
      BY DEF Range
    <3>3. BitOf(ActionTables(p), a, t) = a
      BY <1>1, <2>1, BitIs
    <3> QED
      BY <2>1, <3>1, <3>2, <3>3
  <2>5. StatementRuns(c, w, A) = TableRuns(c, w, A)
    BY <2>3, ApplyRuns
  <2>6. CaseRuns(c, a, w) = {<<>>}
    BY <2>3 DEF CaseRuns
  <2> HIDE DEF c, a, w
  <2>7. TableRuns(c, w, A) = Joined({<<x>>}, {<<>>})
    BY <2>3, <2>4, <2>6 DEF TableRuns
  <2> DEFINE Y == {<<x>>}
  <2>8. Y \in SUBSET Seq(Steps)
    BY <2>2
  <2> HIDE DEF Y, x
  <2>9. Joined(Y, {<<>>}) = Y
    BY <2>8, JoinedIs
  <2> QED
    BY <2>2, <2>5, <2>7, <2>9 DEF Y
<1>11. m \in Seq({z}) /\ Len(m) > 0
  BY <1>1
<1>6. StatementRuns(z, w, A) = {<<y>>} /\ y \in Steps
  <2>1. z \in Added(p)
    BY DEF Added
  <2> HIDE DEF z
  <2> QED
    BY <2>1, AddedRuns
<1> HIDE DEF c, m, w, X, x, y, z, A
<1> DEFINE b == <<c>>
<1>7. b \in Seq(X) /\ m \in Seq(X)
  <2>1. \A S, T : S \subseteq T => Seq(S) \subseteq Seq(T)
    OBVIOUS
  <2> QED
    BY <1>3, <2>1
<1>8. BlockRuns(b, w, A) = {<<x>>}
  <2>1. StatementRuns(c, w, A) \in SUBSET Seq(Steps)
    BY <1>3 DEF RunsTyped
  <2>2. BlockRuns(<<c>>, w, A) = StatementRuns(c, w, A)
    BY <2>1, BlockRunsOne
  <2> QED
    BY <1>5, <2>2
<1> HIDE DEF b
<1>9. BlockRuns(b \o m, w, A) = Joined(BlockRuns(b, w, A), BlockRuns(m, w, A))
  BY <1>3, <1>7, BlockRunsConcat
<1>10. ASSUME NEW q \in BlockRuns(b \o m, w, A) PROVE q \in HonestRuns(p)
  <2> DEFINE L == {<<x>>}
             R == BlockRuns(m, w, A)
             l == <<x>>
  <2>0. BlockRuns(b \o m, w, A) = Joined(L, R)
    BY <1>8, <1>9
  <2>1. IsJoined(Joined(L, R), L, R)
    BY InJoined
  <2>2. \A k \in L : k = l
    OBVIOUS
  <2> HIDE DEF L, l
  <2>3. PICK k \in L, r \in R : q = k \o r
    BY <2>0, <2>1 DEF IsJoined
  <2>4. q = l \o r
    BY <2>2, <2>3
  <2>5. r \in Seq({y}) /\ Range(r) = {y}
    <3>1. r \in BlockRuns(m, w, A)
      OBVIOUS
    <3>2. Takes(z, w, A, y) /\ IsMany(m, z)
      BY <1>6, <1>11 DEF Takes, IsMany
    <3> HIDE DEF R
    <3>3. IsMany(r, y) /\ Range(r) = {y}
      BY <3>1, <3>2, MarkersRuns
    <3> QED
      BY <3>3 DEF IsMany
  <2>6. r \in Seq(Steps)
    <3>1. {y} \subseteq Steps
      BY <1>6
    <3>2. \A S, T : S \subseteq T => Seq(S) \subseteq Seq(T)
      OBVIOUS
    <3> QED
      BY <2>5, <3>1, <3>2
  <2>7. l \in Seq(Steps) /\ Range(l) = {x}
    BY <1>5 DEF l, Range
  <2>8. Range(l \o r) = Range(l) \cup Range(r)
    BY <2>6, <2>7, RangeConcatenation
  <2>9. Range(l \o r) = {x, y}
    BY <2>5, <2>7, <2>8
  <2>10. l \o r \in Seq(Steps)
    BY <2>6, <2>7
  <2>11. Honest(p, Range(q))
    BY <1>4, <2>4, <2>9
  <2> QED
    BY <2>4, <2>10, <2>11 DEF HonestRuns
<1> QED
  BY <1>2, <1>10 DEF b, w, A

(* A block a packet may come to.                                           *)
LEMMA PartHonest ==
  ASSUME NEW p \in Programs, StatefulAloneOf(p), NEW n \in DOMAIN p.blocks, n \in LiveOf(p),
         NEW i \in DOMAIN p.blocks[n], AllHonest(p, Children(Part(p, n, i)), RunsNow(p))
  PROVE  BlockRuns(FinalParts(p, n)[i], RunsNow(p), ActsNow(p)) \in SUBSET HonestRuns(p)
<1> DEFINE c == NewCase(p, n, i)
           w == RunsNow(p)
<1>1. FinalParts(p, n)[i] = <<c>> \o Markers(p, n, i)
  BY FinalPartsAre
<1>2. c.kind = Part(p, n, i).kind /\ (Part(p, n, i).kind # "apply" => c = Part(p, n, i))
  BY NewCaseIs DEF IsNewCase
<1>3. ASSUME ~ Marking(p, c), StatementRuns(c, w, ActsNow(p)) \in SUBSET HonestRuns(p)
      PROVE  BlockRuns(FinalParts(p, n)[i], w, ActsNow(p)) \in SUBSET HonestRuns(p)
  <2>1. Markers(p, n, i) = <<>>
    BY <1>3 DEF Markers
  <2>2. FinalParts(p, n)[i] = <<c>>
    <3> HIDE DEF c
    <3>1. <<c>> \o <<>> = <<c>>
      OBVIOUS
    <3> QED
      BY <1>1, <2>1, <3>1
  <2>3. StatementRuns(c, w, ActsNow(p)) \in SUBSET Seq(Steps)
    BY <1>3 DEF HonestRuns
  <2> HIDE DEF c, w
  <2>4. BlockRuns(<<c>>, w, ActsNow(p)) = StatementRuns(c, w, ActsNow(p))
    BY <2>3, BlockRunsOne
  <2> QED
    BY <1>3, <2>2, <2>4
<1>4. CASE Part(p, n, i).kind # "apply"
  <2>1. StatementRuns(Part(p, n, i), w, ActsNow(p)) \in SUBSET HonestRuns(p)
    BY <1>4, LeadingHonest
  <2>2. ~ Marking(p, c)
    BY <1>2, <1>4 DEF Marking
  <2> QED
    BY <1>2, <1>3, <1>4, <2>1, <2>2
<1>5. CASE Part(p, n, i).kind = "apply" /\ ~ Marking(p, c)
  <2>1. StatementRuns(c, w, ActsNow(p)) \in SUBSET HonestRuns(p)
    BY <1>5, TakingHonest
  <2> QED
    BY <1>3, <1>5, <2>1
<1>6. CASE Part(p, n, i).kind = "apply" /\ Marking(p, c)
  BY <1>6, MarkedHonest
<1> QED
  BY <1>4, <1>5, <1>6

-----------------------------------------------------------------------------

LEMMA BehindHonest ==
  ASSUME NEW p \in Programs, NEW n, NEW w
  PROVE  BlockRuns(Behind(p, n), w, ActsNow(p)) \in SUBSET HonestRuns(p)
<1> DEFINE d == Behind(p, n)
           X == {Apply(PortCorrection), Apply(VisitedType)}
           A == ActsNow(p)
           N == Len(d)
           F == PartRuns(d, w, A)
<1>1. d \in Seq(X)
  BY BehindIs
<1>2. ASSUME NEW s \in X
      PROVE  StatementRuns(s, w, A) \in SUBSET HonestRuns(p) /\ StatementRuns(s, w, A) \in SUBSET Seq(Steps)
  <2> DEFINE x == <<s.table, None>>
  <2>1. s \in Added(p) /\ s.table \in {PortCorrection, VisitedType}
    BY DEF Added, Apply
  <2>2. Honest(p, {x})
    BY <2>1, EndHonest
  <2>3. StatementRuns(s, w, A) = {<<x>>} /\ x \in Steps
    BY <2>1, AddedRuns
  <2> HIDE DEF x
  <2>4. {<<x>>} \in SUBSET HonestRuns(p)
    BY <2>2, <2>3, HonestOne
  <2> QED
    BY <2>3, <2>4 DEF HonestRuns
<1> HIDE DEF X, d, A
<1>3. RunsTyped(X, w, A, Steps)
  BY <1>2 DEF RunsTyped
<1>4. PICK u : IsChain(u, N, Steps, F) /\ BlockRuns(d, w, A) = u[N]
  BY <1>1, <1>3, ChainIs
<1>5. N \in Nat /\ DOMAIN d = 1..N /\ \A i \in 1..N : d[i] \in X
  BY <1>1, SeqIs
<1>6. \A i \in 1..N : F[i] \in SUBSET HonestRuns(p)
  <2> TAKE i \in 1..N
  <2>1. F[i] = StatementRuns(d[i], w, A) /\ d[i] \in X
    BY <1>5 DEF PartRuns
  <2> QED
    BY <1>2, <2>1
<1> HIDE DEF N, F
<1>7. u[N] \in SUBSET HonestRuns(p)
  BY <1>4, <1>5, <1>6, HonestChain
<1> QED
  BY <1>4, <1>7 DEF d, A

LEMMA BlockHonest ==
  ASSUME NEW p \in Programs, StatefulAloneOf(p), NEW n \in DOMAIN p.blocks, n \in LiveOf(p),
         \A i \in DOMAIN p.blocks[n] : AllHonest(p, Children(Part(p, n, i)), RunsNow(p))
  PROVE  RunsNow(p)[n] \in SUBSET HonestRuns(p)
<1> DEFINE ss == FinalParts(p, n)
           X == Finals(p, n)
           w == RunsNow(p)
           N == Len(ss)
           d == Behind(p, n)
           A == ActsNow(p)
           F == PartsRuns(ss, w, A)
<1>1. Len(p.blocks[n]) \in Nat /\ DOMAIN p.blocks[n] = 1..Len(p.blocks[n])
  BY BlocksAre
<1>2. ss \in Seq(Seq(X)) /\ N = Len(p.blocks[n])
  BY FinalPartsAre
<1>3. BlocksEnded(p)[n] = FlattenSeq(ss) \o d /\ d \in Seq(X)
  BY BlocksFinal
<1>4. w[n] = BlockRuns(BlocksEnded(p)[n], w, A) /\ RunsTyped(X, w, A, Steps)
  BY RunsNowAre
<1>5. BlockRuns(d, w, A) \in SUBSET HonestRuns(p)
  BY BehindHonest
<1>6. ASSUME NEW i \in 1..N PROVE F[i] \in SUBSET HonestRuns(p)
  <2>1. i \in DOMAIN p.blocks[n] /\ i \in DOMAIN ss
    BY <1>1, <1>2, SeqIs
  <2>2. F[i] = BlockRuns(ss[i], w, A)
    BY <2>1 DEF PartsRuns
  <2>3. BlockRuns(ss[i], w, A) \in SUBSET HonestRuns(p)
    BY <2>1, PartHonest
  <2> QED
    BY <2>2, <2>3
<1>7. N \in Nat
  BY <1>1, <1>2
<1> HIDE DEF ss, X, w, d, A
<1>8. PICK u : IsChain(u, N, Steps, F) /\ BlockRuns(FlattenSeq(ss), w, A) = u[N]
  BY <1>2, <1>4, FlattenChain
<1> HIDE DEF N, F
<1>9. u[N] \in SUBSET HonestRuns(p)
  BY <1>6, <1>7, <1>8, HonestChain
<1> DEFINE h == FlattenSeq(ss)
<1>10. h \in Seq(X)
  BY <1>2, FlattenTyped
<1>11. BlockRuns(h, w, A) \in SUBSET HonestRuns(p)
  BY <1>8, <1>9
<1> HIDE DEF h
<1>12. BlockRuns(h \o d, w, A) = Joined(BlockRuns(h, w, A), BlockRuns(d, w, A))
  BY <1>3, <1>4, <1>10, BlockRunsConcat
<1>13. w[n] \in SUBSET HonestRuns(p)
  BY <1>3, <1>4, <1>5, <1>11, <1>12, HonestJoined DEF h
<1> QED
  BY <1>13 DEF w

LEMMA LiveHonest ==
  ASSUME NEW p \in Programs, StatefulAloneOf(p), NEW n \in DOMAIN p.blocks, Leads(p.blocks)[n] \subseteq LiveOf(p)
  PROVE  RunsNow(p)[n] \in SUBSET HonestRuns(p)
<1> DEFINE N == Len(p.blocks)
           M(m) == Leads(p.blocks)[m] \subseteq LiveOf(p) => RunsNow(p)[m] \in SUBSET HonestRuns(p)
           S == {k \in 0..N : \A m \in 1..k : M(m)}
<1>1. N \in Nat /\ DOMAIN p.blocks = 1..N
  BY BlocksAre
<1>2. 0 \in S
  BY <1>1
<1>3. ASSUME NEW m \in 1..N, m - 1 \in S PROVE m \in S
  <2>1. PICK k \in S : k = m - 1
    BY <1>3
  <2>2. \A l \in 1..(m - 1) : M(l)
    BY <2>1
  <2>3. M(m)
    <3> SUFFICES ASSUME Leads(p.blocks)[m] \subseteq LiveOf(p) PROVE RunsNow(p)[m] \in SUBSET HonestRuns(p)
      OBVIOUS
    <3>1. m \in DOMAIN p.blocks /\ m \in LiveOf(p)
      BY <1>1, LeadsOn
    <3>2. ASSUME NEW i \in DOMAIN p.blocks[m], NEW l \in Children(Part(p, m, i))
          PROVE  RunsNow(p)[l] \in SUBSET HonestRuns(p)
      <4>1. l \in 1..(m - 1)
        BY <3>1, ChildrenAre
      <4>2. Leads(p.blocks)[l] \subseteq Leads(p.blocks)[m]
        BY <3>1, LeadsOn
      <4> QED
        BY <2>2, <4>1, <4>2
    <3>3. \A i \in DOMAIN p.blocks[m] : AllHonest(p, Children(Part(p, m, i)), RunsNow(p))
      BY <3>2 DEF AllHonest
    <3> QED
      BY <3>1, <3>3, BlockHonest
  <2> HIDE DEF M
  <2>5. \A l \in 1..m : M(l)
    BY <2>2, <2>3
  <2>6. m \in 0..N
    BY <1>1
  <2> QED
    BY <2>5, <2>6
<1> HIDE DEF S, N, M
<1>4. 0..N \subseteq S
  BY <1>1, <1>2, <1>3, InductionUpTo
<1>5. N \in S
  BY <1>1, <1>4
<1>6. M(n)
  BY <1>1, <1>5 DEF S
<1> QED
  BY <1>6 DEF M

-----------------------------------------------------------------------------
(* Reports say what was done.                                              *)

LEMMA StatefulIsAlone ==
  ASSUME PassesMade, Done, StatefulAlone
  PROVE  StatefulAloneOf(prog)
<1>1. prog \in Programs /\ stateActions = StateActions(prog)
  BY DoneMade
<1>2. Live = LiveOf(prog)
  BY DEF Live, LiveOf
<1>3. ASSUME NEW t \in DOMAIN prog.tables, NEW a \in Range(prog.tables[t].actions) \cap StateActions(prog)
      PROVE  /\ prog.tables[t].actions = <<a>> /\ ~ IsPopular(ActionTables(prog), a)
             /\ \A s \in Selects : s.table # t
             /\ \A n \in Live : \A i \in DOMAIN prog.blocks[n] :
                  prog.blocks[n][i] = Apply(t) => <<n, i>> \in Range(Walked(prog))
  BY <1>1 DEF StatefulAlone, ProgramTables, Actions
<1>4. ASSUME NEW t, \A s \in Selects : s.table # t,
             NEW n \in DOMAIN prog.blocks, NEW i \in DOMAIN prog.blocks[n],
             Part(prog, n, i).kind = "apply", Part(prog, n, i).table = t
      PROVE  Part(prog, n, i).cases = <<>>
  <2> DEFINE s == Part(prog, n, i)
  <2>1. s \in InProgram(n)
    BY DEF InProgram, Part, Range
  <2> SUFFICES ASSUME s.cases # <<>> PROVE FALSE
    OBVIOUS
  <2>2. s \in Selects
    BY <1>4, <2>1 DEF Selects
  <2> QED
    BY <1>4, <2>2
<1> QED
  BY <1>2, <1>3, <1>4 DEF StatefulAloneOf

LEMMA ReportOfRun ==
  ASSUME PassesMade, Done, NEW r \in Seq(Steps)
  PROVE  Reported(r) = Tell(prog, Range(r)) /\ {x[2] : x \in Range(OfProgram(r))} = Say(prog, Range(r))
<1>1. prog \in Programs /\ nodes = NodesRedirected(prog) /\ extra = ExtraPort(prog)
  BY DoneMade
<1>2. ASSUME NEW x PROVE Sets(x) = Told(prog, x)
  BY <1>1 DEF Sets, Told, ProgramTables
<1>3. DOMAIN r = 1..Len(r)
  BY SeqIs
<1>4. Range(r) = {r[i] : i \in DOMAIN r}
  BY DEF Range
<1>5. Reported(r) = Tell(prog, Range(r))
  <2>1. UNION {Sets(r[i]) : i \in DOMAIN r} = UNION {Told(prog, x) : x \in Range(r)}
    BY <1>2, <1>4
  <2> QED
    BY <2>1 DEF Reported, Tell
<1> DEFINE S == {i \in DOMAIN r : r[i][1] \in ProgramTables}
           q == OfProgram(r)
<1>6. S \in SUBSET (1..Len(r)) /\ q = Picked(r, S)
  BY <1>3 DEF OfProgram
<1> HIDE DEF q
<1>7. q \in Seq(Steps) /\ \E at : IsPicking(at, q, r, S)
  <2> HIDE DEF S
  <2> QED
    BY <1>6, PickedPlaces
<1>8. PICK at : IsPicking(at, q, r, S)
  BY <1>7
<1>9. Range(q) = {y \in Range(r) : y[1] \in DOMAIN prog.tables}
  <2>1. DOMAIN q = 1..Len(q) /\ \A x \in Range(q) : \E i \in 1..Len(q) : q[i] = x
    BY <1>7, SeqIs
  <2>2. ASSUME NEW x \in Range(q) PROVE x \in Range(r) /\ x[1] \in DOMAIN prog.tables
    <3>1. PICK i \in 1..Len(q) : q[i] = x
      BY <2>1
    <3>2. at[i] \in S /\ x = r[at[i]]
      BY <1>8, <3>1 DEF IsPicking
    <3> QED
      BY <1>4, <3>2 DEF ProgramTables
  <2>3. ASSUME NEW y \in Range(r), y[1] \in DOMAIN prog.tables PROVE y \in Range(q)
    <3>1. PICK i \in DOMAIN r : r[i] = y
      BY <1>4
    <3>2. i \in S
      BY <2>3, <3>1 DEF ProgramTables
    <3>3. PICK k \in 1..Len(q) : at[k] = i
      BY <1>8, <3>2 DEF IsPicking
    <3>4. q[k] = y
      BY <1>8, <3>1, <3>3 DEF IsPicking
    <3> QED
      BY <2>1, <3>4 DEF Range
  <2> QED
    BY <2>2, <2>3
<1>10. {x[2] : x \in Range(q)} = Say(prog, Range(r))
  BY <1>9 DEF Say
<1> QED
  BY <1>5, <1>10 DEF q

LEMMA DeclaredOnceDeclared ==
  ASSUME NEW p, NEW f, DeclaredOnce(p, f)
  PROVE  \E i \in DOMAIN HeaderOf(p) : HeaderOf(p)[i][1] = f
<1> DEFINE S == {i \in DOMAIN HeaderOf(p) : HeaderOf(p)[i][1] = f}
<1>1. Cardinality(S) = 1
  BY DEF DeclaredOnce
<1>2. S # {}
  BY <1>1, FS_EmptySet
<1> QED
  BY <1>2

LEMMA RunsReported ==
  ASSUME PassesMade, Done, StatefulAlone, NEW c \in Range(prog.roots), NEW r \in InstrumentedRuns[c]
  PROVE  Reported(r) = {x[2] : x \in Range(OfProgram(r))} /\ Reported(r) \subseteq Declared
<1>1. prog \in Programs /\ tables = TablesRenamed(prog) /\ blocks = BlocksEnded(prog) /\ extra = ExtraPort(prog)
      /\ header = HeaderOf(prog)
  BY DoneMade
<1>2. StatefulAloneOf(prog)
  BY StatefulIsAlone
<1>3. c \in DOMAIN prog.blocks
  <2>1. prog.roots \in Seq(DOMAIN prog.blocks)
    BY <1>1, BlocksAre
  <2> QED
    BY <2>1, InRange
<1>4. Leads(prog.blocks)[c] \subseteq LiveOf(prog)
  BY DEF LiveOf
<1>5. RunsNow(prog)[c] \in SUBSET HonestRuns(prog)
  BY <1>1, <1>2, <1>3, <1>4, LiveHonest
<1>6. InstrumentedRuns = RunsNow(prog)
  BY <1>1 DEF InstrumentedRuns, InstrumentedActions, RunsNow, ActsNow, AddedTables, ProgramTables
<1>7. r \in Seq(Steps) /\ Honest(prog, Range(r))
  BY <1>5, <1>6 DEF HonestRuns
<1>8. Reported(r) = Tell(prog, Range(r)) /\ {x[2] : x \in Range(OfProgram(r))} = Say(prog, Range(r))
  BY <1>7, ReportOfRun
<1>9. Tell(prog, Range(r)) = Say(prog, Range(r)) /\ \A f \in Say(prog, Range(r)) : DeclaredOnce(prog, f)
  BY <1>7 DEF Honest
<1>10. \A f \in Say(prog, Range(r)) : f \in Declared
  <2> TAKE f \in Say(prog, Range(r))
  <2>1. \E i \in DOMAIN HeaderOf(prog) : HeaderOf(prog)[i][1] = f
    BY <1>9, DeclaredOnceDeclared
  <2> QED
    BY <1>1, <2>1 DEF Declared
<1> QED
  BY <1>8, <1>9, <1>10

-----------------------------------------------------------------------------
(* Assertions that are met once.                                           *)

IsMetOnce(p, n, i) ==
  /\ i \in 1..Len(AssertsMet(p))
  /\ \A j \in 1..Len(AssertsMet(p)) : AssertsMet(p)[j].num = n <=> j = i
Assertion(n) == [kind |-> "assert", num |-> n]
LEMMA MetOnce ==
  ASSUME NEW p \in Programs, NEW n,
         Cardinality({k \in DOMAIN Walked(p) : p.blocks[Walked(p)[k][1]][Walked(p)[k][2]] = Assertion(n)}) = 1
  PROVE  \E i : IsMetOnce(p, n, i)
<1> DEFINE W == {k \in DOMAIN Walked(p) : p.blocks[Walked(p)[k][1]][Walked(p)[k][2]] = Assertion(n)}
           N == Len(Walked(p))
           m == AssertsMet(p)
<1>1. DOMAIN Walked(p) = 1..N /\ N \in Nat
  <2>1. Walked(p) \in Seq(Spots(p))
    BY WalkedIs
  <2> QED
    BY <2>1, SeqIs
<1>2. IsFiniteSet(W)
  <2>1. IsFiniteSet(1..N) /\ W \subseteq 1..N
    BY <1>1, FS_Interval
  <2> QED
    BY <2>1, FS_Subset
<1>3. Cardinality(W) = 1
  OBVIOUS
<1>4. \A k \in 1..N : Met(p)[k] = p.blocks[Walked(p)[k][1]][Walked(p)[k][2]] /\ k \in DOMAIN Met(p)
  BY <1>1 DEF Met
<1>5. W = {k \in 1..N : Met(p)[k] = Assertion(n)}
  BY <1>1, <1>4
<1> HIDE DEF W
<1>6. PICK k : W = {k}
  BY <1>2, <1>3, FS_Singleton
<1>7. /\ MetAsserts(p) \in SUBSET (1..N)
      /\ \A i \in 1..Len(m) : IsAssert(p, 1, m[i])
      /\ \E at : IsPicking(at, m, Met(p), MetAsserts(p))
  BY MetIs
<1>8. PICK at : IsPicking(at, m, Met(p), MetAsserts(p))
  BY <1>7
<1> HIDE DEF m, N
<1>9. k \in 1..N /\ Met(p)[k] = Assertion(n)
  BY <1>5, <1>6
<1>10. k \in MetAsserts(p)
  BY <1>4, <1>9 DEF MetAsserts, Assertion
<1>11. PICK i \in 1..Len(m) : at[i] = k
  BY <1>8, <1>10 DEF IsPicking
<1>12. m[i] = Assertion(n)
  BY <1>8, <1>9, <1>11 DEF IsPicking
<1>13. ASSUME NEW j \in 1..Len(m), m[j].num = n PROVE j = i
  <2>1. m[j] = Assertion(n)
    BY <1>7, <1>13 DEF IsAssert, Assertion
  <2>2. at[j] \in 1..N /\ Met(p)[at[j]] = Assertion(n)
    BY <1>7, <1>8, <2>1 DEF IsPicking
  <2>3. at[j] = k
    BY <1>5, <1>6, <2>2
  <2> QED
    BY <1>8, <1>11, <2>3 DEF IsPicking
<1>14. m[i].num = n
  BY <1>12 DEF Assertion
<1>15. \A j \in 1..Len(m) : m[j].num = n <=> j = i
  BY <1>13, <1>14
<1> QED
  BY <1>11, <1>15 DEF IsMetOnce, m

LEMMA AddedOnce ==
  ASSUME NEW p \in Programs, NEW n, NEW i, IsMetOnce(p, n, i)
  PROVE  Cardinality({k \in DOMAIN ExtraPort(p) : ExtraPort(p)[k].table = AssertTable(n)}) = 1
<1> DEFINE es == ExtraPort(p)
           S == SetToSeq(StateEntries(p))
           N == Len(S)
           M == Len(AssertsMet(p))
           K == {k \in DOMAIN es : es[k].table = AssertTable(n)}
<1>1. /\ es \in Seq(Entry) /\ Len(es) = N + M + 2
      /\ \A j \in 1..N : es[j] = S[j]
      /\ \A j \in 1..M : es[N + j] = AssertEntry(AssertsMet(p)[j].num)
      /\ es[N + M + 1] = VisitedEntry /\ es[N + M + 2] = PortEntry
  BY ExtraIs DEF IsExtra
<1>2. N \in Nat /\ \A j \in 1..N : S[j] \in StateEntries(p)
  <2>1. S \in Seq(Entry) /\ Range(S) = StateEntries(p)
    BY StateEntriesAre
  <2> HIDE DEF S
  <2> QED
    BY <2>1, SeqIs
<1>3. M \in Nat
  <2>1. AssertsMet(p) \in Seq(AllStatements(p))
    BY MetIs
  <2> QED
    BY <2>1, SeqIs
<1>4. i \in 1..M /\ \A j \in 1..M : AssertsMet(p)[j].num = n <=> j = i
  BY DEF IsMetOnce
<1> HIDE DEF es, S, N, M
<1>5. DOMAIN es = 1..(N + M + 2)
  BY <1>1, SeqIs
<1>6. AssertTable(n)[1] = 53 /\ \A x : AssertTable(x) = AssertTable(n) <=> x = n
  BY DEF AssertTable
<1>7. ASSUME NEW j \in 1..N PROVE es[j].table # AssertTable(n)
  <2>1. PICK t \in DOMAIN TableState(p) : es[j] = StateEntry(p, t)
    BY <1>1, <1>2 DEF StateEntries
  <2>2. es[j].table = <<52>> \o t /\ t \in Seq(Nat)
    BY <2>1, TableStateIs DEF StateEntry, TState
  <2>3. (<<52>> \o t)[1] = 52
    BY <2>2
  <2> QED
    BY <1>6, <2>2, <2>3
<1>8. ASSUME NEW j \in 1..M PROVE es[N + j].table = AssertTable(n) <=> j = i
  <2> DEFINE x == AssertsMet(p)[j].num
  <2>1. es[N + j] = AssertEntry(x)
    BY <1>1
  <2>2. x = n <=> j = i
    BY <1>4
  <2> HIDE DEF x
  <2>3. es[N + j].table = AssertTable(x)
    BY <2>1 DEF AssertEntry
  <2> QED
    BY <1>6, <2>2, <2>3
<1>9. es[N + M + 1].table # AssertTable(n) /\ es[N + M + 2].table # AssertTable(n)
  BY <1>1, <1>6 DEF VisitedEntry, PortEntry, VisitedType, PortCorrection
<1>10. ASSUME NEW k \in 1..(N + M + 2) PROVE es[k].table = AssertTable(n) <=> k = N + i
  <2>1. CASE k \in 1..N
    BY <1>2, <1>4, <1>7, <2>1
  <2>2. CASE k - N \in 1..M
    <3>1. PICK j \in 1..M : j = k - N
      BY <2>2
    <3>2. k = N + j
      BY <1>2, <3>1
    <3> QED
      BY <1>2, <1>4, <1>8, <3>2
  <2>3. CASE k = N + M + 1 \/ k = N + M + 2
    BY <1>2, <1>3, <1>4, <1>9, <2>3
  <2> QED
    BY <1>2, <1>3, <2>1, <2>2, <2>3
<1>11. N + i \in 1..(N + M + 2)
  BY <1>2, <1>3, <1>4
<1>12. K = {N + i}
  BY <1>5, <1>10, <1>11
<1>13. Cardinality(K) = 1
  <2> HIDE DEF K
  <2> QED
    BY <1>12, FS_Singleton
<1> QED
  BY <1>13 DEF es

RulesFor(p, n) == {r \in Range(AssertRulesOf(p)) : r[1] = n}
LEMMA RuleOfAssertion ==
  ASSUME NEW p \in Programs, NEW n \in 0..(Len(p.asserts) - 1), NEW i, IsMetOnce(p, n, i)
  PROVE  RulesFor(p, n) = {<<n>> \o AssertRange(p.asserts[n + 1])}
<1> DEFINE m == AssertsMet(p)
           f == AssertRulesOf(p)
           RuleOf(k) == <<k>> \o AssertRange(p.asserts[k + 1])
<1>1. DOMAIN m = 1..Len(m)
  <2>1. m \in Seq(AllStatements(p))
    BY MetIs
  <2> QED
    BY <2>1, SeqIs
<1>2. \A j \in 1..Len(m) : IsAssert(p, 1, m[j])
  BY MetIs
<1>3. f = [j \in DOMAIN m |-> RuleOf(m[j].num)]
  BY DEF AssertRulesOf
<1>4. ASSUME NEW k \in 0..(Len(p.asserts) - 1) PROVE RuleOf(k)[1] = k
  <2>1. k + 1 \in 1..Len(p.asserts) /\ p.asserts \in Seq([op : {"==", "<=", ">="}, value : Nat])
    BY ProgramIs
  <2>2. p.asserts[k + 1] \in [op : {"==", "<=", ">="}, value : Nat]
    BY <2>1, SeqIs
  <2> DEFINE e == p.asserts[k + 1]
  <2>3. e.op \in {"==", "<=", ">="} /\ e.value \in Nat
    BY <2>2
  <2> HIDE DEF e
  <2>4. AssertRange(e) \in Seq(Int)
    BY <2>3 DEF AssertRange
  <2>5. (<<k>> \o AssertRange(e))[1] = k
    <3> DEFINE q == AssertRange(e)
               z == <<k>>
    <3>1. q \in Seq(Int) /\ z \in Seq(Int) /\ Len(z) = 1 /\ z[1] = k
      BY <2>4
    <3> HIDE DEF q, z
    <3>2. IsConcat(z \o q, z, q, Int)
      BY <3>1, ConcatIs
    <3>3. (z \o q)[1] = k
      BY <3>1, <3>2 DEF IsConcat
    <3> QED
      BY <3>3 DEF q, z
  <2> QED
    BY <2>5 DEF e
<1>5. i \in 1..Len(m) /\ \A j \in 1..Len(m) : m[j].num = n <=> j = i
  BY DEF IsMetOnce
<1> HIDE DEF m, RuleOf, f
<1>6. Range(f) = {RuleOf(m[j].num) : j \in 1..Len(m)}
  BY <1>1, <1>3 DEF Range
<1>7. \A j \in 1..Len(m) : RuleOf(m[j].num)[1] = m[j].num
  BY <1>2, <1>4 DEF IsAssert
<1>8. {r \in Range(f) : r[1] = n} = {RuleOf(n)}
  BY <1>5, <1>6, <1>7
<1> QED
  BY <1>8 DEF RulesFor, f, RuleOf

-----------------------------------------------------------------------------

RuleFrom(n, e) == <<n>> \o AssertRange(e)
LEMMA RuleFromIs ==
  ASSUME NEW n \in Nat, NEW e, NEW b \in Int, NEW c \in Int, AssertRange(e) = <<b, c>>
  PROVE  RuleFrom(n, e)[2] = b /\ RuleFrom(n, e)[3] = c
<1> DEFINE q == <<b, c>>
           z == <<n>>
<1>1. q \in Seq(Int) /\ Len(q) = 2 /\ q[1] = b /\ q[2] = c
  OBVIOUS
<1>2. z \in Seq(Int) /\ Len(z) = 1
  OBVIOUS
<1>3. RuleFrom(n, e) = z \o q
  BY DEF RuleFrom
<1> HIDE DEF q, z
<1>4. IsConcat(z \o q, z, q, Int)
  BY <1>1, <1>2, ConcatIs
<1>5. 1 \in 1..Len(q) /\ 2 \in 1..Len(q) /\ Len(z) + 1 = 2 /\ Len(z) + 2 = 3
  BY <1>1, <1>2
<1>6. (z \o q)[Len(z) + 1] = q[1] /\ (z \o q)[Len(z) + 2] = q[2]
  BY <1>4, <1>5 DEF IsConcat
<1> QED
  BY <1>1, <1>3, <1>5, <1>6

Bounds == [op : {"<=", ">="}, value : Nat]
Words == 0..65535
LEMMA FailsInRange ==
  ASSUME NEW e \in Bounds, NEW n \in Nat, NEW v \in Words
  PROVE  Fails(e, v) <=> v \in RuleFrom(n, e)[2]..RuleFrom(n, e)[3]
<1> DEFINE x == e.value
<1>1. e.op \in {"<=", ">="} /\ x \in Nat /\ v \in 0..65535
  BY DEF Bounds, Words
<1>2. CASE e.op = "<="
  <2>1. AssertRange(e) = <<x + 1, 65535>>
    BY <1>2 DEF AssertRange
  <2>2. Fails(e, v) <=> v > x
    BY <1>2 DEF Fails
  <2> HIDE DEF x
  <2>3. x + 1 \in Int /\ 65535 \in Int
    BY <1>1
  <2>4. RuleFrom(n, e)[2] = x + 1 /\ RuleFrom(n, e)[3] = 65535
    BY <2>1, <2>3, RuleFromIs
  <2> QED
    BY <1>1, <2>2, <2>4
<1>3. CASE e.op = ">="
  <2>1. AssertRange(e) = <<0, x - 1>>
    BY <1>3 DEF AssertRange
  <2>2. Fails(e, v) <=> v < x
    BY <1>3 DEF Fails
  <2> HIDE DEF x
  <2>3. 0 \in Int /\ x - 1 \in Int
    BY <1>1
  <2>4. RuleFrom(n, e)[2] = 0 /\ RuleFrom(n, e)[3] = x - 1
    BY <2>1, <2>3, RuleFromIs
  <2> QED
    BY <1>1, <2>2, <2>4
<1> QED
  BY <1>1, <1>2, <1>3

Edges(e) == {0, e.value - 1, e.value, e.value + 1, 65535} \cap 0..65535
TellsFor(e, R) == \A v \in Edges(e) : Fails(e, v) <=> \E r \in R : v \in r[2]..r[3]
LEMMA RuleTells ==
  ASSUME NEW e \in Bounds, NEW n \in Nat
  PROVE  TellsFor(e, {RuleFrom(n, e)})
<1> SUFFICES ASSUME NEW v \in Edges(e)
             PROVE  Fails(e, v) <=> \E r \in {RuleFrom(n, e)} : v \in r[2]..r[3]
  BY DEF TellsFor
<1>1. v \in Words
  BY DEF Edges, Words
<1>2. Fails(e, v) <=> v \in RuleFrom(n, e)[2]..RuleFrom(n, e)[3]
  BY <1>1, FailsInRange
<1> QED
  BY <1>2, Zenon

LEMMA AssertsInstrumentedHere ==
  ASSUME PassesMade, Done, AssertsReachedOnce, NEW n \in 0..(Len(prog.asserts) - 1)
  PROVE  /\ Cardinality({i \in DOMAIN extra : extra[i].table = AssertTable(n)}) = 1
         /\ AssertBit(n) \in Declared
         /\ prog.asserts[n + 1].op # "==" => BitTells(n)
<1>1. prog \in Programs /\ extra = ExtraPort(prog) /\ header = HeaderOf(prog) /\ assertRules = AssertRulesOf(prog)
  BY DoneMade
<1>2. Cardinality({k \in DOMAIN Walked(prog) : prog.blocks[Walked(prog)[k][1]][Walked(prog)[k][2]] = Assertion(n)}) = 1
  BY DEF AssertsReachedOnce, Assertion
<1>3. PICK i : IsMetOnce(prog, n, i)
  BY <1>1, <1>2, MetOnce
<1>4. Cardinality({j \in DOMAIN extra : extra[j].table = AssertTable(n)}) = 1
  <2>1. Cardinality({k \in DOMAIN ExtraPort(prog) : ExtraPort(prog)[k].table = AssertTable(n)}) = 1
    BY <1>1, <1>3, AddedOnce
  <2> QED
    BY <1>1, <2>1
<1>5. AssertBit(n) \in Declared
  <2>1. DeclaredOnce(prog, AssertBit(n))
    BY <1>1, DeclaredIs
  <2>2. \E j \in DOMAIN HeaderOf(prog) : HeaderOf(prog)[j][1] = AssertBit(n)
    BY <2>1, DeclaredOnceDeclared
  <2> QED
    BY <1>1, <2>2 DEF Declared
<1>6. ASSUME prog.asserts[n + 1].op # "==" PROVE BitTells(n)
  <2> DEFINE e == prog.asserts[n + 1]
             q == RuleFrom(n, e)
             R == {r \in Range(assertRules) : r[1] = n}
  <2>1. e \in Bounds
    <3>1. prog.asserts \in Seq([op : {"==", "<=", ">="}, value : Nat])
      BY <1>1, ProgramIs
    <3>2. n + 1 \in 1..Len(prog.asserts)
      BY <3>1
    <3>3. e \in [op : {"==", "<=", ">="}, value : Nat]
      BY <3>1, <3>2, SeqIs
    <3> QED
      BY <1>6, <3>3 DEF Bounds
  <2>2. R = {q}
    <3>1. RulesFor(prog, n) = {<<n>> \o AssertRange(prog.asserts[n + 1])}
      BY <1>1, <1>3, RuleOfAssertion
    <3>2. RulesFor(prog, n) = R
      BY <1>1 DEF RulesFor
    <3>3. q = <<n>> \o AssertRange(prog.asserts[n + 1])
      BY DEF RuleFrom
    <3> HIDE DEF R, q
    <3> QED
      BY <3>1, <3>2, <3>3
  <2>3. n \in Nat
    <3>1. prog.asserts \in Seq([op : {"==", "<=", ">="}, value : Nat])
      BY <1>1, ProgramIs
    <3>2. Len(prog.asserts) \in Nat
      BY <3>1
    <3> QED
      BY <3>2
  <2>4. TellsFor(e, {q})
    <3> HIDE DEF e
    <3> QED
      BY <2>1, <2>3, RuleTells
  <2>5. BitTells(n) <=> TellsFor(e, R)
    BY DEF BitTells, TellsFor, Edges
  <2> HIDE DEF R, q, e
  <2> QED
    BY <2>2, <2>4, <2>5
<1> QED
  BY <1>4, <1>5, <1>6

LEMMA ReportsExactHolds == PassesMade => ReportsExact
<1> SUFFICES ASSUME PassesMade, Done PROVE ReportsExact
  BY DEF ReportsExact
<1>1. AssertsReachedOnce => AssertsInstrumented
  BY AssertsInstrumentedHere DEF AssertsInstrumented
<1>2. ASSUME StatefulAlone, NEW c \in Range(prog.roots), NEW r \in InstrumentedRuns[c]
      PROVE  Reported(r) = {x[2] : x \in Range(OfProgram(r))} /\ Reported(r) \subseteq Declared
  BY <1>2, RunsReported
<1> QED
  BY <1>1, <1>2 DEF ReportsExact

(* A packet's report names exactly the actions taken, in declared fields,  *)
(* stateful ones by the table behind theirs (markActionVisited,            *)
(* addStatefulTblActions, addModifyTables), and an assertion met once has  *)
(* one table, with the values that fail it.                                *)
THEOREM ReportsExactAlways == Spec => []ReportsExact
<1>1. PassesMade => ReportsExact
  BY ReportsExactHolds
<1> QED
  BY <1>1, InstrumentedAs, PTL
=============================================================================
