--------------------------- MODULE ViterbiProofs ----------------------------
(***************************************************************************)
(* Proofs about Disambiguation, for every model of weights, every lexicon, *)
(* every number of workers and every limit of the tables: no path of a     *)
(* sentence beats what a Viterbi call chooses, and what its scores give no *)
(* candidate beats the chosen one.                                         *)
(***************************************************************************)
EXTENDS DisambiguationProofs
-----------------------------------------------------------------------------
(***************************************************************************)
(* Sums of weights.                                                        *)
(***************************************************************************)

Weights(n) == [1..n -> Int]
SumsOf(s, w, n) ==
  /\ s[0] = 0 /\ \A k \in 0..n : s[k] \in Int
  /\ \A k \in 0..(n - 1) : s[k + 1] - s[k] = w[k + 1]

LEMMA TotalSums ==
  ASSUME NEW n \in Nat, NEW w \in Weights(n)
  PROVE  \E s : SumsOf(s, w, n) /\ Total(w) = s[n]
<1>a. w \in [1..n -> Int]
  BY DEF Weights
<1>0. Len(w) = n
  BY <1>a
<1> DEFINE G(k, x) == x + w[k]
           g == [p \in (1..n) \X Int |-> G(p[1], p[2])]
           Right(f) == f = [i \in 0..n |-> IF i = 0 THEN 0 ELSE f[i - 1] + w[i]]
           sum == CHOOSE f : Right(f)
<1>1. PICK f : Iterated(f, n, Int, 0, g)
  <2>1. g \in [(1..n) \X Int -> Int]
    BY <1>a
  <2>2. Numbers!Iterates(n, Int, 0, g)
    <3> HIDE DEF g
    <3> QED BY <2>1 DEF Numbers!Iterates
  <2> HIDE DEF g
  <2> QED BY <2>2, Defined
<1>2. Right(f)
  <2>1. f \in [0..n -> Int] /\ f[0] = 0 /\ \A k \in 1..n : f[k] = g[<<k, f[k - 1]>>]
    <3> HIDE DEF g
    <3> QED BY <1>1 DEF Iterated
  <2>2. \A k \in 1..n : f[k] = f[k - 1] + w[k]
    <3> SUFFICES ASSUME NEW k \in 1..n PROVE f[k] = f[k - 1] + w[k]
      OBVIOUS
    <3>1. <<k, f[k - 1]>> \in (1..n) \X Int
      BY <2>1
    <3> QED BY <2>1, <3>1
  <2> QED BY <2>1, <2>2
<1>3. Right(sum)
  <2> HIDE DEF Right
  <2> QED BY <1>2
<1>4. Total(w) = sum[n]
  BY <1>0 DEF Total
<1> HIDE DEF sum
<1>5. \A k \in 0..n : sum[k] = IF k = 0 THEN 0 ELSE sum[k - 1] + w[k]
  BY <1>3, ZenonT(30)
<1>6. sum[0] = 0 /\ \A k \in 1..n : sum[k] = sum[k - 1] + w[k]
  BY <1>5
<1>7. \A k \in 0..n : sum[k] \in Int
  <2>1. PICK S : S = Int
    OBVIOUS
  <2>2. \A k \in 1..n : sum[k - 1] \in S => sum[k] \in S
    BY <1>a, <1>6, <2>1
  <2>3. sum[0] \in S
    BY <1>6, <2>1
  <2>4. \A k \in 0..n : sum[k] \in S
    BY <2>2, <2>3, Reached
  <2> QED BY <2>1, <2>4
<1>8. \A k \in 0..(n - 1) : sum[k + 1] - sum[k] = w[k + 1]
  <2> SUFFICES ASSUME NEW k \in 0..(n - 1) PROVE sum[k + 1] - sum[k] = w[k + 1]
    OBVIOUS
  <2>1. k + 1 \in 1..n /\ (k + 1) - 1 = k /\ k \in 0..n
    OBVIOUS
  <2>2. sum[k + 1] = sum[k] + w[k + 1] /\ sum[k] \in Int /\ w[k + 1] \in Int
    BY <1>a, <1>6, <1>7, <2>1
  <2> QED BY <2>2
<1> QED BY <1>4, <1>6, <1>7, <1>8 DEF SumsOf

\* Sums grow alike where what is added is alike.
Alike(s, a, t, b, m) ==
  /\ \A k \in 0..m : s[a + k] \in Int /\ t[b + k] \in Int
  /\ \A k \in 0..(m - 1) : s[a + k + 1] - s[a + k] = t[b + k + 1] - t[b + k]

LEMMA SumsAlike ==
  ASSUME NEW s, NEW t, NEW a \in Nat, NEW b \in Nat, NEW m \in Nat, Alike(s, a, t, b, m)
  PROVE  s[a + m] - s[a] = t[b + m] - t[b]
<1>a. \A k \in 0..m : s[a + k] \in Int /\ t[b + k] \in Int
  BY DEF Alike
<1>b. \A k \in 0..(m - 1) : s[a + k + 1] - s[a + k] = t[b + k + 1] - t[b + k]
  BY DEF Alike
<1> DEFINE T == {k \in Nat : k <= m => s[a + k] - s[a] = t[b + k] - t[b]}
<1>0. s[a] \in Int /\ t[b] \in Int
  <2>1. a + 0 = a /\ b + 0 = b /\ 0 \in 0..m
    OBVIOUS
  <2> QED BY <1>a, <2>1
<1>1. 0 \in T
  <2>1. a + 0 = a /\ b + 0 = b
    OBVIOUS
  <2> QED BY <1>0, <2>1
<1>2. ASSUME NEW k \in Nat, k \in T PROVE k + 1 \in T
  <2> SUFFICES ASSUME k + 1 <= m PROVE s[a + (k + 1)] - s[a] = t[b + (k + 1)] - t[b]
    OBVIOUS
  <2>1. s[a + k] - s[a] = t[b + k] - t[b]
    BY <1>2
  <2>2. k \in 0..(m - 1) /\ k \in 0..m /\ k + 1 \in 0..m
    OBVIOUS
  <2>3. s[a + k + 1] - s[a + k] = t[b + k + 1] - t[b + k]
    BY <1>b, <2>2
  <2>4. a + k + 1 = a + (k + 1) /\ b + k + 1 = b + (k + 1)
    OBVIOUS
  <2>5. PICK x, y, u, v, p, q : x = s[a + k] /\ y = t[b + k] /\ u = s[a + (k + 1)] /\ v = t[b + (k + 1)]
                                /\ p = s[a] /\ q = t[b]
    OBVIOUS
  <2>6. x \in Int /\ y \in Int /\ u \in Int /\ v \in Int /\ p \in Int /\ q \in Int
    BY <1>0, <1>a, <2>2, <2>5
  <2>7. u - x = v - y /\ x - p = y - q
    BY <2>1, <2>3, <2>4, <2>5
  <2>8. u - p = v - q
    BY <2>6, <2>7
  <2> QED BY <2>5, <2>8
<1>3. Nat \subseteq T
  <2> HIDE DEF T
  <2> QED BY <1>1, <1>2, Numbers!Induct
<1>4. m \in T
  BY <1>3
<1> QED BY <1>4

LEMMA TotalAppended ==
  ASSUME NEW n \in Nat, NEW w \in Weights(n), NEW v \in Weights(n + 1), \A k \in 1..n : v[k] = w[k]
  PROVE  Total(v) = Total(w) + v[n + 1] /\ Total(w) \in Int
<1>1. PICK s : SumsOf(s, w, n) /\ Total(w) = s[n]
  BY TotalSums
<1>2. n + 1 \in Nat
  OBVIOUS
<1>3. PICK t : SumsOf(t, v, n + 1) /\ Total(v) = t[n + 1]
  BY <1>2, TotalSums
<1>a. s[0] = 0 /\ (\A k \in 0..n : s[k] \in Int) /\ \A k \in 0..(n - 1) : s[k + 1] - s[k] = w[k + 1]
  BY <1>1 DEF SumsOf
<1>b. t[0] = 0 /\ (\A k \in 0..(n + 1) : t[k] \in Int) /\ \A k \in 0..n : t[k + 1] - t[k] = v[k + 1]
  BY <1>3 DEF SumsOf
<1>4. s[n] = t[n]
  <2>0. PICK z \in Nat : z = 0
    OBVIOUS
  <2>1. \A k \in 0..n : z + k = k /\ s[z + k] \in Int /\ t[z + k] \in Int
    BY <1>a, <1>b, <2>0
  <2>2. \A k \in 0..(n - 1) : s[z + k + 1] - s[z + k] = t[z + k + 1] - t[z + k]
    <3> SUFFICES ASSUME NEW k \in 0..(n - 1) PROVE s[z + k + 1] - s[z + k] = t[z + k + 1] - t[z + k]
      OBVIOUS
    <3>1. k \in 0..n /\ k + 1 \in 1..n /\ z + k = k /\ z + k + 1 = k + 1
      BY <2>0
    <3>2. s[k + 1] - s[k] = w[k + 1] /\ t[k + 1] - t[k] = v[k + 1] /\ v[k + 1] = w[k + 1]
      BY <1>a, <1>b, <3>1
    <3> QED BY <3>1, <3>2
  <2>3. Alike(s, z, t, z, n)
    BY <2>1, <2>2 DEF Alike
  <2>4. s[z + n] - s[z] = t[z + n] - t[z]
    BY <2>3, SumsAlike
  <2>5. z + n = n /\ s[n] \in Int /\ t[n] \in Int
    BY <1>a, <1>b, <2>0
  <2> QED BY <1>a, <1>b, <2>0, <2>4, <2>5
<1>5. t[n + 1] - t[n] = v[n + 1] /\ t[n + 1] \in Int /\ t[n] \in Int
  BY <1>b
<1>6. t[n + 1] = t[n] + v[n + 1] /\ s[n] \in Int
  BY <1>a, <1>5
<1> QED BY <1>1, <1>3, <1>4, <1>6

-----------------------------------------------------------------------------
(***************************************************************************)
(* The score of a path is the sum of its factors.                          *)
(***************************************************************************)

FactorsOf(sentence, path, n) == [i \in 1..n |-> Factor(sentence, path, i)]
SumOf(sentence, path) == Total(FactorsOf(sentence, path, Len(path)))
FullScore(sentence, path) == Total(FactorsOf(sentence, path, Len(path) + 1))

LEMMA Itself == ASSUME NEW U, NEW q \in Seq(U), NEW i \in DOMAIN q PROVE q = [q EXCEPT ![i] = q[i]]
OBVIOUS

LEMMA PathWordKnown ==
  ASSUME NEW s \in Seq(Seq(Words)), NEW p, PathOf(s, p), NEW i \in Int, i <= Len(p)
  PROVE  WordAt(s, p, i) \in Words \cup {Begin, End} /\ Data(WordAt(s, p, i)) \in AllData
<1>1. PICK w : w = WordAt(s, p, i)
  OBVIOUS
<1>2. \/ w \in {Begin, End}
      \/ \E n \in DOMAIN s : \E k \in DOMAIN s[n] : w = s[n][k]
  BY <1>1, PathWord
<1>3. w \in Words \cup {Begin, End}
  <2>1. CASE \E n \in DOMAIN s : \E k \in DOMAIN s[n] : w = s[n][k]
    <3>1. PICK n \in DOMAIN s : \E k \in DOMAIN s[n] : w = s[n][k]
      BY <2>1
    <3>2. s[n] \in Seq(Words)
      BY <3>1
    <3> QED BY <3>1, <3>2
  <2> QED BY <1>2, <2>1
<1> QED BY <1>1, <1>3, DataKnown

\* A factor sees three words.
LEMMA FactorLocal ==
  ASSUME NEW s, NEW p \in Seq(Nat), NEW q \in Seq(Nat), NEW i \in Nat \ {0},
         Len(p) = Len(q) \/ (i <= Len(p) /\ i <= Len(q)),
         \A j \in 1..i : j >= i - 2 /\ j <= Len(p) => p[j] = q[j]
  PROVE  Factor(s, p, i) = Factor(s, q, i)
<1> DEFINE W(r, k) == IF k > Len(r) THEN End ELSE WordAt(s, r, k)
<1>0. Len(p) \in Nat /\ Len(q) \in Nat
  BY Length
<1>1. PICK m, n : m = Len(p) /\ n = Len(q) /\ m \in Nat /\ n \in Nat
  BY <1>0, Zenon
<1>2. ASSUME NEW k \in Int, k <= i, k >= i - 2 PROVE W(p, k) = W(q, k)
  <2>1. k > m <=> k > n
    BY <1>1, <1>2
  <2>2. k <= 0 \/ k \in 1..i
    BY <1>2
  <2>3. k <= 0 \/ k > m \/ p[k] = q[k]
    BY <1>1, <1>2, <2>2
  <2> QED BY <1>1, <2>1, <2>3 DEF WordAt
<1>3. \A r : Factor(s, r, i) = TrueScore[Data(W(r, i - 2))][Data(W(r, i - 1))][Data(W(r, i))]
  BY DEF Factor
<1>4. W(p, i - 2) = W(q, i - 2) /\ W(p, i - 1) = W(q, i - 1) /\ W(p, i) = W(q, i)
  <2>1. /\ i - 2 \in Int /\ i - 2 <= i /\ i - 2 >= i - 2
        /\ i - 1 \in Int /\ i - 1 <= i /\ i - 1 >= i - 2
        /\ i \in Int /\ i <= i /\ i >= i - 2
    OBVIOUS
  <2> HIDE DEF W
  <2> QED BY <1>2, <2>1
<1> HIDE DEF W
<1> QED BY <1>3, <1>4

\* The factor of a word that is added, and of the end.
LEMMA FactorAdded ==
  ASSUME NEW s \in Seq(Seq(Words)), NEW p, PathOf(s, p), Len(p) < Len(s), NEW a \in 1..Len(s[Len(p) + 1]),
         NEW q, q = Append(p, a)
  PROVE  /\ Factor(s, q, Len(p) + 1) = NextScore(s, p, a)
         /\ \A i \in 1..Len(p) : Factor(s, q, i) = Factor(s, p, i)
<1>1. PICK n \in Nat : n = Len(p)
  BY DEF PathOf
<1>2. PathOf(s, q) /\ Len(q) = n + 1 /\ p \in Seq(Nat) /\ q \in Seq(Nat)
  <2>1. PathOf(s, q) /\ Len(q) = n + 1
    BY <1>1, PathLonger
  <2> QED BY <2>1 DEF PathOf
<1>3. q[n + 1] = a /\ \A i \in 1..n : q[i] = p[i]
  <2>1. p \in Seq(Nat) /\ a \in Nat
    BY <1>1, <1>2
  <2> QED BY <1>1, <2>1, AppendProperties
<1>4. Factor(s, q, n + 1) = NextScore(s, p, a)
  <2>1. PICK m \in Nat, i \in Nat : m = n /\ i = m + 1
    OBVIOUS
  <2>2. SubSeq(q, 1, m) = p
    <3>1. SubSeq(q, 1, m) = [j \in 1..m |-> q[j]]
      <4>1. m <= Len(q)
        BY <1>2, <2>1
      <4> QED BY <1>2, <4>1, Prefix
    <3>2. p = [j \in 1..m |-> p[j]]
      BY <1>1, <1>2, <2>1
    <3> QED BY <1>3, <2>1, <3>1, <3>2
  <2>3. PICK r : r = q
    OBVIOUS
  <2>4. PathOf(s, r) /\ m < Len(r) /\ a \in 1..Len(s[i]) /\ r \in Seq(Nat) /\ SubSeq(r, 1, m) = p
    BY <1>1, <1>2, <2>1, <2>2, <2>3
  <2>5. r = [r EXCEPT ![i] = a]
    <3>1. i \in DOMAIN r /\ r[i] = a
      BY <1>2, <1>3, <2>1, <2>3
    <3> QED BY <2>4, <3>1, Itself
  <2>6. Factor(s, r, i) = NextScore(s, SubSeq(r, 1, m), a)
    BY <2>1, <2>4, <2>5, FactorIsNext, SMTT(60)
  <2> QED BY <2>1, <2>3, <2>4, <2>6
<1>5. ASSUME NEW i \in 1..n PROVE Factor(s, q, i) = Factor(s, p, i)
  <2>1. i \in Nat \ {0} /\ i <= Len(q) /\ i <= Len(p)
    BY <1>1, <1>2, SMTT(60)
  <2>2. \A j \in 1..i : j >= i - 2 /\ j <= Len(q) => q[j] = p[j]
    BY <1>3
  <2> QED BY <1>2, <2>1, <2>2, FactorLocal
<1> QED BY <1>1, <1>4, <1>5

LEMMA FactorEnd ==
  ASSUME NEW s \in Seq(Seq(Words)), NEW p, PathOf(s, p)
  PROVE  Factor(s, p, Len(p) + 1) = EndScore(s, p) /\ EndScore(s, p) \in Int
<1>1. PICK n \in Nat, i \in Nat : n = Len(p) /\ i = n + 1
  BY DEF PathOf
<1>2. PICK w1, w2 : w1 = WordAt(s, p, n - 1) /\ w2 = WordAt(s, p, n)
  OBVIOUS
<1>3. Data(w1) \in AllData /\ Data(w2) \in AllData /\ Data(End) \in AllData
  <2>1. n - 1 \in Int /\ n - 1 <= Len(p) /\ n \in Int /\ n <= Len(p)
    BY <1>1
  <2> QED BY <1>2, <2>1, PathWordKnown, DataKnown
<1>4. Factor(s, p, i) = TrueScore[Data(w1)][Data(w2)][Data(End)]
  <2>1. i - 2 = n - 1 /\ i - 1 = n /\ ~(i - 2 > Len(p)) /\ ~(i - 1 > Len(p)) /\ i > Len(p)
    BY <1>1
  <2> QED BY <1>2, <2>1 DEF Factor
<1>5. TrueScore[Data(w1)][Data(w2)][Data(End)] = TrigramScore(Data(w1), Data(w2), Data(End))
  BY <1>3, ScoreTrue
<1>6. TrigramScore(Data(w1), Data(w2), Data(End)) \in Int
  BY <1>3, Scores
<1> QED BY <1>1, <1>2, <1>4, <1>5, <1>6 DEF EndScore

LEMMA FactorTyped ==
  ASSUME NEW s \in Seq(Seq(Words)), NEW p, PathOf(s, p)
  PROVE  \A i \in 1..(Len(p) + 1) : Factor(s, p, i) \in Int
<1> SUFFICES ASSUME NEW i \in 1..(Len(p) + 1) PROVE Factor(s, p, i) \in Int
  OBVIOUS
<1>1. PICK n \in Nat : n = Len(p) /\ p \in Seq(Nat)
  BY DEF PathOf
<1>2. CASE i = n + 1
  BY <1>1, <1>2, FactorEnd
<1>3. CASE i \in 1..n
  <2>1. PICK m \in Nat, x \in Nat : i = m + 1 /\ x = p[i]
    <3>1. i - 1 \in Nat /\ i = (i - 1) + 1
      BY <1>1, <1>3
    <3>2. p[i] \in Nat
      BY <1>1, <1>3
    <3> QED BY <3>1, <3>2
  <2>2. m < Len(p) /\ m <= Len(p) /\ x \in 1..Len(s[i])
    BY <1>1, <1>3, <2>1 DEF PathOf
  <2>3. p = [p EXCEPT ![i] = x]
    BY <1>1, <2>1
  <2>4. PICK r : r = SubSeq(p, 1, m)
    OBVIOUS
  <2>5. Factor(s, p, i) = NextScore(s, r, x)
    BY <2>1, <2>2, <2>3, <2>4, FactorIsNext
  <2>6. PathOf(s, r) /\ Len(r) = m
    BY <2>2, <2>4, PrefixPath
  <2>7. Len(r) < Len(s) /\ x \in 1..Len(s[Len(r) + 1])
    BY <1>1, <2>1, <2>2, <2>6 DEF PathOf
  <2> QED BY <2>5, <2>6, <2>7, NextScoreTyped
<1> QED BY <1>1, <1>2, <1>3

LEMMA SumAdded ==
  ASSUME NEW s \in Seq(Seq(Words)), NEW p, PathOf(s, p), Len(p) < Len(s), NEW a \in 1..Len(s[Len(p) + 1])
  PROVE  SumOf(s, Append(p, a)) = SumOf(s, p) + NextScore(s, p, a) /\ SumOf(s, p) \in Int
<1>0. PICK n \in Nat : n = Len(p)
  BY DEF PathOf
<1>1. PICK q : n = Len(p) /\ q = Append(p, a)
  BY <1>0
<1>2. PathOf(s, q) /\ Len(q) = n + 1
  BY <1>1, PathLonger
<1>3. Factor(s, q, n + 1) = NextScore(s, p, a) /\ \A i \in 1..n : Factor(s, q, i) = Factor(s, p, i)
  BY <1>1, FactorAdded, ZenonT(60)
<1>4. PICK w, v : w = FactorsOf(s, p, n) /\ v = FactorsOf(s, q, n + 1)
  OBVIOUS
<1>5. w \in Weights(n) /\ v \in Weights(n + 1)
  <2>1. \A i \in 1..n : Factor(s, p, i) \in Int
    BY <1>1, FactorTyped
  <2>2. \A i \in 1..(n + 1) : Factor(s, q, i) \in Int
    <3>1. \A i \in 1..(n + 1) : i \in 1..(Len(q) + 1)
      BY <1>2
    <3> QED BY <1>2, <3>1, FactorTyped
  <2> QED BY <1>4, <2>1, <2>2 DEF FactorsOf, Weights
<1>6. v[n + 1] = NextScore(s, p, a) /\ \A k \in 1..n : v[k] = w[k]
  BY <1>3, <1>4 DEF FactorsOf
<1>7. Total(v) = Total(w) + v[n + 1] /\ Total(w) \in Int
  BY <1>5, <1>6, TotalAppended
<1> QED BY <1>1, <1>2, <1>4, <1>6, <1>7 DEF SumOf

LEMMA FullSum ==
  ASSUME NEW s \in Seq(Seq(Words)), NEW p, PathOf(s, p)
  PROVE  FullScore(s, p) = SumOf(s, p) + EndScore(s, p) /\ SumOf(s, p) \in Int /\ EndScore(s, p) \in Int
<1>1. PICK n \in Nat : n = Len(p)
  BY DEF PathOf
<1>2. PICK w, v : w = FactorsOf(s, p, n) /\ v = FactorsOf(s, p, n + 1)
  OBVIOUS
<1>3. w \in Weights(n) /\ v \in Weights(n + 1)
  <2>1. \A i \in 1..(n + 1) : Factor(s, p, i) \in Int
    BY <1>1, FactorTyped
  <2> QED BY <1>2, <2>1 DEF FactorsOf, Weights
<1>4. v[n + 1] = EndScore(s, p) /\ EndScore(s, p) \in Int /\ \A k \in 1..n : v[k] = w[k]
  <2>1. Factor(s, p, n + 1) = EndScore(s, p) /\ EndScore(s, p) \in Int
    BY <1>1, FactorEnd
  <2> QED BY <1>2, <2>1 DEF FactorsOf
<1>5. Total(v) = Total(w) + v[n + 1] /\ Total(w) \in Int
  BY <1>3, <1>4, TotalAppended
<1> QED BY <1>1, <1>2, <1>4, <1>5 DEF SumOf, FullScore

\* What comes next is scored by the two last words.
LEMMA NextAlike ==
  ASSUME NEW s, NEW p \in Seq(Nat), NEW q \in Seq(Nat), Len(p) = Len(q), LastTwo(s, p) = LastTwo(s, q)
  PROVE  EndScore(s, p) = EndScore(s, q) /\ \A a : NextScore(s, p, a) = NextScore(s, q, a)
<1>1. PICK n \in Nat : n = Len(p) /\ n = Len(q)
  OBVIOUS
<1>2. PICK x, y, u, v : x = WordAt(s, p, n - 1) /\ y = WordAt(s, p, n) /\ u = WordAt(s, q, n - 1) /\ v = WordAt(s, q, n)
  OBVIOUS
<1>a. LastTwo(s, p) = <<x, y>> /\ LastTwo(s, q) = <<u, v>>
  BY <1>1, <1>2 DEF LastTwo
<1>b. <<x, y>> = <<u, v>>
  BY <1>a, Zenon
<1>c. x = u /\ y = v
  BY <1>b
<1>3. WordAt(s, p, n - 1) = WordAt(s, q, n - 1) /\ WordAt(s, p, n) = WordAt(s, q, n)
  BY <1>2, <1>c
<1> QED BY <1>1, <1>3 DEF EndScore, NextScore

-----------------------------------------------------------------------------
(***************************************************************************)
(* A table with a free slot: where a hypothesis is looked for.             *)
(***************************************************************************)

LEMMA ModRange == ASSUME NEW n \in Nat \ {0}, NEW x \in Int PROVE x % n \in 0..(n - 1)
OBVIOUS

LEMMA ModSame ==
  ASSUME NEW n \in Nat \ {0}, NEW x \in Int, NEW y \in 0..(n - 1), NEW q \in {0, 1}, x = n * q + y
  PROVE  x % n = y
<1>1. PICK d, m : d = x \div n /\ m = x % n
  OBVIOUS
<1>2. d \in Int /\ m \in 0..(n - 1) /\ x = n * d + m
  BY <1>1
<1>3. d = q
  <2>1. n * (d - q) = y - m /\ y - m < n /\ y - m > -n
    BY <1>2
  <2>2. d - q >= 1 => n * (d - q) >= n
    BY <1>2
  <2>3. d - q <= -1 => n * (d - q) <= -n
    BY <1>2
  <2> QED BY <1>2, <2>1, <2>2, <2>3
<1> QED BY <1>1, <1>2, <1>3

LEMMA Rotated ==
  ASSUME NEW n \in Nat \ {0}, NEW r \in 0..(n - 1), NEW s \in 0..(n - 1)
  PROVE  \E k \in 0..(n - 1) : (r + k) % n = s
<1>1. PICK q \in {0, 1}, k \in 0..(n - 1) : r + k = n * q + s
  <2>1. CASE r <= s
    <3>1. s - r \in 0..(n - 1) /\ r + (s - r) = n * 0 + s
      BY <2>1
    <3> QED BY <3>1
  <2>2. CASE s < r
    <3>1. s - r + n \in 0..(n - 1) /\ r + (s - r + n) = n * 1 + s
      BY <2>2
    <3> QED BY <3>1
  <2> QED BY <2>1, <2>2
<1>2. PICK x \in Int : x = r + k
  OBVIOUS
<1>3. x = n * q + s
  BY <1>1, <1>2
<1>4. x % n = s
  BY <1>3, ModSame
<1> QED BY <1>2, <1>4

Table(H, n) == [0..(n - 1) -> Cells(H)]
Content(active) == {active[s][1] : s \in Held(active)}

LEMMA ProbeStops ==
  ASSUME NEW active, NEW n \in Nat \ {0}, NEW words, JavaHash(words[1]) \in Int, JavaHash(words[2]) \in Int,
         NEW same, NEW free \in 0..(n - 1), active[free] = <<>>,
         NEW p, p = Probe(active, words, n, same)
  PROVE  p \in 0..(n - 1) /\ (active[p] = <<>> \/ active[p][1] \in same)
<1>1. PICK r : r = HashSlot(words, n)
  OBVIOUS
<1>2. r \in 0..(n - 1)
  <2>1. PICK x, y : x = JavaHash(words[1]) /\ y = JavaHash(words[2])
    OBVIOUS
  <2>2. 31 * x + y \in Int
    BY <2>1
  <2>3. r = (31 * x + y) % n
    BY <1>1, <2>1 DEF HashSlot
  <2> QED BY <2>2, <2>3, ModRange
<1> DEFINE slot(k) == (r + k) % n
           Stops(k) == active[slot(k)] = <<>> \/ active[slot(k)][1] \in same
<1>3. PICK I : I = {k \in 0..(n - 1) : Stops(k)}
  OBVIOUS
<1>4. PICK m : m = Min(I)
  OBVIOUS
<1>5. p = slot(m)
  BY <1>1, <1>3, <1>4 DEF Probe
<1>6. I # {}
  <2>1. PICK k \in 0..(n - 1) : (r + k) % n = free
    BY <1>2, Rotated
  <2>2. Stops(k)
    BY <2>1
  <2> HIDE DEF Stops
  <2> QED BY <1>3, <2>2
<1>7. m \in I
  <2>1. I \in SUBSET Nat
    BY <1>3
  <2> QED BY <1>4, <1>6, <2>1, LeastOf
<1>8. m \in 0..(n - 1) /\ Stops(m)
  <2> HIDE DEF Stops
  <2> QED BY <1>3, <1>7
<1>9. slot(m) \in 0..(n - 1)
  <2>1. r + m \in Int
    BY <1>2, <1>8
  <2> QED BY <2>1, ModRange
<1> QED BY <1>5, <1>8, <1>9

\* The hypotheses of a table, one after the other.
LEMMA FlattenRuns ==
  ASSUME NEW S, NEW l \in Nat, NEW seqs \in Seq(Seq(S)), Len(seqs) = l
  PROVE  \E flat : /\ flat[0] = <<>> /\ \A k \in 0..l : flat[k] \in Seq(S)
                   /\ \A k \in 1..l : flat[k] = flat[k - 1] \o seqs[k]
                   /\ FlattenSeq(seqs) = flat[l]
<1>1. CASE l = 0
  <2>1. FlattenSeq(seqs) = seqs /\ seqs = <<>>
    <3>1. FlattenSeq(seqs) = seqs
      BY <1>1 DEF FlattenSeq
    <3>2. seqs = <<>>
      BY <1>1, EmptySeq
    <3> QED BY <3>1, <3>2
  <2>2. <<>> \in Seq(S)
    OBVIOUS
  <2>3. PICK flat : flat = [k \in 0..0 |-> <<>>]
    OBVIOUS
  <2>4. flat[0] = <<>> /\ \A k \in 0..l : flat[k] \in Seq(S)
    BY <1>1, <2>2, <2>3
  <2> QED BY <1>1, <2>1, <2>4
<1>2. CASE l # 0
  <2> DEFINE G(k, x) == x \o seqs[k]
             g == [p \in (1..l) \X Seq(S) |-> G(p[1], p[2])]
             Right(f) == f = [i \in 1..l |-> IF i = 1 THEN seqs[i] ELSE f[i - 1] \o seqs[i]]
             flatten == CHOOSE f : Right(f)
  <2>1. \A k \in 1..l : seqs[k] \in Seq(S)
    OBVIOUS
  <2>2. \A k \in 1..l, x \in Seq(S) : G(k, x) \in Seq(S)
    BY <2>1, ConcatProperties
  <2>3. g \in [(1..l) \X Seq(S) -> Seq(S)]
    <3> HIDE DEF G
    <3> QED BY <2>2
  <2>4. <<>> \in Seq(S)
    OBVIOUS
  <2>5. PICK p \in [0..l -> Seq(S)] : p[0] = <<>> /\ \A k \in 1..l : p[k] = g[<<k, p[k - 1]>>]
    <3> HIDE DEF g
    <3>1. Numbers!Iterates(l, Seq(S), <<>>, g)
      BY <2>3, <2>4 DEF Numbers!Iterates
    <3>2. PICK p : Iterated(p, l, Seq(S), <<>>, g)
      BY <3>1, Defined
    <3> QED BY <3>2 DEF Iterated
  <2>6. \A k \in 1..l : p[k] = G(k, p[k - 1])
    <3> SUFFICES ASSUME NEW k \in 1..l PROVE p[k] = G(k, p[k - 1])
      OBVIOUS
    <3>1. p[k - 1] \in Seq(S)
      OBVIOUS
    <3>2. <<k, p[k - 1]>> \in (1..l) \X Seq(S)
      BY <3>1
    <3> HIDE DEF G
    <3> QED BY <2>5, <3>2
  <2>a. p[1] = seqs[1]
    <3>1. 1 \in 1..l /\ 1 - 1 = 0
      BY <1>2
    <3>a. p[1] = G(1, p[1 - 1])
      <4> HIDE DEF G
      <4> QED BY <2>6, <3>1
    <3>b. p[1 - 1] = <<>>
      BY <2>5, <3>1
    <3>2. p[1] = <<>> \o seqs[1]
      BY <3>a, <3>b, Zenon
    <3>3. seqs[1] \in Seq(S)
      BY <2>1, <3>1
    <3> QED BY <3>2, <3>3, ConcatEmptySeq
  <2>7. PICK q : q = [i \in 1..l |-> p[i]]
    OBVIOUS
  <2>8. Right(q)
    <3>1. \A i \in 1..l : q[i] = IF i = 1 THEN seqs[i] ELSE q[i - 1] \o seqs[i]
      <4> SUFFICES ASSUME NEW i \in 1..l PROVE q[i] = IF i = 1 THEN seqs[i] ELSE q[i - 1] \o seqs[i]
        OBVIOUS
      <4>1. i # 1 => q[i - 1] = p[i - 1]
        BY <2>7
      <4> QED BY <2>6, <2>7, <2>a, <4>1
    <3> QED BY <2>7, <3>1
  <2>9. Right(flatten)
    <3> HIDE DEF Right
    <3> QED BY <2>8
  <2>10. FlattenSeq(seqs) = flatten[l]
    BY <1>2 DEF FlattenSeq
  <2> HIDE DEF flatten
  <2>11. \A i \in 1..l : flatten[i] = IF i = 1 THEN seqs[i] ELSE flatten[i - 1] \o seqs[i]
    BY <2>9, ZenonT(30)
  <2>12. PICK flat : flat = [k \in 0..l |-> IF k = 0 THEN <<>> ELSE flatten[k]]
    OBVIOUS
  <2>13. flat[0] = <<>> /\ \A k \in 1..l : flat[k] = flatten[k]
    BY <2>12
  <2>14. \A k \in 1..l : flat[k] = flat[k - 1] \o seqs[k]
    <3> SUFFICES ASSUME NEW k \in 1..l PROVE flat[k] = flat[k - 1] \o seqs[k]
      OBVIOUS
    <3>1. CASE k = 1
      <4>1. flat[k] = seqs[k] /\ k - 1 = 0
        BY <2>11, <2>13, <3>1
      <4>2. seqs[k] \in Seq(S)
        BY <2>1
      <4> QED BY <2>13, <4>1, <4>2, ConcatEmptySeq
    <3>2. CASE k # 1
      <4>1. k - 1 \in 1..l
        BY <3>2
      <4> QED BY <2>11, <2>13, <3>2, <4>1
    <3> QED BY <3>1, <3>2
  <2>15. \A k \in 1..l : flat[k - 1] \in Seq(S) => flat[k] \in Seq(S)
    <3> SUFFICES ASSUME NEW k \in 1..l, flat[k - 1] \in Seq(S) PROVE flat[k] \in Seq(S)
      OBVIOUS
    <3>1. PICK x, y : x = flat[k - 1] /\ y = seqs[k]
      OBVIOUS
    <3>2. x \in Seq(S) /\ y \in Seq(S)
      BY <2>1, <3>1
    <3>3. x \o y \in Seq(S)
      BY <3>2, ConcatProperties
    <3> QED BY <2>14, <3>1, <3>3
  <2>16. \A k \in 0..l : flat[k] \in Seq(S)
    BY <2>4, <2>13, <2>15, Reached
  <2>17. FlattenSeq(seqs) = flat[l]
    BY <1>2, <2>10, <2>13
  <2> QED BY <2>13, <2>14, <2>16, <2>17
<1> QED BY <1>1, <1>2

LEMMA CellOf ==
  ASSUME NEW H, NEW n \in Nat, NEW active \in Table(H, n), NEW s \in Held(active)
  PROVE  s \in 0..(n - 1) /\ active[s] = <<active[s][1]>> /\ active[s][1] \in H
<1>1. s \in 0..(n - 1) /\ active[s] \in Cells(H) /\ active[s] # <<>>
  BY DEF Table, Held
<1>2. PICK h \in H : active[s] = <<h>>
  BY <1>1 DEF Cells
<1> QED BY <1>1, <1>2

LEMMA TableSize ==
  ASSUME NEW H, NEW n \in Nat, NEW active \in Table(H, n)
  PROVE  DOMAIN active = 0..(n - 1) /\ Cardinality(DOMAIN active) = n /\ IsFiniteSet(Held(active))
<1>1. DOMAIN active = 0..(n - 1)
  BY DEF Table
<1>2. IsFiniteSet(0..(n - 1)) /\ Cardinality(0..(n - 1)) = IF 0 > n - 1 THEN 0 ELSE (n - 1) - 0 + 1
  BY FS_Interval
<1>3. Held(active) \in SUBSET (0..(n - 1))
  BY <1>1 DEF Held
<1> QED BY <1>1, <1>2, <1>3, FS_Subset

LEMMA OwnContent ==
  ASSUME NEW H, NEW n \in Nat, NEW active \in Table(H, n)
  PROVE  active \in Table(Content(active), n) /\ Content(active) \subseteq H
<1>1. ASSUME NEW s \in 0..(n - 1) PROVE active[s] \in Cells(Content(active))
  <2>1. CASE active[s] = <<>>
    BY <2>1 DEF Cells
  <2>2. CASE active[s] # <<>>
    <3>1. s \in Held(active)
      BY <2>2, TableSize DEF Held
    <3>2. active[s] = <<active[s][1]>> /\ active[s][1] \in Content(active)
      BY <3>1, CellOf DEF Content
    <3> QED BY <3>2 DEF Cells
  <2> QED BY <2>1, <2>2
<1>2. active = [s \in 0..(n - 1) |-> active[s]]
  BY DEF Table
<1>3. Content(active) \subseteq H
  BY CellOf DEF Content
<1> QED BY <1>1, <1>2, <1>3 DEF Table

LEMMA ListedHeld ==
  ASSUME NEW H, NEW n \in Nat, NEW active \in Table(H, n)
  PROVE  /\ Len(Listed(active)) = Cardinality(Held(active))
         /\ Listed(active) \in Seq(H) /\ ToSet(Listed(active)) = Content(active)
<1>1. PICK seqs : seqs = [k \in 1..n |-> active[k - 1]]
  OBVIOUS
<1>2. Listed(active) = FlattenSeq(seqs)
  BY <1>1, TableSize DEF Listed
<1>3. active \in Table(Content(active), n) /\ Content(active) \subseteq H
  BY OwnContent
<1>4. \A K : active \in Table(K, n) => seqs \in Seq(Seq(K))
  <2> SUFFICES ASSUME NEW K, active \in Table(K, n) PROVE seqs \in Seq(Seq(K))
    OBVIOUS
  <2>1. Cells(K) \subseteq Seq(K)
    <3>1. <<>> \in Seq(K)
      OBVIOUS
    <3>2. \A h \in K : <<h>> \in Seq(K)
      OBVIOUS
    <3> QED BY <3>1, <3>2 DEF Cells
  <2>2. \A k \in 1..n : active[k - 1] \in Seq(K)
    BY <2>1 DEF Table
  <2> QED BY <1>1, <2>2
<1>5. Len(seqs) = n
  BY <1>1
<1>6. Listed(active) \in Seq(H) /\ Listed(active) \in Seq(Content(active))
  BY <1>2, <1>3, <1>4, Flattened
<1>7. ToSet(Listed(active)) = Content(active)
  <2>1. ToSet(Listed(active)) \subseteq Content(active)
    <3>1. PICK C, l : C = Content(active) /\ l = Listed(active)
      OBVIOUS
    <3>2. l \in Seq(C)
      BY <1>6, <3>1
    <3>3. ToSet(l) \subseteq C
      BY <3>2 DEF ToSet
    <3> QED BY <3>1, <3>3
  <2>2. ASSUME NEW s \in Held(active) PROVE active[s][1] \in ToSet(Listed(active))
    <3>1. s \in 0..(n - 1) /\ active[s] = <<active[s][1]>>
      BY <2>2, CellOf
    <3>2. PICK k \in 1..n : k = s + 1 /\ k - 1 = s
      BY <3>1
    <3>3. seqs[k] = <<active[s][1]>>
      BY <1>1, <3>1, <3>2
    <3>4. active[s][1] \in ToSet(seqs[k])
      BY <3>3 DEF ToSet
    <3>5. ToSet(seqs[k]) \subseteq ToSet(FlattenSeq(seqs))
      BY <1>4, <1>5, Flattened
    <3> QED BY <1>2, <3>4, <3>5
  <2> QED BY <2>1, <2>2 DEF Content
<1>8. PICK flat :
        /\ flat[0] = <<>> /\ \A k \in 0..n : flat[k] \in Seq(H)
        /\ \A k \in 1..n : flat[k] = flat[k - 1] \o seqs[k]
        /\ FlattenSeq(seqs) = flat[n]
  BY <1>4, <1>5, FlattenRuns, ZenonT(60)
<1> DEFINE Taken(k) == {s \in 0..(k - 1) : active[s] # <<>>}
           T == {k \in Nat : k <= n => IsFiniteSet(Taken(k)) /\ Len(flat[k]) = Cardinality(Taken(k))}
<1>9. 0 \in T
  <2>1. Taken(0) = {}
    OBVIOUS
  <2> QED BY <1>8, <2>1, FS_EmptySet
<1>10. ASSUME NEW k \in Nat, k \in T PROVE k + 1 \in T
  <2> SUFFICES ASSUME k + 1 <= n
               PROVE IsFiniteSet(Taken(k + 1)) /\ Len(flat[k + 1]) = Cardinality(Taken(k + 1))
    OBVIOUS
  <2>1. IsFiniteSet(Taken(k)) /\ Len(flat[k]) = Cardinality(Taken(k))
    BY <1>10
  <2>2. k + 1 \in 1..n /\ (k + 1) - 1 = k /\ k \in 0..n /\ k \in 0..(n - 1)
    OBVIOUS
  <2>3. PICK x, y : x = flat[k] /\ y = active[k]
    OBVIOUS
  <2>4. flat[k + 1] = x \o y /\ x \in Seq(H)
    BY <1>1, <1>8, <2>2, <2>3
  <2>5. CASE y = <<>>
    <3>1. Taken(k + 1) = Taken(k)
      <4>1. \A s : s \in 0..((k + 1) - 1) <=> s = k \/ s \in 0..(k - 1)
        OBVIOUS
      <4> QED BY <2>3, <2>5, <4>1
    <3>2. flat[k + 1] = x
      BY <2>4, <2>5, ConcatEmptySeq
    <3> HIDE DEF Taken
    <3> QED BY <2>1, <2>3, <3>1, <3>2
  <2>6. CASE y # <<>>
    <3>1. Taken(k + 1) = Taken(k) \cup {k} /\ k \notin Taken(k)
      BY <2>2, <2>3, <2>6
    <3>2. PICK h \in H : y = <<h>>
      BY <2>2, <2>3, <2>6 DEF Table, Cells
    <3>3. Len(x \o y) = Len(x) + 1
      <4>1. y \in Seq(H) /\ Len(y) = 1
        BY <3>2
      <4>2. x \in Seq(H)
        BY <2>4
      <4>3. Len(x \o y) = Len(x) + Len(y)
        BY <4>1, <4>2, ConcatProperties
      <4> QED BY <4>1, <4>3
    <3>4. Cardinality(Taken(k) \cup {k}) = Cardinality(Taken(k)) + 1 /\ IsFiniteSet(Taken(k) \cup {k})
      <4> HIDE DEF Taken
      <4> QED BY <2>1, <3>1, FS_AddElement
    <3> HIDE DEF Taken
    <3> QED BY <2>1, <2>3, <2>4, <3>1, <3>3, <3>4
  <2> QED BY <2>5, <2>6
<1>11. Nat \subseteq T
  <2> HIDE DEF T
  <2> QED BY <1>9, <1>10, Numbers!Induct
<1>12. Taken(n) = Held(active)
  BY TableSize DEF Held
<1>13. Len(flat[n]) = Cardinality(Taken(n))
  <2>1. n \in T
    <3> HIDE DEF T
    <3> QED BY <1>11
  <2> QED BY <2>1
<1> HIDE DEF Taken
<1> QED BY <1>2, <1>6, <1>7, <1>8, <1>12, <1>13

LEMMA FreeSlot ==
  ASSUME NEW H, NEW m \in Nat, NEW active \in Table(H, m), NEW n \in Nat, n <= m, Cardinality(Held(active)) < n
  PROVE  \E free \in 0..(n - 1) : active[free] = <<>>
<1> SUFFICES ASSUME \A s \in 0..(n - 1) : active[s] # <<>> PROVE FALSE
  OBVIOUS
<1>1. 0..(n - 1) \in SUBSET Held(active)
  <2>1. \A s \in 0..(n - 1) : s \in 0..(m - 1)
    OBVIOUS
  <2> QED BY <2>1, TableSize DEF Held
<1>2. IsFiniteSet(Held(active))
  BY TableSize
<1>3. Cardinality(0..(n - 1)) <= Cardinality(Held(active))
  BY <1>1, <1>2, FS_Subset
<1>4. Cardinality(0..(n - 1)) = IF 0 > n - 1 THEN 0 ELSE (n - 1) - 0 + 1
  BY FS_Interval
<1>5. Cardinality(Held(active)) \in Nat
  BY <1>2, FS_CardinalityType
<1> QED BY <1>3, <1>4, <1>5

\* A slot that is given to a hypothesis.
Given(x, slot, h) == [x EXCEPT ![slot] = <<h>>]

LEMMA SlotGiven ==
  ASSUME NEW H, NEW n \in Nat, NEW x \in Table(H, n), NEW p \in 0..(n - 1), NEW h \in H,
         NEW y, y = Given(x, p, h)
  PROVE  /\ y \in Table(H, n) /\ Held(y) = Held(x) \cup {p}
         /\ Content(y) \subseteq Content(x) \cup {h} /\ h \in Content(y)
         /\ \A o \in Content(x) : o \in Content(y) \/ (x[p] = <<o>>)
<1>1. y \in Table(H, n)
  BY DEF Given, Table, Cells
<1>2. y[p] = <<h>> /\ \A s \in 0..(n - 1) : s # p => y[s] = x[s]
  BY DEF Given, Table
<1>3. DOMAIN x = 0..(n - 1) /\ DOMAIN y = 0..(n - 1)
  BY <1>1, TableSize
<1>4. Held(y) = Held(x) \cup {p}
  <2>1. <<h>> # <<>>
    OBVIOUS
  <2> QED BY <1>2, <1>3, <2>1 DEF Held
<1>5. h \in Content(y)
  <2>1. p \in Held(y) /\ y[p][1] = h
    <3>1. <<h>>[1] = h
      OBVIOUS
    <3> QED BY <1>2, <1>4, <3>1, Zenon
  <2> QED BY <2>1 DEF Content
<1>6. Content(y) \subseteq Content(x) \cup {h}
  <2> SUFFICES ASSUME NEW s \in Held(y) PROVE y[s][1] \in Content(x) \cup {h}
    BY DEF Content
  <2>1. CASE s = p
    BY <1>2, <2>1
  <2>2. CASE s # p
    <3>1. s \in Held(x) /\ y[s] = x[s]
      BY <1>2, <1>3, <1>4, <2>2 DEF Held
    <3> QED BY <3>1 DEF Content
  <2> QED BY <2>1, <2>2
<1>7. ASSUME NEW s \in Held(x) PROVE x[s][1] \in Content(y) \/ x[p] = <<x[s][1]>>
  <2>1. s \in 0..(n - 1) /\ x[s] = <<x[s][1]>>
    BY <1>7, CellOf
  <2>2. CASE s = p
    BY <2>1, <2>2
  <2>3. CASE s # p
    <3>1. s \in Held(y) /\ y[s] = x[s]
      BY <1>2, <1>4, <2>1, <2>3
    <3> QED BY <3>1 DEF Content
  <2> QED BY <2>2, <2>3
<1>8. \A o \in Content(x) : o \in Content(y) \/ (x[p] = <<o>>)
  BY <1>7 DEF Content
<1> QED BY <1>1, <1>4, <1>5, <1>6, <1>8

\* A hypothesis that can be hashed, and one that settles in a wider table.
Hashed(sentence, h) ==
  JavaHash(LastTwo(sentence, h.path)[1]) \in Int /\ JavaHash(LastTwo(sentence, h.path)[2]) \in Int

LEMMA Settles ==
  ASSUME NEW H, NEW n \in Nat \ {0}, NEW m \in Nat, n <= m, NEW x \in Table(H, m), Cardinality(Held(x)) < n,
         NEW h \in H, NEW sentence, Hashed(sentence, h), NEW y, y = Settle(x, h, n, sentence)
  PROVE  /\ Content(y) = Content(x) \cup {h}
         /\ Cardinality(Held(y)) <= Cardinality(Held(x)) + 1
<1>1. PICK words, none : words = LastTwo(sentence, h.path) /\ none = {}
  OBVIOUS
<1>2. PICK free \in 0..(n - 1) : x[free] = <<>>
  BY FreeSlot
<1>3. PICK p : p = Probe(x, words, n, none)
  OBVIOUS
<1>4. p \in 0..(n - 1) /\ x[p] = <<>>
  <2>1. JavaHash(words[1]) \in Int /\ JavaHash(words[2]) \in Int
    BY <1>1 DEF Hashed
  <2>2. p \in 0..(n - 1) /\ (x[p] = <<>> \/ x[p][1] \in none)
    BY <1>2, <1>3, <2>1, ProbeStops
  <2> QED BY <1>1, <2>2
<1>5. y = Given(x, p, h)
  BY <1>1, <1>3 DEF Settle, Given
<1>6. p \in 0..(m - 1)
  BY <1>4
<1>7. /\ Held(y) = Held(x) \cup {p}
      /\ Content(y) \subseteq Content(x) \cup {h} /\ h \in Content(y)
      /\ \A o \in Content(x) : o \in Content(y) \/ (x[p] = <<o>>)
  BY <1>5, <1>6, SlotGiven
<1>8. \A o : <<o>> # <<>>
  OBVIOUS
<1>9. Content(y) = Content(x) \cup {h}
  BY <1>4, <1>7, <1>8
<1>10. Cardinality(Held(y)) <= Cardinality(Held(x)) + 1
  <2>1. IsFiniteSet(Held(x)) /\ Cardinality(Held(x)) \in Nat
    BY TableSize, FS_CardinalityType
  <2>2. Cardinality(Held(x) \cup {p}) = IF p \in Held(x) THEN Cardinality(Held(x)) ELSE Cardinality(Held(x)) + 1
    BY <2>1, FS_AddElement
  <2> QED BY <1>7, <2>1, <2>2
<1> QED BY <1>9, <1>10

LEMMA ExpandRuns ==
  ASSUME NEW H, NEW n \in Nat, NEW active \in Table(H, n), NEW sentence,
         NEW held, held = Listed(active), NEW l, l = Len(held)
  PROVE  \E grown :
           /\ grown[0] = [s \in 0..(2 * n - 1) |-> <<>>]
           /\ \A k \in 0..l : grown[k] \in Table(H, 2 * n)
           /\ \A k \in 1..l : grown[k] = Settle(grown[k - 1], held[k], n, sentence)
           /\ Expand(active, sentence) = grown[l]
<1>1. held \in Seq(H) /\ l \in Nat
  <2>1. held \in Seq(H)
    BY ListedHeld
  <2> QED BY <2>1, Length
<1>2. PICK size : size = n /\ size = Cardinality(DOMAIN active)
  BY TableSize
<1>3. PICK S : S = Table(H, 2 * n)
  OBVIOUS
<1>4. PICK a : a = [s \in 0..(2 * size - 1) |-> <<>>]
  OBVIOUS
<1>5. a \in S
  BY <1>2, <1>3, <1>4 DEF Table, Cells
<1> DEFINE G(k, x) == Settle(x, held[k], size, sentence)
           g == [p \in (1..l) \X S |-> G(p[1], p[2])]
           Right(f) == f = [k \in 0..l |-> IF k = 0 THEN a ELSE Settle(f[k - 1], held[k], size, sentence)]
           grown == CHOOSE f : Right(f)
<1>6. ASSUME NEW k \in 1..l, NEW x \in S PROVE G(k, x) \in S
  <2>1. PICK y : y = G(k, x)
    OBVIOUS
  <2>2. PICK h, slot : h = held[k] /\ slot = Probe(x, LastTwo(sentence, h.path), size, {})
    OBVIOUS
  <2>3. y = [x EXCEPT ![slot] = <<h>>]
    BY <2>1, <2>2 DEF Settle
  <2>4. <<h>> \in Cells(H)
    BY <1>1, <2>2 DEF Cells
  <2>5. y \in [0..(2 * n - 1) -> Cells(H)]
    BY <1>3, <2>3, <2>4 DEF Table
  <2> QED BY <1>3, <2>1, <2>5 DEF Table
<1>7. PICK f : Iterated(f, l, S, a, g)
  <2>1. g \in [(1..l) \X S -> S]
    <3> HIDE DEF G
    <3> QED BY <1>6
  <2>2. Numbers!Iterates(l, S, a, g)
    <3> HIDE DEF g
    <3> QED BY <1>1, <1>5, <2>1 DEF Numbers!Iterates
  <2> HIDE DEF g
  <2> QED BY <2>2, Defined
<1>8. Right(f)
  <2>1. f \in [0..l -> S] /\ f[0] = a /\ \A k \in 1..l : f[k] = g[<<k, f[k - 1]>>]
    <3> HIDE DEF g
    <3> QED BY <1>7 DEF Iterated
  <2>2. \A k \in 1..l : f[k] = G(k, f[k - 1])
    <3> SUFFICES ASSUME NEW k \in 1..l PROVE f[k] = G(k, f[k - 1])
      OBVIOUS
    <3>1. <<k, f[k - 1]>> \in (1..l) \X S
      BY <1>1, <2>1, SMTT(60)
    <3> HIDE DEF G
    <3> QED BY <2>1, <3>1
  <2> QED BY <1>1, <2>1, <2>2
<1>9. Right(grown)
  <2> HIDE DEF Right
  <2> QED BY <1>8
<1>10. Expand(active, sentence) = grown[l]
  BY <1>2, <1>4 DEF Expand
<1> HIDE DEF grown
<1>11. \A k \in 0..l : grown[k] = IF k = 0 THEN a ELSE Settle(grown[k - 1], held[k], size, sentence)
  BY <1>9, ZenonT(30)
<1>12. grown[0] = a /\ \A k \in 1..l : grown[k] = Settle(grown[k - 1], held[k], size, sentence)
  BY <1>1, <1>11
<1>13. \A k \in 0..l : grown[k] \in S
  <2>1. \A k \in 1..l : grown[k - 1] \in S => grown[k] \in S
    <3> SUFFICES ASSUME NEW k \in 1..l, grown[k - 1] \in S PROVE grown[k] \in S
      OBVIOUS
    <3>1. grown[k] = G(k, grown[k - 1])
      BY <1>12
    <3> HIDE DEF G
    <3> QED BY <1>6, <3>1
  <2>2. grown[0] \in S
    BY <1>5, <1>12
  <2> QED BY <1>1, <2>1, <2>2, Reached
<1> QED BY <1>2, <1>3, <1>4, <1>10, <1>12, <1>13

LEMMA ExpandKeeps ==
  ASSUME NEW H, NEW n \in Nat \ {0}, NEW active \in Table(H, n), NEW sentence, \A h \in H : Hashed(sentence, h),
         NEW t, t = Expand(active, sentence)
  PROVE  /\ t \in Table(H, 2 * n) /\ Content(t) = Content(active)
         /\ Cardinality(Held(t)) <= Cardinality(Held(active))
<1>1. PICK held, l : held = Listed(active) /\ l = Len(held)
  OBVIOUS
<1>2. l = Cardinality(Held(active)) /\ held \in Seq(H) /\ ToSet(held) = Content(active)
  BY <1>1, ListedHeld
<1>3. l \in Nat /\ l <= n
  <2>1. Held(active) \in SUBSET (0..(n - 1))
    BY TableSize DEF Held
  <2>2. IsFiniteSet(0..(n - 1)) /\ Cardinality(0..(n - 1)) = IF 0 > n - 1 THEN 0 ELSE (n - 1) - 0 + 1
    BY FS_Interval
  <2>3. Cardinality(Held(active)) <= Cardinality(0..(n - 1))
    BY <2>1, <2>2, FS_Subset
  <2>4. l \in Nat
    BY <1>1, ListedHeld, Length
  <2> QED BY <1>2, <2>2, <2>3, <2>4
<1>4. PICK grown :
        /\ grown[0] = [s \in 0..(2 * n - 1) |-> <<>>]
        /\ \A k \in 0..l : grown[k] \in Table(H, 2 * n)
        /\ \A k \in 1..l : grown[k] = Settle(grown[k - 1], held[k], n, sentence)
        /\ t = grown[l]
  BY <1>1, ExpandRuns
<1>5. PICK m \in Nat : m = 2 * n /\ n <= m
  OBVIOUS
<1> DEFINE Before(k) == {held[j] : j \in 1..k}
           Settled(k) == Content(grown[k]) = Before(k) /\ Cardinality(Held(grown[k])) <= k
           T == {k \in Nat : k <= l => Settled(k)}
<1>6. 0 \in T
  <2>1. Held(grown[0]) = {}
    BY <1>4 DEF Held
  <2>2. Content(grown[0]) = {} /\ Before(0) = {}
    BY <2>1 DEF Content
  <2>3. Cardinality(Held(grown[0])) = 0
    BY <2>1, FS_EmptySet
  <2> QED BY <2>2, <2>3
<1>7. ASSUME NEW k \in Nat, k \in T PROVE k + 1 \in T
  <2> SUFFICES ASSUME k + 1 <= l PROVE Settled(k + 1)
    OBVIOUS
  <2>1. Content(grown[k]) = Before(k) /\ Cardinality(Held(grown[k])) <= k
    BY <1>3, <1>7
  <2>2. k + 1 \in 1..l /\ (k + 1) - 1 = k /\ k \in 0..l /\ k < n
    BY <1>3
  <2>3. PICK x, y, h : x = grown[k] /\ y = grown[k + 1] /\ h = held[k + 1]
    OBVIOUS
  <2>4. y = Settle(x, h, n, sentence) /\ x \in Table(H, m) /\ h \in H
    <3>1. grown[k + 1] = Settle(grown[(k + 1) - 1], held[k + 1], n, sentence)
      BY <1>4, <2>2
    <3>2. x \in Table(H, m)
      BY <1>4, <1>5, <2>2, <2>3
    <3>3. held[k + 1] \in H
      <4>1. k + 1 \in 1..Len(held) /\ held \in Seq(H)
        BY <1>1, <1>2, <2>2
      <4> QED BY <4>1, ElementOfSeq
    <3> QED BY <2>2, <2>3, <3>1, <3>2, <3>3
  <2>5. Cardinality(Held(x)) \in Nat
    BY <2>4, TableSize, FS_CardinalityType
  <2>6. Cardinality(Held(x)) < n /\ Hashed(sentence, h)
    BY <2>1, <2>2, <2>3, <2>4, <2>5
  <2>7. Content(y) = Content(x) \cup {h} /\ Cardinality(Held(y)) <= Cardinality(Held(x)) + 1
    BY <1>5, <2>4, <2>6, Settles
  <2>8. Before(k + 1) = Before(k) \cup {h}
    <3>1. \A j : j \in 1..(k + 1) <=> j = k + 1 \/ j \in 1..k
      OBVIOUS
    <3> QED BY <2>3, <3>1
  <2>9. Cardinality(Held(y)) <= k + 1
    <3>1. \E H2 : y \in Table(H2, m)
      BY <1>4, <1>5, <2>2, <2>3
    <3>2. Cardinality(Held(y)) \in Nat
      BY <3>1, TableSize, FS_CardinalityType
    <3> QED BY <2>1, <2>3, <2>5, <2>7, <3>2
  <2> HIDE DEF Before
  <2> QED BY <2>1, <2>3, <2>7, <2>8, <2>9
<1>8. Nat \subseteq T
  <2> HIDE DEF T
  <2> QED BY <1>6, <1>7, Numbers!Induct
<1>9. Settled(l)
  <2>1. l \in T
    <3> HIDE DEF T
    <3> QED BY <1>3, <1>8
  <2> HIDE DEF Settled
  <2> QED BY <1>3, <2>1
<1>10. Before(l) = Content(active)
  <2>1. Before(l) = ToSet(held)
    <3>1. DOMAIN held = 1..Len(held)
      BY <1>2
    <3>2. DOMAIN held = 1..l
      BY <1>1, <3>1
    <3> QED BY <3>2 DEF ToSet
  <2> QED BY <1>2, <2>1
<1>11. t \in Table(H, 2 * n)
  BY <1>3, <1>4
<1> HIDE DEF Before
<1> QED BY <1>2, <1>4, <1>9, <1>10, <1>11

\* What is kept of hypotheses: for each one that scores no less behind the
\* same two words.
Dominated(sentence, E, x) ==
  \E e \in E : LastTwo(sentence, e.path) = LastTwo(sentence, x.path) /\ x.score <= e.score
Keeps(sentence, E, h, F) == F \subseteq E \cup {h} /\ \A x \in E \cup {h} : Dominated(sentence, F, x)

\* A table below its limit.
Roomy(H, active) == \E n \in Nat : n >= 8 /\ active \in Table(H, n) /\ Cardinality(Held(active)) < LoadLimit(n)
Hashing(sentence, H) == \A h \in H : h.score \in Int /\ Hashed(sentence, h)

LEMMA LoadLimits ==
  ASSUME NEW n \in Nat, n >= 8
  PROVE  LoadLimit(n) \in Nat /\ 0 < LoadLimit(n) /\ LoadLimit(n) <= n /\ LoadLimit(n) < LoadLimit(2 * n)
BY DEF LoadLimit

LEMMA NewRoomy == ASSUME NEW H PROVE Roomy(H, NewActive) /\ Content(NewActive) = {}
<1>1. NewActive \in Table(H, 8)
  BY DEF NewActive, Table, Cells
<1>2. Held(NewActive) = {}
  BY DEF NewActive, Held
<1>3. Cardinality(Held(NewActive)) = 0
  BY <1>2, FS_EmptySet
<1>4. 8 \in Nat /\ 8 >= 8
  OBVIOUS
<1>5. 0 < LoadLimit(8)
  BY <1>4, LoadLimits
<1>6. Content(NewActive) = {}
  BY <1>2 DEF Content
<1> QED BY <1>1, <1>3, <1>4, <1>5, <1>6 DEF Roomy

LEMMA DominatesItself ==
  ASSUME NEW sentence, NEW E, NEW x \in E, x.score \in Int
  PROVE  Dominated(sentence, E, x)
BY DEF Dominated

\* Add finds the slot of a hypothesis with the same words or a free one.
LEMMA AddKeeps ==
  ASSUME NEW sentence, NEW H, Hashing(sentence, H), NEW active, Roomy(H, active), NEW h \in H,
         NEW t, t = Add(active, h, sentence)
  PROVE  Roomy(H, t) /\ Keeps(sentence, Content(active), h, Content(t))
<1>1. PICK n \in Nat : n >= 8 /\ active \in Table(H, n) /\ Cardinality(Held(active)) < LoadLimit(n)
  BY DEF Roomy
<1>2. LoadLimit(n) \in Nat /\ LoadLimit(n) <= n /\ LoadLimit(n) < LoadLimit(2 * n) /\ LoadLimit(2 * n) \in Nat
  <2>1. 2 * n \in Nat /\ 2 * n >= 8
    BY <1>1
  <2> QED BY <1>1, <2>1, LoadLimits
<1>3. Cardinality(DOMAIN active) = n /\ IsFiniteSet(Held(active)) /\ Cardinality(Held(active)) \in Nat
  BY <1>1, TableSize, FS_CardinalityType
<1>4. ToSet(Listed(active)) = Content(active) /\ Content(active) \subseteq H
  BY <1>1, ListedHeld, OwnContent
<1>5. PICK words, same : words = LastTwo(sentence, h.path)
                         /\ same = {other \in Content(active) : LastTwo(sentence, other.path) = words}
  OBVIOUS
<1>6. PICK slot : slot = Probe(active, words, n, same)
  OBVIOUS
<1>7. PICK added : added = Given(active, slot, h)
  OBVIOUS
<1>8. /\ active[slot] # <<>> => t = IF active[slot][1].score < h.score THEN added ELSE active
      /\ active[slot] = <<>> => t = IF Cardinality(Held(added)) = LoadLimit(n) THEN Expand(added, sentence) ELSE added
  <2>1. added = [active EXCEPT ![slot] = <<h>>]
    BY <1>7 DEF Given
  <2>2. slot = Probe(active, LastTwo(sentence, h.path), Cardinality(DOMAIN active),
                     {other \in ToSet(Listed(active)) : LastTwo(sentence, other.path) = LastTwo(sentence, h.path)})
    BY <1>3, <1>4, <1>5, <1>6
  <2>3. t = CASE active[slot] # <<>> -> IF active[slot][1].score < h.score THEN added ELSE active
              [] active[slot] = <<>> /\ Cardinality(Held(added)) = LoadLimit(n) -> Expand(added, sentence)
              [] OTHER -> added
    BY <1>3, <2>1, <2>2 DEF Add
  <2> QED BY <2>3
<1>9. slot \in 0..(n - 1) /\ (active[slot] = <<>> \/ active[slot][1] \in same)
  <2>1. PICK free \in 0..(n - 1) : active[free] = <<>>
    <3>1. Cardinality(Held(active)) < n /\ n <= n
      BY <1>1, <1>2, <1>3
    <3> QED BY <1>1, <3>1, FreeSlot
  <2>2. JavaHash(words[1]) \in Int /\ JavaHash(words[2]) \in Int
    BY <1>5 DEF Hashing, Hashed
  <2>3. n \in Nat \ {0}
    BY <1>1
  <2> QED BY <1>6, <2>1, <2>2, <2>3, ProbeStops
<1>10. /\ added \in Table(H, n) /\ Held(added) = Held(active) \cup {slot}
       /\ Content(added) \subseteq Content(active) \cup {h} /\ h \in Content(added)
       /\ \A o \in Content(active) : o \in Content(added) \/ (active[slot] = <<o>>)
  BY <1>1, <1>7, <1>9, SlotGiven
<1>11. h.score \in Int /\ \A x \in Content(active) : x.score \in Int
  BY <1>4 DEF Hashing
<1>12. CASE active[slot] # <<>>
  <2>1. PICK o : o = active[slot][1]
    OBVIOUS
  <2>2. o \in Content(active) /\ LastTwo(sentence, o.path) = LastTwo(sentence, h.path) /\ slot \in Held(active)
        /\ active[slot] = <<o>>
    <3>1. slot \in Held(active)
      BY <1>1, <1>9, <1>12, TableSize DEF Held
    <3>2. active[slot] = <<o>>
      BY <1>1, <2>1, <3>1, CellOf
    <3> QED BY <1>5, <1>9, <1>12, <2>1, <3>1, <3>2
  <2>3. CASE o.score < h.score
    <3>1. t = added /\ Held(added) = Held(active)
      BY <1>8, <1>10, <1>12, <2>1, <2>2, <2>3
    <3>2. Roomy(H, t)
      BY <1>1, <1>10, <3>1 DEF Roomy
    <3>3. ASSUME NEW x \in Content(active) PROVE Dominated(sentence, Content(added), x)
      <4>1. CASE x \in Content(added)
        BY <1>11, <3>3, <4>1, DominatesItself
      <4>2. CASE active[slot] = <<x>>
        <5>1. x = o
          BY <2>2, <4>2
        <5>2. x.score <= h.score
          BY <1>11, <2>2, <2>3, <5>1
        <5> QED BY <1>10, <2>2, <5>1, <5>2 DEF Dominated
      <4> QED BY <1>10, <4>1, <4>2
    <3>4. Dominated(sentence, Content(added), h)
      BY <1>10, <1>11, DominatesItself
    <3> QED BY <1>10, <3>1, <3>2, <3>3, <3>4 DEF Keeps
  <2>4. CASE ~(o.score < h.score)
    <3>1. t = active
      BY <1>8, <1>12, <2>1, <2>4
    <3>2. \A x \in Content(active) : Dominated(sentence, Content(active), x)
      BY <1>11, DominatesItself
    <3>3. Dominated(sentence, Content(active), h)
      <4>1. h.score <= o.score
        BY <1>11, <2>2, <2>4
      <4> QED BY <2>2, <4>1 DEF Dominated
    <3> QED BY <3>1, <3>2, <3>3 DEF Keeps
  <2> QED BY <2>3, <2>4
<1>13. CASE active[slot] = <<>>
  <2>1. slot \notin Held(active)
    BY <1>13 DEF Held
  <2>2. Cardinality(Held(added)) = Cardinality(Held(active)) + 1
    BY <1>3, <1>10, <2>1, FS_AddElement
  <2>3. Content(added) = Content(active) \cup {h}
    <3>1. \A o : <<o>> # <<>>
      OBVIOUS
    <3> QED BY <1>10, <1>13, <3>1
  <2>4. Content(t) = Content(added) /\ Roomy(H, t)
    <3>1. CASE Cardinality(Held(added)) = LoadLimit(n)
      <4>1. t = Expand(added, sentence)
        BY <1>8, <1>13, <3>1
      <4>2. n \in Nat \ {0} /\ \A x \in H : Hashed(sentence, x)
        BY <1>1 DEF Hashing
      <4>3. t \in Table(H, 2 * n) /\ Content(t) = Content(added) /\ Cardinality(Held(t)) <= Cardinality(Held(added))
        BY <1>10, <4>1, <4>2, ExpandKeeps
      <4>4. 2 * n \in Nat /\ 2 * n >= 8
        BY <1>1
      <4>5. Cardinality(Held(t)) \in Nat
        BY <4>3, <4>4, TableSize, FS_CardinalityType
      <4>6. Cardinality(Held(t)) < LoadLimit(2 * n)
        BY <1>2, <3>1, <4>3, <4>5
      <4> QED BY <4>3, <4>4, <4>6 DEF Roomy
    <3>2. CASE Cardinality(Held(added)) # LoadLimit(n)
      <4>1. t = added
        BY <1>8, <1>13, <3>2
      <4>2. Cardinality(Held(added)) < LoadLimit(n)
        BY <1>1, <1>2, <1>3, <2>2, <3>2
      <4> QED BY <1>1, <1>10, <4>1, <4>2 DEF Roomy
    <3> QED BY <3>1, <3>2
  <2>5. \A x \in Content(active) \cup {h} : Dominated(sentence, Content(t), x)
    BY <1>11, <2>3, <2>4, DominatesItself
  <2> QED BY <2>3, <2>4, <2>5 DEF Keeps
<1> QED BY <1>12, <1>13


-----------------------------------------------------------------------------
(***************************************************************************)
(* A layer keeps, for every pair, one that scores no less behind the same  *)
(* two words.                                                              *)
(***************************************************************************)

Pathed(sentence, done) == {h \in Hypotheses : PathOf(sentence, h.path) /\ Len(h.path) = done}

LEMMA PathedHashing ==
  ASSUME NEW sentence \in Seq(Seq(Words)), NEW done
  PROVE  Hashing(sentence, Pathed(sentence, done))
<1> SUFFICES ASSUME NEW h \in Pathed(sentence, done) PROVE h.score \in Int /\ Hashed(sentence, h)
  BY DEF Hashing
<1>1. h \in Hypotheses /\ PathOf(sentence, h.path)
  BY DEF Pathed
<1>2. PICK n \in Nat : n = Len(h.path)
  BY <1>1 DEF PathOf
<1>3. PICK w1, w2 : w1 = WordAt(sentence, h.path, n - 1) /\ w2 = WordAt(sentence, h.path, n)
  OBVIOUS
<1>4. w1 \in Words \cup {Begin, End} /\ w2 \in Words \cup {Begin, End}
  <2>1. n - 1 \in Int /\ n - 1 <= Len(h.path) /\ n \in Int /\ n <= Len(h.path)
    BY <1>2
  <2> QED BY <1>1, <1>2, <1>3, <2>1, PathWordKnown
<1>5. JavaHash(w1) \in Int /\ JavaHash(w2) \in Int
  BY <1>4, HashesAssumption DEF Words
<1>6. LastTwo(sentence, h.path)[1] = w1 /\ LastTwo(sentence, h.path)[2] = w2
  BY <1>2, <1>3 DEF LastTwo
<1>7. h.score \in Int
  BY <1>1 DEF Hypotheses
<1> QED BY <1>5, <1>6, <1>7 DEF Hashed

Gathered(sentence, pairs, k, E) ==
  /\ E \subseteq Hypotheses
  /\ \A e \in E : \E j \in 1..k : Extends(sentence, pairs[j][2], pairs[j][1], e)
  /\ \A j \in 1..k : \A g \in Hypotheses :
       Extends(sentence, pairs[j][2], pairs[j][1], g) => Dominated(sentence, E, g)

LEMMA DominatedOn ==
  ASSUME NEW sentence, NEW E \in SUBSET Hypotheses, NEW F \in SUBSET Hypotheses,
         \A x \in E : Dominated(sentence, F, x), NEW g \in Hypotheses, Dominated(sentence, E, g)
  PROVE  Dominated(sentence, F, g)
<1>1. PICK e \in E : LastTwo(sentence, e.path) = LastTwo(sentence, g.path) /\ g.score <= e.score
  BY DEF Dominated
<1>2. PICK f \in F : LastTwo(sentence, f.path) = LastTwo(sentence, e.path) /\ e.score <= f.score
  BY DEF Dominated
<1>3. e.score \in Int /\ f.score \in Int /\ g.score \in Int
  BY DEF Hypotheses
<1>4. g.score <= f.score
  BY <1>1, <1>2, <1>3
<1> QED BY <1>1, <1>2, <1>4 DEF Dominated

LEMMA GatherMore ==
  ASSUME NEW sentence, NEW pairs, NEW k \in Nat, NEW E, Gathered(sentence, pairs, k, E), NEW j, j = k + 1,
         NEW h \in Hypotheses, Extends(sentence, pairs[j][2], pairs[j][1], h),
         NEW F, Keeps(sentence, E, h, F)
  PROVE  Gathered(sentence, pairs, j, F)
<1>1. F \subseteq E \cup {h} /\ \A x \in E \cup {h} : Dominated(sentence, F, x)
  BY DEF Keeps
<1>2. E \in SUBSET Hypotheses /\ F \in SUBSET Hypotheses
  BY <1>1 DEF Gathered
<1>3. \A i : i \in 1..j <=> i = j \/ i \in 1..k
  OBVIOUS
<1>4. ASSUME NEW e \in F PROVE \E i \in 1..j : Extends(sentence, pairs[i][2], pairs[i][1], e)
  <2>1. CASE e = h
    BY <1>3, <2>1
  <2>2. CASE e \in E
    <3>1. PICK i \in 1..k : Extends(sentence, pairs[i][2], pairs[i][1], e)
      BY <2>2 DEF Gathered
    <3> QED BY <1>3, <3>1
  <2> QED BY <1>1, <2>1, <2>2
<1>5. ASSUME NEW i \in 1..j, NEW g \in Hypotheses, Extends(sentence, pairs[i][2], pairs[i][1], g)
      PROVE  Dominated(sentence, F, g)
  <2>1. CASE i = j
    <3>1. g.path = h.path /\ g.score = h.score
      BY <1>5, <2>1 DEF Extends
    <3>2. Dominated(sentence, F, h)
      BY <1>1
    <3> QED BY <3>1, <3>2 DEF Dominated
  <2>2. CASE i \in 1..k
    <3>1. Dominated(sentence, E, g)
      BY <1>5, <2>2 DEF Gathered
    <3> QED BY <1>1, <1>2, <3>1, DominatedOn
  <2> QED BY <1>3, <2>1, <2>2
<1> QED BY <1>2, <1>4, <1>5 DEF Gathered

LEMMA NoneGathered == ASSUME NEW sentence, NEW pairs PROVE Gathered(sentence, pairs, 0, {})
BY DEF Gathered

LEMMA RoomyContent ==
  ASSUME NEW H, NEW active, Roomy(H, active)
  PROVE  Content(active) \subseteq H /\ ToSet(Listed(active)) = Content(active)
BY OwnContent, ListedHeld DEF Roomy

LEMMA HashGathers ==
  ASSUME NEW c, NEW sentence \in Seq(Seq(Words)), NEW done, NEW pairs, NEW n \in Nat, NEW layers,
         HashRun(c, sentence, done, pairs, n, layers)
  PROVE  /\ Roomy(Pathed(sentence, done), layers[n].table)
         /\ Gathered(sentence, pairs, n, Content(layers[n].table))
<1>1. PICK H : H = Pathed(sentence, done)
  OBVIOUS
<1>2. Hashing(sentence, H)
  BY <1>1, PathedHashing
<1> DEFINE Right(k) == Roomy(H, layers[k].table) /\ Gathered(sentence, pairs, k, Content(layers[k].table))
           T == {k \in Nat : k <= n => Right(k)}
<1>3. 0 \in T
  <2>1. layers[0].table = NewActive
    BY DEF HashRun
  <2> QED BY <2>1, NewRoomy, NoneGathered
<1>4. ASSUME NEW k \in Nat, k \in T PROVE k + 1 \in T
  <2> SUFFICES ASSUME k + 1 <= n PROVE Right(k + 1)
    OBVIOUS
  <2>1. Right(k)
    BY <1>4
  <2>2. PICK j \in 1..n : j = k + 1 /\ j - 1 = k
    OBVIOUS
  <2>3. HashAdds(sentence, done, layers[j - 1], pairs[j], layers[j])
    BY DEF HashRun
  <2>4. PICK table, more : table = layers[k].table /\ more = layers[j].table
    OBVIOUS
  <2>5. PICK g \in Hypotheses : /\ Extends(sentence, pairs[j][2], pairs[j][1], g)
                               /\ PathOf(sentence, g.path) /\ Len(g.path) = done
                               /\ more = Add(table, g, sentence)
    BY <2>2, <2>3, <2>4 DEF HashAdds
  <2>6. g \in H
    BY <1>1, <2>5 DEF Pathed
  <2>7. Roomy(H, table) /\ Gathered(sentence, pairs, k, Content(table))
    BY <2>1, <2>4
  <2>8. Roomy(H, more) /\ Keeps(sentence, Content(table), g, Content(more))
    BY <1>2, <2>5, <2>6, <2>7, AddKeeps
  <2>9. Gathered(sentence, pairs, j, Content(more))
    BY <2>2, <2>5, <2>7, <2>8, GatherMore
  <2> QED BY <2>2, <2>4, <2>8, <2>9
<1>5. Nat \subseteq T
  <2> HIDE DEF T
  <2> QED BY <1>3, <1>4, Numbers!Induct
<1>6. Right(n)
  <2>1. n \in T
    <3> HIDE DEF T
    <3> QED BY <1>5
  <2> HIDE DEF Right
  <2> QED BY <2>1
<1> QED BY <1>1, <1>6


\* A state of the dense decoder is the place of the last two candidates.
PairAt(path) == SubSeq(path, Max({1, Len(path) - 1}), Len(path))

LEMMA GreatestOf ==
  ASSUME NEW I \in SUBSET Int, NEW m \in I, \A x \in I : x <= m
  PROVE  Max(I) = m
<1>1. PICK x : x = Max(I)
  OBVIOUS
<1>2. x \in I /\ \A y \in I : x >= y
  BY <1>1 DEF Max
<1>3. x >= m /\ x <= m /\ x \in Int /\ m \in Int
  BY <1>2
<1> QED BY <1>1, <1>3

LEMMA Slice ==
  ASSUME NEW p \in Seq(Nat), NEW a \in 1..Len(p), NEW i \in 1..(Len(p) - a + 1)
  PROVE  SubSeq(p, a, Len(p))[i] = p[a + i - 1]
OBVIOUS

LEMMA PairWords ==
  ASSUME NEW sentence, NEW p \in Seq(Nat), NEW q \in Seq(Nat), NEW n \in Nat \ {0}, Len(p) = n, Len(q) = n,
         PairAt(p) = PairAt(q)
  PROVE  LastTwo(sentence, p) = LastTwo(sentence, q)
<1>1. PICK a : a = Max({1, n - 1})
  OBVIOUS
<1>2. a \in 1..n /\ n - a + 1 \in Nat /\ (n # 1 => a = n - 1)
  <2>1. CASE n = 1
    <3>1. {1, n - 1} \in SUBSET Int /\ 1 \in {1, n - 1} /\ \A x \in {1, n - 1} : x <= 1
      BY <2>1
    <3>2. a = 1
      BY <1>1, <3>1, GreatestOf
    <3> QED BY <2>1, <3>2
  <2>2. CASE n # 1
    <3>1. {1, n - 1} \in SUBSET Int /\ n - 1 \in {1, n - 1} /\ \A x \in {1, n - 1} : x <= n - 1
      BY <2>2
    <3>2. a = n - 1
      BY <1>1, <3>1, GreatestOf
    <3> QED BY <2>2, <3>2
  <2> QED BY <2>1, <2>2
<1>3. SubSeq(p, a, n) = SubSeq(q, a, n)
  BY <1>1 DEF PairAt
<1>4. ASSUME NEW j \in a..n PROVE p[j] = q[j]
  <2>1. PICK i \in 1..(n - a + 1) : i = j - a + 1 /\ a + i - 1 = j
    BY <1>2
  <2>2. SubSeq(p, a, n)[i] = p[j]
    BY <1>2, <2>1, Slice
  <2>3. SubSeq(q, a, n)[i] = q[j]
    BY <1>2, <2>1, Slice
  <2> QED BY <1>3, <2>2, <2>3
<1>5. WordAt(sentence, p, n) = WordAt(sentence, q, n)
  BY <1>2, <1>4 DEF WordAt
<1>6. WordAt(sentence, p, n - 1) = WordAt(sentence, q, n - 1)
  <2>1. CASE n = 1
    BY <2>1 DEF WordAt
  <2>2. CASE n # 1
    <3>1. n - 1 \in a..n
      BY <1>2, <2>2
    <3> QED BY <1>4, <3>1 DEF WordAt
  <2> QED BY <2>1, <2>2
<1> QED BY <1>5, <1>6 DEF LastTwo

\* A merge that is no tie keeps the better one of a state.
LEMMA MergeKeeps ==
  ASSUME NEW sentence, NEW done \in Nat \ {0}, NEW H, H \subseteq Pathed(sentence, done),
         NEW active \in Seq(H), NEW h \in H, NEW d,
         NEW layer, layer = [cache |-> d, active |-> active, tied |-> FALSE],
         NEW m, m = DenseMerge(layer, h), ~m.tied
  PROVE  m.active \in Seq(H) /\ Keeps(sentence, ToSet(active), h, ToSet(m.active))
<1> DEFINE LastPair(path) == SubSeq(path, Max({1, Len(path) - 1}), Len(path))
           Same(e) == LastPair(e.path) = LastPair(h.path)
<1>1. PICK at : at = SelectInSeq(active, Same)
  OBVIOUS
<1>2. \A path : LastPair(path) = PairAt(path)
  BY DEF PairAt
<1>3. at # 0 => at \in 1..Len(active) /\ Same(active[at])
  <2> SUFFICES ASSUME at # 0 PROVE at \in 1..Len(active) /\ Same(active[at])
    OBVIOUS
  <2> HIDE DEF LastPair, Same
  <2>1. PICK I : I = {i \in 1..Len(active) : Same(active[i])}
    OBVIOUS
  <2>2. at = IF I # {} THEN Min(I) ELSE 0
    BY <1>1, <2>1 DEF SelectInSeq
  <2>3. I \in SUBSET Nat
    BY <2>1
  <2>4. at \in I
    BY <2>2, <2>3, LeastOf
  <2> QED BY <2>1, <2>4
<1>4. PICK n \in Nat : n = Len(active)
  OBVIOUS
<1>5. active \in [1..n -> H] /\ DOMAIN active = 1..n /\ ToSet(active) = {active[i] : i \in 1..n}
  BY <1>4 DEF ToSet
<1>6. \A e \in H : e.score \in Int /\ e.path \in Seq(Nat) /\ Len(e.path) = done
  BY DEF Pathed, Hypotheses
<1>7. at # 0 => at \in 1..n /\ LastTwo(sentence, active[at].path) = LastTwo(sentence, h.path)
  <2> SUFFICES ASSUME at # 0 PROVE at \in 1..n /\ LastTwo(sentence, active[at].path) = LastTwo(sentence, h.path)
    OBVIOUS
  <2>1. at \in 1..n /\ active[at] \in H
    BY <1>3, <1>4, <1>5
  <2>2. PairAt(active[at].path) = PairAt(h.path)
    <3>1. LastPair(active[at].path) = LastPair(h.path)
      BY <1>3
    <3> HIDE DEF LastPair
    <3> QED BY <1>2, <3>1
  <2> QED BY <1>6, <2>1, <2>2, PairWords
<1> HIDE DEF LastPair, Same
<1>8. PICK longer, other : longer = Append(active, h) /\ other = Replace(active, at, h)
  OBVIOUS
<1>9. /\ at = 0 => m.active = longer
      /\ at # 0 => active[at].score # h.score
      /\ at # 0 /\ active[at].score < h.score => m.active = other
      /\ at # 0 /\ ~(active[at].score < h.score) => m.active = active
  <2>1. layer.active = active
    OBVIOUS
  <2>2. PICK no, yes : no = FALSE /\ yes = TRUE
    OBVIOUS
  <2>3. PICK grown, tied, changed : /\ grown = Merged(layer, longer, no) /\ tied = Merged(layer, active, yes)
                                    /\ changed = Merged(layer, other, no)
    OBVIOUS
  <2>4. grown.active = longer /\ tied.tied = yes /\ changed.active = other
    BY <2>3 DEF Merged
  <2>5. m = CASE at = 0 -> grown
              [] at # 0 /\ active[at].score = h.score -> tied
              [] at # 0 /\ active[at].score < h.score -> changed
              [] OTHER -> layer
    BY <1>1, <1>8, <2>1, <2>2, <2>3, Zenon DEF DenseMerge, LastPair, Same
  <2>6. \/ at = 0 /\ m = grown
        \/ at # 0 /\ active[at].score = h.score /\ m = tied
        \/ at # 0 /\ active[at].score # h.score /\ active[at].score < h.score /\ m = changed
        \/ at # 0 /\ active[at].score # h.score /\ ~(active[at].score < h.score) /\ m = layer
    <3>1. at # 0 => active[at].score \in Int /\ h.score \in Int
      BY <1>5, <1>6, <1>7
    <3>2. PICK x, y : x = active[at].score /\ y = h.score
      OBVIOUS
    <3>3. m = CASE at = 0 -> grown
                [] at # 0 /\ x = y -> tied
                [] at # 0 /\ x < y -> changed
                [] OTHER -> layer
      BY <2>5, <3>2
    <3>4. at # 0 => ~(x = y /\ x < y)
      BY <3>1, <3>2
    <3> QED BY <3>2, <3>3, <3>4
  <2> QED BY <2>1, <2>2, <2>4, <2>6
<1>10. CASE at = 0
  <2>1. m.active = longer
    BY <1>9, <1>10
  <2>2. longer \in Seq(H) /\ Len(longer) = n + 1 /\ longer[n + 1] = h /\ \A i \in 1..n : longer[i] = active[i]
    BY <1>4, <1>8, AppendProperties
  <2>3. ToSet(longer) = ToSet(active) \cup {h}
    <3>1. DOMAIN longer = 1..(n + 1)
      BY <2>2
    <3>2. \A i : i \in 1..(n + 1) <=> i = n + 1 \/ i \in 1..n
      OBVIOUS
    <3>3. ToSet(longer) = {longer[i] : i \in 1..(n + 1)}
      BY <3>1 DEF ToSet
    <3> QED BY <1>5, <2>2, <3>2, <3>3
  <2>4. \A x \in ToSet(active) \cup {h} : x.score \in Int
    BY <1>5, <1>6
  <2>5. \A x \in ToSet(active) \cup {h} : Dominated(sentence, ToSet(longer), x)
    BY <2>3, <2>4, DominatesItself
  <2> QED BY <2>1, <2>2, <2>3, <2>5 DEF Keeps
<1>11. CASE at # 0 /\ active[at].score < h.score
  <2>1. m.active = other
    BY <1>9, <1>11
  <2>2. other = [i \in 1..n |-> IF i = at THEN h ELSE active[i]]
    BY <1>5, <1>8 DEF Replace
  <2>3. other \in Seq(H)
    BY <1>5, <2>2
  <2>4. ToSet(other) = {other[i] : i \in 1..n}
    BY <2>2 DEF ToSet
  <2>5. other[at] = h /\ h \in ToSet(other) /\ \A i \in 1..n : i # at => other[i] = active[i]
    BY <1>7, <1>11, <2>2, <2>4
  <2>6. ToSet(other) \subseteq ToSet(active) \cup {h}
    BY <1>5, <2>4, <2>5
  <2>7. Dominated(sentence, ToSet(other), h)
    BY <1>6, <2>5, DominatesItself
  <2>8. ASSUME NEW i \in 1..n PROVE Dominated(sentence, ToSet(other), active[i])
    <3>1. CASE i = at
      <4>1. active[i].score <= h.score
        BY <1>5, <1>6, <1>11, <3>1
      <4> QED BY <1>7, <1>11, <2>5, <3>1, <4>1 DEF Dominated
    <3>2. CASE i # at
      <4>1. active[i] \in ToSet(other) /\ active[i].score \in Int
        BY <1>5, <1>6, <2>4, <2>5, <3>2
      <4> QED BY <4>1, DominatesItself
    <3> QED BY <3>1, <3>2
  <2> QED BY <1>5, <2>1, <2>3, <2>6, <2>7, <2>8 DEF Keeps
<1>12. CASE at # 0 /\ ~(active[at].score < h.score)
  <2>1. m.active = active
    BY <1>9, <1>12
  <2>2. active[at] \in ToSet(active) /\ active[at] \in H
    BY <1>5, <1>7, <1>12
  <2>3. h.score <= active[at].score
    BY <1>6, <1>12, <2>2
  <2>4. Dominated(sentence, ToSet(active), h)
    BY <1>7, <1>12, <2>2, <2>3 DEF Dominated
  <2>5. \A x \in ToSet(active) : x.score \in Int
    BY <1>5, <1>6
  <2>6. \A x \in ToSet(active) : Dominated(sentence, ToSet(active), x)
    BY <2>5, DominatesItself
  <2> QED BY <2>1, <2>4, <2>6 DEF Keeps
<1> QED BY <1>10, <1>11, <1>12


LEMMA DenseGathers ==
  ASSUME NEW c, NEW sentence \in Seq(Seq(Words)), NEW done \in Nat \ {0}, NEW pairs, NEW n \in Nat, NEW layers,
         DenseRun(c, sentence, done, pairs, n, layers), ~layers[n].tied
  PROVE  Gathered(sentence, pairs, n, ToSet(layers[n].active))
<1>1. PICK H : H = Pathed(sentence, done)
  OBVIOUS
<1> DEFINE Right(k) == ~layers[k].tied => /\ layers[k].active \in Seq(H)
                                          /\ Gathered(sentence, pairs, k, ToSet(layers[k].active))
           T == {k \in Nat : k <= n => Right(k)}
<1>2. 0 \in T
  <2>1. layers[0].active = <<>>
    BY DEF DenseRun
  <2>2. <<>> \in Seq(H) /\ ToSet(<<>>) = {}
    BY DEF ToSet
  <2> QED BY <2>1, <2>2, NoneGathered
<1>3. ASSUME NEW k \in Nat, k \in T PROVE k + 1 \in T
  <2> SUFFICES ASSUME k + 1 <= n PROVE Right(k + 1)
    OBVIOUS
  <2>1. Right(k)
    BY <1>3
  <2>2. PICK j \in 1..n : j = k + 1 /\ j - 1 = k
    OBVIOUS
  <2>3. DenseAdds(sentence, done, layers[j - 1], pairs[j], layers[j])
    BY DEF DenseRun
  <2>4. PICK layer, next : layer = layers[k] /\ next = layers[j]
    OBVIOUS
  <2>5. CASE layer.tied
    <3>1. next = layer
      BY <2>2, <2>3, <2>4, <2>5 DEF DenseAdds
    <3> QED BY <2>2, <2>4, <2>5, <3>1
  <2>6. CASE ~layer.tied
    <3>1. PICK d : \E g \in Hypotheses :
            /\ Extends(sentence, pairs[j][2], pairs[j][1], g)
            /\ PathOf(sentence, g.path) /\ Len(g.path) = done
            /\ next = DenseMerge([cache |-> d, active |-> layer.active, tied |-> FALSE], g)
      BY <2>2, <2>3, <2>4, <2>6 DEF DenseAdds
    <3>2. PICK g \in Hypotheses :
            /\ Extends(sentence, pairs[j][2], pairs[j][1], g)
            /\ PathOf(sentence, g.path) /\ Len(g.path) = done
            /\ next = DenseMerge([cache |-> d, active |-> layer.active, tied |-> FALSE], g)
      BY <3>1
    <3>3. g \in H /\ H \subseteq Pathed(sentence, done)
      BY <1>1, <3>2 DEF Pathed
    <3>4. layer.active \in Seq(H) /\ Gathered(sentence, pairs, k, ToSet(layer.active))
      BY <2>1, <2>4, <2>6
    <3>5. PICK moved : moved = [cache |-> d, active |-> layer.active, tied |-> FALSE]
      OBVIOUS
    <3>6. ~next.tied => next.active \in Seq(H) /\ Keeps(sentence, ToSet(layer.active), g, ToSet(next.active))
      BY <3>2, <3>3, <3>4, <3>5, MergeKeeps
    <3>7. ~next.tied => Gathered(sentence, pairs, j, ToSet(next.active))
      BY <2>2, <3>2, <3>4, <3>6, GatherMore
    <3> QED BY <2>2, <2>4, <3>6, <3>7
  <2> QED BY <2>5, <2>6
<1>4. Nat \subseteq T
  <2> HIDE DEF T
  <2> QED BY <1>2, <1>3, Numbers!Induct
<1>5. Right(n)
  <2>1. n \in T
    <3> HIDE DEF T
    <3> QED BY <1>4
  <2> HIDE DEF Right
  <2> QED BY <2>1
<1> QED BY <1>5

\* What a layer makes of the hypotheses before it.
Covers(sentence, done, A, E) ==
  /\ E \subseteq Hypotheses
  /\ \A e \in E : \E h \in A : \E a \in 1..Len(sentence[done + 1]) : Extends(sentence, h, a, e)
  /\ \A h \in A : \A a \in 1..Len(sentence[done + 1]) : \A g \in Hypotheses :
       Extends(sentence, h, a, g) => Dominated(sentence, E, g)

AllPairs(A, m, pairs, n) ==
  /\ \A j \in 1..n : pairs[j][1] \in 1..m /\ pairs[j][2] \in A
  /\ \A a \in 1..m : \A h \in A : \E j \in 1..n : pairs[j][1] = a /\ pairs[j][2] = h

LEMMA PairsAll ==
  ASSUME NEW H, NEW active \in Seq(H), NEW m \in Nat, NEW pairs, pairs = Pairs(active, m)
  PROVE  AllPairs(ToSet(active), m, pairs, Len(pairs))
<1>1. PICK A : A = ToSet(active)
  BY SMTT(60)
<1>2. PICK l \in Nat : l = Len(active) /\ DOMAIN active = 1..l /\ active \in Seq(A) /\ A = {active[k] : k \in 1..l}
  <2>1. PICK l \in Nat : l = Len(active) /\ active \in [1..l -> H]
    OBVIOUS
  <2>2. DOMAIN active = 1..l
    BY <2>1
  <2>3. A = {active[k] : k \in 1..l}
    BY <1>1, <2>2 DEF ToSet
  <2>4. active \in Seq(A)
    <3>1. active = [k \in 1..l |-> active[k]]
      BY <2>1
    <3>2. \A k \in 1..l : active[k] \in A
      BY <2>3
    <3>3. active \in [1..l -> A]
      BY <3>1, <3>2
    <3> QED BY <3>3
  <2> QED BY <2>1, <2>2, <2>3, <2>4, Zenon
<1>3. pairs \in Seq((1..m) \X A)
  BY <1>2, PairsOf
<1>4. PICK S : S = (1..m) \X A
  OBVIOUS
<1>5. PICK seqs : seqs = [a \in 1..m |-> [k \in 1..l |-> <<a, active[k]>>]]
  OBVIOUS
<1>6. seqs \in Seq(Seq(S)) /\ Len(seqs) = m
  <2>1. \A a \in 1..m : [k \in 1..l |-> <<a, active[k]>>] \in Seq(S)
    <3> SUFFICES ASSUME NEW a \in 1..m PROVE [k \in 1..l |-> <<a, active[k]>>] \in Seq(S)
      OBVIOUS
    <3>1. \A k \in 1..l : <<a, active[k]>> \in S
      BY <1>2, <1>4
    <3> QED BY <3>1
  <2> QED BY <1>5, <2>1
<1>7. pairs = FlattenSeq(seqs)
  BY <1>2, <1>5 DEF Pairs
<1>8. ASSUME NEW a \in 1..m, NEW h \in A PROVE \E j \in 1..Len(pairs) : pairs[j][1] = a /\ pairs[j][2] = h
  <2>1. PICK k \in 1..l : h = active[k]
    BY <1>2
  <2>2. PICK s : s = seqs[a]
    OBVIOUS
  <2>3. s = [i \in 1..l |-> <<a, active[i]>>]
    BY <1>5, <2>2
  <2>4. <<a, h>> \in ToSet(s)
    BY <2>1, <2>3 DEF ToSet
  <2>5. <<a, h>> \in ToSet(pairs)
    <3>1. ToSet(s) \subseteq ToSet(FlattenSeq(seqs))
      BY <1>6, <2>2, Flattened
    <3> QED BY <1>7, <2>4, <3>1
  <2>6. PICK j \in 1..Len(pairs) : pairs[j] = <<a, h>>
    BY <1>3, <2>5 DEF ToSet
  <2> QED BY <2>6, SMT
<1>9. ASSUME NEW j \in 1..Len(pairs) PROVE pairs[j][1] \in 1..m /\ pairs[j][2] \in A
  <2>1. pairs[j] \in (1..m) \X A
    BY <1>3, ElementOfSeq
  <2> QED BY <2>1
<1> QED BY <1>1, <1>8, <1>9 DEF AllPairs

LEMMA Covered ==
  ASSUME NEW sentence, NEW done, NEW H, NEW active \in Seq(H), NEW m \in Nat, m = Len(sentence[done + 1]),
         NEW pairs, pairs = Pairs(active, m), NEW n, n = Len(pairs), NEW E, Gathered(sentence, pairs, n, E)
  PROVE  Covers(sentence, done, ToSet(active), E)
<1>1. /\ \A j \in 1..n : pairs[j][1] \in 1..m /\ pairs[j][2] \in ToSet(active)
      /\ \A a \in 1..m : \A h \in ToSet(active) : \E j \in 1..n : pairs[j][1] = a /\ pairs[j][2] = h
  <2>1. AllPairs(ToSet(active), m, pairs, Len(pairs))
    BY PairsAll
  <2> QED BY <2>1 DEF AllPairs
<1>2. ASSUME NEW e \in E PROVE \E h \in ToSet(active) : \E a \in 1..m : Extends(sentence, h, a, e)
  <2>1. PICK j \in 1..n : Extends(sentence, pairs[j][2], pairs[j][1], e)
    BY DEF Gathered
  <2> QED BY <1>1, <2>1
<1>3. ASSUME NEW h \in ToSet(active), NEW a \in 1..m, NEW g \in Hypotheses, Extends(sentence, h, a, g)
      PROVE  Dominated(sentence, E, g)
  <2>1. PICK j \in 1..n : pairs[j][1] = a /\ pairs[j][2] = h
    BY <1>1
  <2>2. Extends(sentence, pairs[j][2], pairs[j][1], g)
    BY <1>3, <2>1
  <2> QED BY <2>2 DEF Gathered
<1>4. E \subseteq Hypotheses
  BY DEF Gathered
<1> QED BY <1>2, <1>3, <1>4 DEF Covers

LEMMA LayerCovers ==
  ASSUME NEW c, Good(c), NEW k, UnderWay(c, k), k.done < Len(k.sentence), k.decoder # "causal",
         NEW l, l = Layer(k, c), ~l.tied
  PROVE  Covers(k.sentence, k.done, ToSet(k.active), ToSet(l.active))
<1>1. PICK call, sentence, done, active :
        call = k.call /\ sentence = k.sentence /\ done = k.done /\ active = k.active
  OBVIOUS
<1>2. PICK m : m = Len(sentence[done + 1])
  OBVIOUS
<1>3. Extending(c, call, sentence, done) /\ active \in Seq(Followers(c, sentence, done))
  BY <1>1, UnderWayReady DEF Extending
<1>4. m \in Nat /\ done \in Nat /\ done + 1 \in Nat \ {0} /\ sentence \in Seq(Seq(Words))
  BY <1>2, <1>3 DEF Extending, Ready
<1>5. PICK pairs : pairs = Pairs(active, m)
  OBVIOUS
<1>6. pairs \in Seq(PairOf(c, sentence, done))
  BY <1>2, <1>3, <1>4, <1>5, PairsOf DEF PairOf
<1>7. PICK n \in Nat : n = Len(pairs)
  BY <1>6, Length
<1>8. k.decoder \in {"hash", "dense", "causal"}
  BY DEF UnderWay, CallRecords
<1>9. CASE k.decoder = "hash"
  <2>1. PICK all : all = HashAll(call, c, sentence, pairs)
    OBVIOUS
  <2>2. l.active = Listed(all.table)
    <3>1. l = HashLayer(call, c, sentence, active, m)
      BY <1>1, <1>2, <1>9 DEF Layer
    <3> QED BY <1>5, <2>1, <3>1 DEF HashLayer, HashEnded
  <2>3. PICK layers : HashRun(c, sentence, done + 1, pairs, n, layers) /\ HashAll(call, c, sentence, pairs) = layers[n]
    BY <1>3, <1>6, <1>7, HashRuns
  <2>4. /\ Roomy(Pathed(sentence, done + 1), layers[n].table)
        /\ Gathered(sentence, pairs, n, Content(layers[n].table))
    BY <1>4, <2>3, HashGathers
  <2>5. ToSet(l.active) = Content(layers[n].table)
    BY <2>1, <2>2, <2>3, <2>4, RoomyContent
  <2>6. Covers(sentence, done, ToSet(active), ToSet(l.active))
    BY <1>2, <1>3, <1>4, <1>5, <1>7, <2>4, <2>5, Covered
  <2> QED BY <1>1, <2>6
<1>10. CASE k.decoder = "dense"
  <2>1. l = DenseAll(call, c, sentence, pairs)
    <3>1. l = DenseLayer(call, c, sentence, active, m)
      BY <1>1, <1>2, <1>10 DEF Layer
    <3> QED BY <1>5, <3>1 DEF DenseLayer
  <2>2. PICK layers : DenseRun(c, sentence, done + 1, pairs, n, layers) /\ DenseAll(call, c, sentence, pairs) = layers[n]
    BY <1>3, <1>6, <1>7, DenseRuns
  <2>3. Gathered(sentence, pairs, n, ToSet(layers[n].active))
    BY <1>4, <2>1, <2>2, DenseGathers
  <2>4. Covers(sentence, done, ToSet(active), ToSet(l.active))
    BY <1>2, <1>3, <1>4, <1>5, <1>7, <2>1, <2>2, <2>3, Covered
  <2> QED BY <1>1, <2>4
<1> QED BY <1>8, <1>9, <1>10


-----------------------------------------------------------------------------
(***************************************************************************)
(* A Viterbi call has, for every path of the tokens it is past, one that   *)
(* scores no less behind the same two words.                               *)
(***************************************************************************)

BestKept(sentence, done, A) ==
  /\ \A h \in A : h.score = SumOf(sentence, h.path)
  /\ \A p : PathOf(sentence, p) /\ Len(p) = done =>
       \E h \in A : LastTwo(sentence, h.path) = LastTwo(sentence, p) /\ SumOf(sentence, p) <= h.score

LEMMA SumOfNone == ASSUME NEW sentence PROVE SumOf(sentence, <<>>) = 0
<1>1. PICK n \in Nat : n = 0
  OBVIOUS
<1>2. PICK w : w = FactorsOf(sentence, <<>>, n)
  OBVIOUS
<1>3. w \in Weights(n)
  BY <1>1, <1>2 DEF FactorsOf, Weights
<1>4. PICK s : SumsOf(s, w, n) /\ Total(w) = s[n]
  BY <1>3, TotalSums
<1>5. Total(w) = 0
  BY <1>1, <1>4 DEF SumsOf
<1>6. Len(<<>>) = n
  BY <1>1
<1> QED BY <1>2, <1>5, <1>6 DEF SumOf

LEMMA RootBest == ASSUME NEW sentence, NEW row, NEW A, A = {Root(row)} PROVE BestKept(sentence, 0, A)
<1>1. PICK root : root = Root(row) /\ A = {root}
  OBVIOUS
<1>2. root.path = <<>> /\ root.score = 0
  BY <1>1 DEF Root
<1>3. root.score = SumOf(sentence, root.path)
  BY <1>2, SumOfNone
<1>4. ASSUME NEW p, PathOf(sentence, p), Len(p) = 0 PROVE p = <<>>
  <2>1. p \in Seq(Nat)
    BY <1>4 DEF PathOf
  <2> QED BY <1>4, <2>1
<1>5. SumOf(sentence, <<>>) <= root.score
  BY <1>2, SumOfNone
<1> QED BY <1>1, <1>2, <1>3, <1>4, <1>5 DEF BestKept

\* A path and the candidate it goes on with.
Split(sentence, p, m, q, a) ==
  a \in 1..Len(sentence[m + 1]) /\ PathOf(sentence, q) /\ Len(q) = m /\ p = Append(q, a)

LEMMA PathSplit ==
  ASSUME NEW sentence \in Seq(Seq(Words)), NEW p, PathOf(sentence, p), NEW m \in Nat, Len(p) = m + 1
  PROVE  \E q, a : Split(sentence, p, m, q, a)
<1>1. PICK q : q = SubSeq(p, 1, m)
  OBVIOUS
<1>2. PathOf(sentence, q) /\ Len(q) = m /\ \A j \in 1..m : q[j] = p[j]
  <2>1. m <= Len(p)
    OBVIOUS
  <2> QED BY <1>1, <2>1, PrefixPath, ZenonT(30)
<1>3. PICK a : a = p[m + 1]
  OBVIOUS
<1>4. a \in 1..Len(sentence[m + 1]) /\ p \in Seq(Nat) /\ q \in Seq(Nat)
  BY <1>2, <1>3 DEF PathOf
<1>5. a \in Nat
  <2>1. m + 1 \in DOMAIN p
    BY <1>4
  <2> QED BY <1>3, <1>4, <2>1
<1>6. PICK r : r = Append(q, a)
  OBVIOUS
<1>7. r \in Seq(Nat) /\ Len(r) = m + 1 /\ r[m + 1] = a /\ \A j \in 1..m : r[j] = q[j]
  BY <1>2, <1>4, <1>5, <1>6, AppendProperties
<1>8. \A j \in 1..(m + 1) : r[j] = p[j]
  <2>1. \A j \in 1..(m + 1) : j = m + 1 \/ j \in 1..m
    OBVIOUS
  <2> QED BY <1>2, <1>3, <1>7, <2>1
<1>9. r = [j \in 1..(m + 1) |-> r[j]] /\ p = [j \in 1..(m + 1) |-> p[j]]
  BY <1>4, <1>7
<1>10. r = p
  BY <1>8, <1>9
<1> QED BY <1>2, <1>4, <1>6, <1>10 DEF Split

LEMMA LayerBest ==
  ASSUME NEW sentence \in Seq(Seq(Words)), NEW done \in Nat, done < Len(sentence),
         NEW A, A \subseteq Pathed(sentence, done), BestKept(sentence, done, A),
         NEW E, Covers(sentence, done, A, E)
  PROVE  BestKept(sentence, done + 1, E)
<1>1. PICK i \in Nat : i = done + 1
  OBVIOUS
<1>2. ASSUME NEW h \in A
      PROVE  /\ PathOf(sentence, h.path) /\ Len(h.path) = done /\ h.score = SumOf(sentence, h.path)
             /\ h.path \in Seq(Nat) /\ h.score \in Int
  <2>1. h \in Hypotheses /\ PathOf(sentence, h.path) /\ Len(h.path) = done
    BY DEF Pathed
  <2> QED BY <2>1 DEF BestKept, Hypotheses
<1>3. ASSUME NEW e \in E PROVE e.score = SumOf(sentence, e.path)
  <2>1. PICK h \in A, a \in 1..Len(sentence[i]) : Extends(sentence, h, a, e)
    BY <1>1 DEF Covers
  <2>2. PICK path : path = h.path
    OBVIOUS
  <2>3. SumOf(sentence, Append(path, a)) = SumOf(sentence, path) + NextScore(sentence, path, a)
    BY <1>1, <1>2, <2>1, <2>2, SumAdded
  <2> QED BY <1>2, <2>1, <2>2, <2>3 DEF Extends
<1>4. ASSUME NEW p, PathOf(sentence, p), Len(p) = i
      PROVE  \E e \in E : LastTwo(sentence, e.path) = LastTwo(sentence, p) /\ SumOf(sentence, p) <= e.score
  <2>0. PICK q, a : Split(sentence, p, done, q, a)
    <3>1. Len(p) = done + 1
      BY <1>1, <1>4
    <3> QED BY <1>4, <3>1, PathSplit
  <2>1. a \in 1..Len(sentence[i]) /\ PathOf(sentence, q) /\ Len(q) = done /\ p = Append(q, a)
    BY <1>1, <2>0 DEF Split
  <2>2. PICK h \in A : LastTwo(sentence, h.path) = LastTwo(sentence, q) /\ SumOf(sentence, q) <= h.score
    BY <2>1 DEF BestKept
  <2>3. PICK path : path = h.path
    OBVIOUS
  <2>4. PathOf(sentence, path) /\ Len(path) = done /\ path \in Seq(Nat) /\ q \in Seq(Nat) /\ h.score \in Int
    BY <1>2, <2>1, <2>3 DEF PathOf
  <2>5. PICK next : next = NextScore(sentence, path, a)
    OBVIOUS
  <2>6. next = NextScore(sentence, q, a)
    BY <2>1, <2>2, <2>3, <2>4, <2>5, NextAlike, ZenonT(60)
  <2>7. next \in Int
    <3>1. Len(path) < Len(sentence) /\ a \in 1..Len(sentence[Len(path) + 1])
      BY <1>1, <2>1, <2>4
    <3> QED BY <2>4, <2>5, <3>1, NextScoreTyped
  <2>8. SumOf(sentence, p) = SumOf(sentence, q) + next /\ SumOf(sentence, q) \in Int
    BY <1>1, <2>1, <2>6, SumAdded
  <2>9. PICK longer, score : longer = Append(path, a) /\ score = h.score + next
    OBVIOUS
  <2>10. longer \in Seq(Nat) /\ score \in Int
    <3>1. a \in Nat
      BY <2>1
    <3> QED BY <2>4, <2>7, <2>9, <3>1, AppendProperties
  <2>11. PICK g \in Hypotheses : g.path = longer /\ g.score = score
    <3>1. [path |-> longer, row |-> 0, score |-> score] \in Hypotheses
      BY <2>10 DEF Hypotheses
    <3> QED BY <3>1
  <2>12. Extends(sentence, h, a, g)
    BY <2>3, <2>5, <2>9, <2>11 DEF Extends
  <2>13. Dominated(sentence, E, g)
    BY <1>1, <2>1, <2>12 DEF Covers
  <2>14. PICK e \in E : LastTwo(sentence, e.path) = LastTwo(sentence, longer) /\ score <= e.score
    BY <2>11, <2>13 DEF Dominated
  <2>15. e.score \in Int
    BY DEF Covers, Hypotheses
  <2>16. LastTwo(sentence, longer) = LastTwo(sentence, p)
    <3>1. LastTwo(sentence, longer) = <<WordAt(sentence, path, done), sentence[i][a]>>
      <4>1. Len(path) < Len(sentence) /\ a \in 1..Len(sentence[Len(path) + 1]) /\ i = Len(path) + 1
        BY <1>1, <2>1, <2>4
      <4>2. LastTwo(sentence, longer) = <<WordAt(sentence, path, Len(path)), sentence[Len(path) + 1][a]>>
        BY <2>4, <2>9, <4>1, PathLonger
      <4> QED BY <2>4, <4>1, <4>2
    <3>2. LastTwo(sentence, p) = <<WordAt(sentence, q, done), sentence[i][a]>>
      <4>1. Len(q) < Len(sentence) /\ a \in 1..Len(sentence[Len(q) + 1]) /\ i = Len(q) + 1
        BY <1>1, <2>1
      <4>2. LastTwo(sentence, p) = <<WordAt(sentence, q, Len(q)), sentence[Len(q) + 1][a]>>
        BY <2>1, <4>1, PathLonger
      <4> QED BY <2>1, <4>1, <4>2
    <3>3. WordAt(sentence, path, done) = WordAt(sentence, q, done)
      <4>1. PICK x, y, u, v : x = WordAt(sentence, path, done - 1) /\ y = WordAt(sentence, path, done)
                              /\ u = WordAt(sentence, q, done - 1) /\ v = WordAt(sentence, q, done)
        OBVIOUS
      <4>2. LastTwo(sentence, path) = <<x, y>> /\ LastTwo(sentence, q) = <<u, v>>
        BY <2>1, <2>4, <4>1 DEF LastTwo
      <4>3. <<x, y>> = <<u, v>>
        BY <2>2, <2>3, <4>2, Zenon
      <4> QED BY <4>1, <4>3
    <3> QED BY <3>1, <3>2, <3>3
  <2>17. SumOf(sentence, p) <= e.score
    <3>1. PICK x, y, z : x = SumOf(sentence, q) /\ y = h.score /\ z = e.score
      OBVIOUS
    <3>2. x \in Int /\ y \in Int /\ z \in Int /\ x <= y /\ y + next <= z
      BY <2>2, <2>4, <2>8, <2>9, <2>14, <2>15, <3>1
    <3>3. x + next <= z
      BY <2>7, <3>2
    <3> QED BY <2>8, <3>1, <3>3
  <2> QED BY <2>14, <2>16, <2>17
<1> QED BY <1>1, <1>3, <1>4 DEF BestKept

\* The end, where nothing is tied: every hypothesis with what the end scores.
EndedOf(sentence, active, i, so) ==
  ~so.tied => /\ Len(so.active) = i
              /\ \A j \in 1..i : /\ so.active[j].path = active[j].path
                                 /\ so.active[j].score = active[j].score + EndScore(sentence, active[j].path)

LEMMA EndedMore ==
  ASSUME NEW c, NEW sentence, NEW active, NEW i \in Nat, NEW j, j = i + 1,
         NEW so \in EndLayers(c), EndedOf(sentence, active, i, so),
         NEW next, EndAdds(sentence, so, active[j], next)
  PROVE  EndedOf(sentence, active, j, next)
<1>1. CASE so.tied
  <2>1. next = so
    BY <1>1 DEF EndAdds
  <2> QED BY <1>1, <2>1 DEF EndedOf
<1>2. CASE ~so.tied
  <2>1. PICK h : h = active[j]
    OBVIOUS
  <2>2. PICK g \in Hypotheses : /\ g.path = h.path /\ g.score = h.score + EndScore(sentence, h.path)
                                /\ next.active = Append(so.active, g)
    BY <1>2, <2>1 DEF EndAdds
  <2>3. PICK a : a = so.active
    OBVIOUS
  <2>4. a \in Seq(Hypotheses) /\ Len(a) = i
    BY <1>2, <2>3 DEF EndLayers, EndedOf
  <2>5. PICK b : b = Append(a, g)
    OBVIOUS
  <2>6. Len(b) = j /\ b[j] = g /\ \A m \in 1..i : b[m] = a[m]
    BY <2>4, <2>5, AppendProperties
  <2>7. next.active = b
    BY <2>2, <2>3, <2>5
  <2>8. ASSUME NEW m \in 1..j
        PROVE  b[m].path = active[m].path /\ b[m].score = active[m].score + EndScore(sentence, active[m].path)
    <3>1. CASE m = j
      BY <2>1, <2>2, <2>6, <3>1
    <3>2. CASE m # j
      <4>1. m \in 1..i
        BY <3>2
      <4>2. a[m].path = active[m].path /\ a[m].score = active[m].score + EndScore(sentence, active[m].path)
        BY <1>2, <2>3, <4>1 DEF EndedOf
      <4> QED BY <2>6, <4>1, <4>2
    <3> QED BY <3>1, <3>2
  <2> QED BY <2>6, <2>7, <2>8 DEF EndedOf
<1> QED BY <1>1, <1>2

LEMMA EndedAll ==
  ASSUME NEW c, NEW sentence, NEW active, NEW n \in Nat, NEW ended, EndRun(c, sentence, active, n, ended)
  PROVE  EndedOf(sentence, active, n, ended[n]) /\ ended[n] \in EndLayers(c)
<1> DEFINE T == {k \in Nat : k <= n => EndedOf(sentence, active, k, ended[k])}
<1>1. 0 \in T
  <2>1. ended[0].active = <<>>
    BY DEF EndRun
  <2>2. EndedOf(sentence, active, 0, ended[0])
    BY <2>1 DEF EndedOf
  <2> QED BY <2>2
<1>2. ASSUME NEW k \in Nat, k \in T PROVE k + 1 \in T
  <2> SUFFICES ASSUME k + 1 <= n PROVE EndedOf(sentence, active, k + 1, ended[k + 1])
    OBVIOUS
  <2>1. EndedOf(sentence, active, k, ended[k])
    BY <1>2
  <2>2. PICK j \in 1..n : j = k + 1 /\ j - 1 = k /\ k \in 0..n
    OBVIOUS
  <2>3. EndAdds(sentence, ended[k], active[j], ended[j]) /\ ended[k] \in EndLayers(c)
    BY <2>2 DEF EndRun
  <2>4. EndedOf(sentence, active, j, ended[j])
    BY <2>1, <2>2, <2>3, EndedMore
  <2> QED BY <2>2, <2>4
<1>3. Nat \subseteq T
  <2> HIDE DEF T
  <2> QED BY <1>1, <1>2, Numbers!Induct
<1>4. n \in T
  <2> HIDE DEF T
  <2> QED BY <1>3
<1>5. n \in 0..n
  OBVIOUS
<1> QED BY <1>4, <1>5 DEF EndRun

\* A path that no path of the sentence beats.
BestOf(sentence, path) ==
  /\ PathOf(sentence, path) /\ Len(path) = Len(sentence)
  /\ \A p : PathOf(sentence, p) /\ Len(p) = Len(sentence) => FullScore(sentence, p) <= FullScore(sentence, path)

LEMMA SomePath ==
  ASSUME NEW sentence \in Seq(Seq(Words)), \A i \in DOMAIN sentence : sentence[i] # <<>>
  PROVE  \E p : PathOf(sentence, p) /\ Len(p) = Len(sentence)
<1>1. PICK n \in Nat : n = Len(sentence) /\ DOMAIN sentence = 1..n
  OBVIOUS
<1>2. PICK p : p = [i \in 1..n |-> 1]
  OBVIOUS
<1>3. p \in Seq(Nat) /\ Len(p) = n /\ \A i \in 1..n : p[i] = 1
  BY <1>2
<1>4. \A i \in 1..n : 1 \in 1..Len(sentence[i])
  <2> SUFFICES ASSUME NEW i \in 1..n PROVE 1 \in 1..Len(sentence[i])
    OBVIOUS
  <2>1. sentence[i] \in Seq(Words) /\ sentence[i] # <<>>
    BY <1>1, SMT
  <2> QED BY <2>1
<1> QED BY <1>1, <1>3, <1>4 DEF PathOf

LEMMA EndBest ==
  ASSUME NEW c, Good(c), NEW k, UnderWay(c, k), k.decoder # "causal", k.done = Len(k.sentence),
         BestKept(k.sentence, k.done, ToSet(k.active)), NEW l, l = Terminal(k, c), ~l.tied
  PROVE  BestOf(k.sentence, Best(l.active).path)
<1>1. PICK sentence, active, n : sentence = k.sentence /\ active = k.active /\ n = Len(active)
  OBVIOUS
<1>2. PICK m : m = Len(sentence)
  OBVIOUS
<1>3. sentence \in Seq(Seq(Words)) /\ m \in Nat /\ \A i \in DOMAIN sentence : sentence[i] # <<>>
  BY <1>1, <1>2 DEF UnderWay, CallRecords
<1>4. active \in Seq(Followers(c, sentence, m)) /\ n \in Nat
  BY <1>1, <1>2, UnderWayReady, Length
<1>5. PICK ended : EndRun(c, sentence, active, n, ended) /\ EndAll(k, c) = ended[n]
  BY <1>1, EndRuns
<1>6. l = ended[n]
  BY <1>5 DEF Terminal
<1>7. EndedOf(sentence, active, n, l) /\ l \in EndLayers(c)
  BY <1>4, <1>5, <1>6, EndedAll
<1>8. PICK done : done = l.active
  OBVIOUS
<1>9. /\ done \in Seq(Hypotheses) /\ Len(done) = n
      /\ \A j \in 1..n : /\ done[j].path = active[j].path
                         /\ done[j].score = active[j].score + EndScore(sentence, active[j].path)
  BY <1>7, <1>8 DEF EndLayers, EndedOf
<1>10. ToSet(active) = {active[j] : j \in 1..n} /\ DOMAIN active = 1..n
  BY <1>1, <1>4 DEF ToSet
<1>11. BestKept(sentence, m, ToSet(active))
  BY <1>1, <1>2
<1>12. ASSUME NEW j \in 1..n
       PROVE  /\ PathOf(sentence, active[j].path) /\ Len(active[j].path) = m /\ active[j].path \in Seq(Nat)
              /\ active[j].score = SumOf(sentence, active[j].path) /\ active[j].score \in Int
              /\ done[j].score = FullScore(sentence, active[j].path)
              /\ EndScore(sentence, active[j].path) \in Int
  <2>1. PICK h : h = active[j]
    OBVIOUS
  <2>2. h \in Followers(c, sentence, m)
    BY <1>4, <1>10, <2>1
  <2>3. Follows(c, sentence, m, h) /\ h \in Hypotheses /\ m <= Len(sentence)
    BY <1>2, <1>3, <2>2 DEF Followers
  <2>4. PathOf(sentence, h.path) /\ Len(h.path) = m
    BY <1>3, <2>3, FollowedPath
  <2>5. h.score = SumOf(sentence, h.path)
    BY <1>10, <1>11, <2>1 DEF BestKept
  <2>6. FullScore(sentence, h.path) = SumOf(sentence, h.path) + EndScore(sentence, h.path)
        /\ EndScore(sentence, h.path) \in Int
    BY <1>3, <2>4, FullSum
  <2>7. h.score \in Int /\ h.path \in Seq(Nat)
    BY <2>3 DEF Hypotheses
  <2> QED BY <1>9, <2>1, <2>4, <2>5, <2>6, <2>7
<1>13. n # 0
  <2>1. PICK p : PathOf(sentence, p) /\ Len(p) = m
    BY <1>2, <1>3, SomePath
  <2>2. PICK h \in ToSet(active) : TRUE
    BY <1>11, <2>1 DEF BestKept
  <2> QED BY <1>10, <2>2
<1>14. done # <<>>
  BY <1>9, <1>13
<1>15. PICK scores : scores = ScoresOf(done)
  OBVIOUS
<1>16. PICK b : FirstGreatest(scores, n, b) /\ Best(done) = done[b]
  BY <1>9, <1>14, <1>15, BestIsFirst
<1>17. b \in 1..n /\ \A j \in 1..n : done[j].score <= done[b].score
  <2>1. DOMAIN done = 1..n
    BY <1>9
  <2>2. \A j \in 1..n : scores[j] = done[j].score
    BY <1>15, <2>1 DEF ScoresOf
  <2> QED BY <1>16, <2>2 DEF FirstGreatest
<1>18. PICK path : path = Best(done).path
  OBVIOUS
<1>19. PathOf(sentence, path) /\ Len(path) = m /\ done[b].score = FullScore(sentence, path)
  BY <1>9, <1>12, <1>16, <1>17, <1>18
<1>20. ASSUME NEW p, PathOf(sentence, p), Len(p) = m PROVE FullScore(sentence, p) <= FullScore(sentence, path)
  <2>1. PICK h \in ToSet(active) : LastTwo(sentence, h.path) = LastTwo(sentence, p) /\ SumOf(sentence, p) <= h.score
    BY <1>11, <1>20 DEF BestKept
  <2>2. PICK j \in 1..n : h = active[j]
    BY <1>10
  <2>3. EndScore(sentence, p) = EndScore(sentence, active[j].path)
    <3>1. p \in Seq(Nat)
      BY <1>20 DEF PathOf
    <3>2. PICK q : q = active[j].path
      OBVIOUS
    <3>3. q \in Seq(Nat) /\ Len(q) = m /\ LastTwo(sentence, p) = LastTwo(sentence, q)
      BY <1>12, <2>1, <2>2, <3>2
    <3> QED BY <1>20, <3>1, <3>2, <3>3, NextAlike
  <2>4. FullScore(sentence, p) = SumOf(sentence, p) + EndScore(sentence, p) /\ SumOf(sentence, p) \in Int
    BY <1>3, <1>20, FullSum
  <2>5. PICK x, y, z, u, v : /\ x = SumOf(sentence, p) /\ y = active[j].score /\ z = EndScore(sentence, p)
                             /\ u = done[j].score /\ v = done[b].score
    OBVIOUS
  <2>6. x \in Int /\ y \in Int /\ z \in Int /\ u \in Int /\ v \in Int
    <3>1. done[j] \in Hypotheses /\ done[b] \in Hypotheses
      BY <1>9, <1>17, ElementOfSeq
    <3>2. y \in Int /\ z \in Int
      BY <1>12, <2>3, <2>5
    <3> QED BY <2>4, <2>5, <3>1, <3>2 DEF Hypotheses
  <2>7. x <= y /\ u = y + z /\ u <= v
    BY <1>9, <1>17, <2>1, <2>2, <2>3, <2>5
  <2>8. x + z <= v
    BY <2>6, <2>7
  <2> QED BY <1>19, <2>4, <2>5, <2>8
<1> QED BY <1>1, <1>2, <1>8, <1>18, <1>19, <1>20 DEF BestOf

-----------------------------------------------------------------------------
(***************************************************************************)
(* The Viterbi calls: their sentence is the one asked for, completed, and  *)
(* what they keep is best.                                                 *)
(***************************************************************************)

ViterbiOf(k) ==
  k.call \in Viterbi =>
    k.decoder # "causal" /\ k.sentence = Completed(k.asked) /\ BestKept(k.sentence, k.done, ToSet(k.active))

AnswerBest(a) ==
  a[1] \in Viterbi /\ a[3] # <<>> => <<a[1], a[2]>> \in Requests /\ BestOf(Completed(a[2]), a[3])

VInv ==
  /\ \A w \in Workers : calls[w] # Idle => ViterbiOf(calls[w])
  /\ \A a \in answers : AnswerBest(a)

LEMMA ViterbiStays ==
  ASSUME IInv, VInv, NEW w \in Workers, NEW k, calls' = [calls EXCEPT ![w] = k], k = Idle \/ ViterbiOf(k),
         \A a \in answers' : a \in answers \/ AnswerBest(a)
  PROVE  VInv'
<1>1. calls'[w] = k /\ \A v \in Workers \ {w} : calls'[v] = calls[v]
  <2>1. PICK R : calls \in [Workers -> R]
    BY DEF IInv
  <2> QED BY <2>1
<1>2. ASSUME NEW v \in Workers, calls'[v] # Idle PROVE ViterbiOf(calls'[v])
  <2>1. CASE v = w
    BY <1>1, <1>2, <2>1
  <2>2. CASE v # w
    <3>1. calls'[v] = calls[v]
      BY <1>1, <2>2
    <3>2. ViterbiOf(calls[v])
      BY <1>2, <3>1 DEF VInv
    <3> QED BY <3>1, <3>2
  <2> QED BY <2>1, <2>2
<1>3. \A a \in answers' : AnswerBest(a)
  BY DEF VInv
<1> QED BY <1>2, <1>3 DEF VInv

LEMMA OfOne == ASSUME NEW x, NEW q, q = <<x>> PROVE ToSet(q) = {x}
<1>1. DOMAIN q = 1..1 /\ q[1] = x
  OBVIOUS
<1>2. ToSet(q) = {q[i] : i \in 1..1}
  BY <1>1 DEF ToSet
<1> QED BY <1>1, <1>2

LEMMA ViterbiCall ==
  ASSUME IInv, VInv, NEW w \in Workers, Call(w)
  PROVE  VInv'
<1>1. PICK request \in Requests : Refuse(w, request[1], request[2]) \/ Start(w, request[1], request[2])
  BY DEF Call
<1>2. PICK call, asked : call = request[1] /\ asked = request[2]
  OBVIOUS
<1>3. CASE Refuse(w, call, asked)
  <2>1. calls' = calls /\ answers' = answers \cup {<<call, asked, <<>>>>}
    BY <1>3 DEF Refuse
  <2>2. AnswerBest(<<call, asked, <<>>>>)
    BY DEF AnswerBest
  <2> QED BY <2>1, <2>2 DEF VInv
<1>4. CASE Start(w, call, asked)
  <2>1. PICK row, k :
          /\ k = [call |-> call, asked |-> asked, sentence |-> Completed(asked), decoder |-> DecoderOf(call, asked),
                  done |-> 0, active |-> <<Root(row)>>]
          /\ calls' = [calls EXCEPT ![w] = k] /\ answers' = answers
    BY <1>4 DEF Start
  <2>2. /\ k.call = call /\ k.asked = asked /\ k.sentence = Completed(asked) /\ k.decoder = DecoderOf(call, asked)
        /\ k.done = 0 /\ k.active = <<Root(row)>>
    BY <2>1
  <2>3. ASSUME call \in Viterbi PROVE ViterbiOf(k)
    <3>1. call \notin Causal
      BY <2>3, Zenon DEF Causal, Viterbi
    <3>2. k.decoder # "causal"
      BY <2>2, <3>1 DEF DecoderOf
    <3>3. ToSet(k.active) = {Root(row)}
      BY <2>2, OfOne
    <3>4. BestKept(k.sentence, 0, ToSet(k.active))
      BY <3>3, RootBest
    <3> QED BY <2>2, <3>2, <3>4 DEF ViterbiOf
  <2>4. ViterbiOf(k)
    BY <2>2, <2>3 DEF ViterbiOf
  <2> QED BY <2>1, <2>4, ViterbiStays
<1> QED BY <1>1, <1>2, <1>3, <1>4

LEMMA ViterbiFallBack ==
  ASSUME IInv, VInv, NEW w \in Workers, calls[w] # Idle, NEW d, FallBack(w, d), answers' = answers
  PROVE  VInv'
<1>1. PICK k : k = calls[w]
  OBVIOUS
<1>2. ViterbiOf(k)
  BY <1>1 DEF VInv
<1>3. PICK row, g : calls' = [calls EXCEPT ![w] = g] /\ g = Going(k, "hash", 0, <<Root(row)>>)
  <2>1. PICK row : calls' = [calls EXCEPT ![w] = Going(@, "hash", 0, <<Root(row)>>)]
    BY DEF FallBack
  <2> QED BY <1>1, <2>1
<1>4. /\ g.call = k.call /\ g.asked = k.asked /\ g.sentence = k.sentence /\ g.decoder = "hash" /\ g.done = 0
      /\ g.active = <<Root(row)>>
  BY <1>3 DEF Going
<1>5. BestKept(g.sentence, 0, ToSet(g.active))
  <2>1. ToSet(g.active) = {Root(row)}
    BY <1>4, OfOne
  <2> QED BY <2>1, RootBest
<1>6. ViterbiOf(g)
  BY <1>2, <1>4, <1>5 DEF ViterbiOf
<1> QED BY <1>3, <1>6, ViterbiStays

LEMMA ViterbiExtend ==
  ASSUME IInv, VInv, NEW w \in Workers, ExtendAll(w)
  PROVE  VInv'
<1>1. PICK c, k : c = CacheOf(w) /\ k = calls[w]
  OBVIOUS
<1>2. calls[w] # Idle /\ k.done < Len(k.sentence) /\ answers' = answers
  BY <1>1 DEF ExtendAll
<1>3. Good(c) /\ UnderWay(c, k) /\ ViterbiOf(k)
  BY <1>1, <1>2 DEF IInv, VInv
<1>4. PICK l : l = Layer(k, c)
  OBVIOUS
<1>5. \/ ~l.tied /\ calls' = [calls EXCEPT ![w] = Going(@, @.decoder, @.done + 1, l.active)]
      \/ l.tied /\ FallBack(w, l.cache)
  BY <1>1, <1>4 DEF ExtendAll
<1>6. CASE ~l.tied /\ calls' = [calls EXCEPT ![w] = Going(@, @.decoder, @.done + 1, l.active)]
  <2>1. PICK g : g = Going(k, k.decoder, k.done + 1, l.active)
    OBVIOUS
  <2>2. calls' = [calls EXCEPT ![w] = g]
    BY <1>1, <1>6, <2>1
  <2>3. /\ g.call = k.call /\ g.asked = k.asked /\ g.sentence = k.sentence /\ g.decoder = k.decoder
        /\ g.done = k.done + 1 /\ g.active = l.active
    BY <2>1 DEF Going
  <2>4. ASSUME k.call \in Viterbi PROVE ViterbiOf(g)
    <3>1. k.decoder # "causal" /\ k.sentence = Completed(k.asked)
      BY <1>3, <2>4 DEF ViterbiOf
    <3>2. PICK sentence, done, A, E : /\ sentence = k.sentence /\ done = k.done
                                      /\ A = ToSet(k.active) /\ E = ToSet(l.active)
      OBVIOUS
    <3>3. BestKept(sentence, done, A)
      BY <1>3, <2>4, <3>2 DEF ViterbiOf
    <3>4. Covers(sentence, done, A, E)
      BY <1>2, <1>3, <1>4, <1>6, <3>1, <3>2, LayerCovers
    <3>5. sentence \in Seq(Seq(Words)) /\ done \in Nat /\ done < Len(sentence) /\ done <= Len(sentence)
          /\ k.active \in Seq(Followers(c, sentence, done))
      <4>1. Ready(c, k.call, sentence) /\ done \in Nat /\ done <= Len(sentence)
            /\ k.active \in Seq(Followers(c, sentence, done))
        BY <1>3, <3>2, UnderWayReady
      <4> QED BY <1>2, <3>2, <4>1 DEF Ready
    <3>6. A \subseteq Pathed(sentence, done)
      <4>1. PICK active, n : active = k.active /\ n = Len(active)
        OBVIOUS
      <4>2. n \in Nat /\ active \in [1..n -> Followers(c, sentence, done)] /\ DOMAIN active = 1..n
        BY <3>5, <4>1
      <4>3. A = {active[i] : i \in 1..n}
        BY <3>2, <4>1, <4>2 DEF ToSet
      <4>4. ASSUME NEW i \in 1..n PROVE active[i] \in Pathed(sentence, done)
        <5>1. active[i] \in Followers(c, sentence, done)
          BY <4>2
        <5>2. active[i] \in Hypotheses /\ Follows(c, sentence, done, active[i])
          BY <5>1 DEF Followers
        <5>3. PathOf(sentence, active[i].path) /\ Len(active[i].path) = done
          BY <3>5, <5>2, FollowedPath
        <5> QED BY <5>2, <5>3 DEF Pathed
      <4> QED BY <4>3, <4>4
    <3>7. BestKept(sentence, done + 1, E)
      BY <3>3, <3>4, <3>5, <3>6, LayerBest
    <3> QED BY <2>3, <3>1, <3>2, <3>7 DEF ViterbiOf
  <2>5. ViterbiOf(g)
    BY <2>3, <2>4 DEF ViterbiOf
  <2> QED BY <1>2, <2>2, <2>5, ViterbiStays
<1>7. CASE l.tied /\ FallBack(w, l.cache)
  BY <1>2, <1>7, ViterbiFallBack
<1> QED BY <1>5, <1>6, <1>7

LEMMA ViterbiChoose ==
  ASSUME IInv, VInv, NEW w \in Workers, Choose(w)
  PROVE  VInv'
<1>1. PICK c, k : c = CacheOf(w) /\ k = calls[w]
  OBVIOUS
<1>2. calls[w] # Idle /\ k.done = Len(k.sentence)
  BY <1>1 DEF Choose
<1>3. Good(c) /\ UnderWay(c, k) /\ ViterbiOf(k)
  BY <1>1, <1>2 DEF IInv, VInv
<1>4. PICK l : l = Terminal(k, c)
  OBVIOUS
<1>5. \/ /\ ~l.tied
         /\ answers' = answers \cup {<<k.call, k.asked, Best(l.active).path>>}
         /\ calls' = [calls EXCEPT ![w] = Idle]
      \/ l.tied /\ FallBack(w, l.cache) /\ answers' = answers
  BY <1>1, <1>4 DEF Choose
<1>6. CASE /\ ~l.tied
           /\ answers' = answers \cup {<<k.call, k.asked, Best(l.active).path>>}
           /\ calls' = [calls EXCEPT ![w] = Idle]
  <2>1. PICK path, a : path = Best(l.active).path /\ a = <<k.call, k.asked, path>>
    OBVIOUS
  <2>2. a[1] = k.call /\ a[2] = k.asked /\ a[3] = path
    BY <2>1
  <2>3. ASSUME k.call \in Viterbi PROVE AnswerBest(a)
    <3>1. k.decoder # "causal" /\ k.sentence = Completed(k.asked) /\ BestKept(k.sentence, k.done, ToSet(k.active))
      BY <1>3, <2>3 DEF ViterbiOf
    <3>2. BestOf(k.sentence, Best(l.active).path)
      BY <1>2, <1>3, <1>4, <1>6, <3>1, EndBest
    <3>3. <<k.call, k.asked>> \in Requests
      BY <1>3 DEF UnderWay
    <3> QED BY <2>1, <2>2, <3>1, <3>2, <3>3 DEF AnswerBest
  <2>4. AnswerBest(a)
    BY <2>2, <2>3 DEF AnswerBest
  <2>5. PICK idle : idle = Idle
    OBVIOUS
  <2>6. calls' = [calls EXCEPT ![w] = idle] /\ answers' = answers \cup {a}
    BY <1>6, <2>1, <2>5
  <2> QED BY <2>4, <2>5, <2>6, ViterbiStays
<1>7. CASE l.tied /\ FallBack(w, l.cache) /\ answers' = answers
  BY <1>2, <1>7, ViterbiFallBack
<1> QED BY <1>5, <1>6, <1>7

LEMMA ViterbiKept == IInv /\ VInv /\ [Next]_vars => VInv'
<1> SUFFICES ASSUME IInv, VInv, [Next]_vars PROVE VInv'
  OBVIOUS
<1>1. ASSUME NEW w \in Workers, Clear(w) PROVE VInv'
  BY <1>1 DEF Clear, VInv
<1>2. CASE Next
  <2>1. PICK w \in Workers : Call(w) \/ ExtendAll(w) \/ Choose(w) \/ Clear(w)
    BY <1>2 DEF Next
  <2> QED BY <1>1, <2>1, ViterbiCall, ViterbiExtend, ViterbiChoose
<1>3. CASE UNCHANGED vars
  BY <1>3 DEF vars, VInv
<1> QED BY <1>2, <1>3

-----------------------------------------------------------------------------
(***************************************************************************)
(* What it says of the choices.                                            *)
(***************************************************************************)

LEMMA GreatestPlace ==
  ASSUME NEW n \in Nat \ {0}, NEW f, \A i \in 1..n : f[i] \in Int
  PROVE  \E m \in 1..n : \A i \in 1..n : f[i] <= f[m]
<1> DEFINE T == {k \in Nat : k \in 1..n => \E m \in 1..k : \A i \in 1..k : f[i] <= f[m]}
<1>1. 0 \in T
  OBVIOUS
<1>2. ASSUME NEW k \in Nat, k \in T PROVE k + 1 \in T
  <2> SUFFICES ASSUME k + 1 \in 1..n PROVE \E m \in 1..(k + 1) : \A i \in 1..(k + 1) : f[i] <= f[m]
    OBVIOUS
  <2>1. PICK j \in 1..n : j = k + 1
    OBVIOUS
  <2>2. \A i : i \in 1..j <=> i = j \/ i \in 1..k
    BY <2>1
  <2>3. CASE k = 0
    <3>1. \A i \in 1..j : i = j
      BY <2>1, <2>3
    <3>2. \A i \in 1..j : f[i] <= f[j]
      BY <2>1, <3>1
    <3> QED BY <2>1, <3>2
  <2>4. CASE k # 0
    <3>1. PICK m \in 1..k : \A i \in 1..k : f[i] <= f[m]
      BY <1>2, <2>1, <2>4
    <3>2. f[m] \in Int /\ f[j] \in Int /\ m \in 1..j /\ \A i \in 1..k : f[i] \in Int
      BY <2>1, <3>1
    <3>3. CASE f[j] <= f[m]
      <4>1. \A i \in 1..j : f[i] <= f[m]
        BY <2>2, <3>1, <3>3
      <4> QED BY <2>1, <3>2, <4>1
    <3>4. CASE f[m] <= f[j]
      <4>1. \A i \in 1..k : f[i] <= f[j]
        BY <3>1, <3>2, <3>4
      <4>a. f[j] <= f[j]
        BY <3>2
      <4>2. \A i \in 1..j : f[i] <= f[j]
        BY <2>2, <4>1, <4>a, Zenon
      <4> QED BY <2>1, <4>2
    <3>5. f[j] <= f[m] \/ f[m] <= f[j]
      BY <3>2
    <3> QED BY <3>3, <3>4, <3>5
  <2> QED BY <2>3, <2>4
<1>3. Nat \subseteq T
  <2> HIDE DEF T
  <2> QED BY <1>1, <1>2, Numbers!Induct
<1>4. n \in T
  <2> HIDE DEF T
  <2> QED BY <1>3
<1>5. n \in 1..n
  OBVIOUS
<1> QED BY <1>4, <1>5

LEMMA PathsAre ==
  ASSUME NEW s \in Seq(Seq(Words)), s # <<>>, NEW p
  PROVE  p \in Paths(s) <=> PathOf(s, p) /\ Len(p) = Len(s)
<1>1. PICK n \in Nat : n = Len(s) /\ DOMAIN s = 1..n
  OBVIOUS
<1>2. n # 0
  BY <1>1
<1>3. PICK f : f = [i \in 1..n |-> Len(s[i])]
  OBVIOUS
<1>4. \A i \in 1..n : f[i] = Len(s[i]) /\ f[i] \in Int
  <2> SUFFICES ASSUME NEW i \in 1..n PROVE f[i] = Len(s[i]) /\ f[i] \in Int
    OBVIOUS
  <2>1. s[i] \in Seq(Words)
    BY <1>1
  <2>2. Len(s[i]) \in Nat
    BY <2>1, Length
  <2> QED BY <1>3, <2>2
<1>5. PICK m \in 1..n : \A i \in 1..n : f[i] <= f[m]
  BY <1>2, <1>4, GreatestPlace
<1>6. PICK I : I = {Len(s[i]) : i \in DOMAIN s}
  OBVIOUS
<1>7. I \in SUBSET Int /\ f[m] \in I /\ \A x \in I : x <= f[m]
  <2>1. I = {f[i] : i \in 1..n}
    BY <1>1, <1>4, <1>6
  <2> QED BY <1>4, <1>5, <2>1
<1>8. Max(I) = f[m]
  BY <1>7, GreatestOf
<1>9. PICK g \in Int : g = Max(I) /\ \A i \in 1..n : Len(s[i]) <= g
  BY <1>4, <1>5, <1>8
<1>10. Paths(s) = {path \in [1..n -> 1..g] : \A i \in 1..n : path[i] <= Len(s[i])}
  BY <1>1, <1>6, <1>9 DEF Paths
<1>11. ASSUME p \in Paths(s) PROVE PathOf(s, p) /\ Len(p) = Len(s)
  <2>1. p \in [1..n -> 1..g] /\ \A i \in 1..n : p[i] <= Len(s[i])
    BY <1>10, <1>11
  <2>2. \A i \in 1..n : p[i] \in Nat /\ p[i] \in 1..Len(s[i])
    BY <1>4, <2>1
  <2>3. p \in Seq(Nat) /\ Len(p) = n
    BY <2>1, <2>2, SMT
  <2> QED BY <1>1, <2>2, <2>3, SMT DEF PathOf
<1>12. ASSUME PathOf(s, p), Len(p) = Len(s) PROVE p \in Paths(s)
  <2>1. p \in Seq(Nat) /\ Len(p) = n /\ \A i \in 1..n : p[i] \in 1..Len(s[i])
    BY <1>1, <1>12 DEF PathOf
  <2>2. \A i \in 1..n : p[i] \in 1..g /\ p[i] <= Len(s[i])
    BY <1>4, <1>9, <2>1, SMT
  <2>3. p \in [1..n -> 1..g]
    BY <2>1, <2>2
  <2> QED BY <1>10, <2>2, <2>3
<1> QED BY <1>11, <1>12

LEMMA ChoiceKnown ==
  ASSUME VInv, NEW a \in Chosen, a[1] \in Viterbi, NEW s, s = Completed(a[2])
  PROVE  s \in Seq(Seq(Words)) /\ s # <<>> /\ s \in Sentences /\ BestOf(s, a[3])
<1>1. a \in answers /\ a[3] # <<>>
  BY DEF Chosen
<1>2. <<a[1], a[2]>> \in Requests /\ BestOf(s, a[3])
  BY <1>1 DEF VInv, AnswerBest
<1>3. PICK request \in Requests : request = <<a[1], a[2]>>
  BY <1>2
<1>4. request[2] = a[2]
  BY <1>3
<1>5. a[2] \in Seq(Seq(Words))
  BY <1>4, RequestKnown
<1>6. s \in Seq(Seq(Words))
  BY <1>5, CompletedGives
<1>7. s # <<>>
  <2>1. Len(a[3]) = Len(s) /\ a[3] \in Seq(Nat)
    BY <1>2 DEF BestOf, PathOf
  <2> QED BY <1>1, <2>1
<1>8. s \in Sentences
  BY <1>4, <1>7 DEF Sentences
<1> QED BY <1>2, <1>6, <1>7, <1>8

LEMMA BestPathChosen == VInv => ChoosesBestPath
<1> SUFFICES ASSUME VInv, NEW a \in Chosen, a[1] \in Viterbi
             PROVE  PathScore[Completed(a[2])][a[3]] = HighestScore[Completed(a[2])]
  BY DEF ChoosesBestPath
<1>1. PICK s, path : s = Completed(a[2]) /\ path = a[3]
  OBVIOUS
<1>2. s \in Seq(Seq(Words)) /\ s # <<>> /\ s \in Sentences /\ BestOf(s, path)
  BY <1>1, ChoiceKnown
<1>3. PICK P : P = Paths(s)
  OBVIOUS
<1>4. path \in P /\ \A p \in P : PathOf(s, p) /\ Len(p) = Len(s)
  BY <1>2, <1>3, PathsAre DEF BestOf
<1>5. \A p \in P : PathScore[s][p] = FullScore(s, p)
  <2>1. PathScore[s] = [p \in P |-> Total([i \in 1..(Len(p) + 1) |-> Factor(s, p, i)])]
    BY <1>2, <1>3 DEF PathScore
  <2> QED BY <2>1 DEF FullScore, FactorsOf
<1>6. \A p \in P : FullScore(s, p) \in Int /\ FullScore(s, p) <= FullScore(s, path)
  <2> SUFFICES ASSUME NEW p \in P PROVE FullScore(s, p) \in Int /\ FullScore(s, p) <= FullScore(s, path)
    OBVIOUS
  <2>1. PathOf(s, p) /\ Len(p) = Len(s)
    BY <1>4
  <2>2. FullScore(s, p) \in Int
    <3>1. PICK x, y : x = SumOf(s, p) /\ y = EndScore(s, p)
      OBVIOUS
    <3>2. FullScore(s, p) = x + y /\ x \in Int /\ y \in Int
      BY <1>2, <2>1, <3>1, FullSum
    <3> QED BY <3>2
  <2> QED BY <1>2, <2>1, <2>2 DEF BestOf
<1>7. PICK I : I = {PathScore[s][p] : p \in P}
  OBVIOUS
<1>8. PICK m : m = FullScore(s, path)
  OBVIOUS
<1>9. I \in SUBSET Int /\ m \in I /\ \A x \in I : x <= m
  BY <1>4, <1>5, <1>6, <1>7, <1>8
<1>10. Max(I) = m
  BY <1>9, GreatestOf
<1>11. HighestScore[s] = Max(I)
  BY <1>2, <1>3, <1>7 DEF HighestScore
<1> QED BY <1>1, <1>4, <1>5, <1>8, <1>10, <1>11

\* Sums over places that agree.
Agree(s, a, t, b, m) == a \in Nat /\ b \in Nat /\ m \in Nat /\ Alike(s, a, t, b, m)
SameRise(s, a, t, b, m) == s[a + m] - s[a] = t[b + m] - t[b]

LEMMA RiseAlike ==
  ASSUME NEW s, NEW t, NEW a, NEW b, NEW m, Agree(s, a, t, b, m)
  PROVE  SameRise(s, a, t, b, m)
<1>1. a \in Nat /\ b \in Nat /\ m \in Nat /\ Alike(s, a, t, b, m)
  BY DEF Agree
<1> QED BY <1>1, SumsAlike DEF SameRise

LEMMA SumsSame ==
  ASSUME NEW n \in Nat, NEW v, NEW u, NEW s, NEW t, SumsOf(s, v, n), SumsOf(t, u, n),
         NEW a \in 0..n, NEW b \in a..n, \A j \in (a + 1)..b : v[j] = u[j]
  PROVE  s[b] - s[a] = t[b] - t[a]
<1>1. (\A k \in 0..n : s[k] \in Int) /\ \A k \in 0..(n - 1) : s[k + 1] - s[k] = v[k + 1]
  BY DEF SumsOf
<1>2. (\A k \in 0..n : t[k] \in Int) /\ \A k \in 0..(n - 1) : t[k + 1] - t[k] = u[k + 1]
  BY DEF SumsOf
<1>3. PICK m \in Nat : b = a + m
  <2>1. b - a \in Nat /\ b = a + (b - a)
    OBVIOUS
  <2> QED BY <2>1
<1>4. \A k \in 0..m : s[a + k] \in Int /\ t[a + k] \in Int
  <2>1. \A k \in 0..m : a + k \in 0..n
    BY <1>3
  <2> QED BY <1>1, <1>2, <2>1
<1>5. \A k \in 0..(m - 1) : s[a + k + 1] - s[a + k] = t[a + k + 1] - t[a + k]
  <2> SUFFICES ASSUME NEW k \in 0..(m - 1) PROVE s[a + k + 1] - s[a + k] = t[a + k + 1] - t[a + k]
    OBVIOUS
  <2>1. PICK x : x = a + k
    OBVIOUS
  <2>2. x \in 0..(n - 1) /\ x + 1 \in (a + 1)..b
    BY <1>3, <2>1
  <2>3. s[x + 1] - s[x] = v[x + 1] /\ t[x + 1] - t[x] = u[x + 1] /\ v[x + 1] = u[x + 1]
    BY <1>1, <1>2, <2>2
  <2> QED BY <2>1, <2>3
<1>6. Alike(s, a, t, a, m)
  BY <1>4, <1>5 DEF Alike
<1>7. a \in Nat
  OBVIOUS
<1>8. s[a + m] - s[a] = t[a + m] - t[a]
  <2>1. Agree(s, a, t, a, m)
    BY <1>6, <1>7 DEF Agree
  <2>2. SameRise(s, a, t, a, m)
    BY <2>1, RiseAlike
  <2> QED BY <2>2 DEF SameRise
<1> QED BY <1>3, <1>8

\* A window of the factors.
Window(s, p, i, m) == [k \in 1..m |-> Factor(s, p, i + k - 1)]
Within(s, p, n, t, h, m) ==
  /\ PathOf(s, p) /\ n \in Nat /\ Len(p) + 1 = n /\ SumsOf(t, FactorsOf(s, p, n), n)
  /\ h \in Nat /\ m \in Nat /\ h + m <= n
WindowRise(s, p, t, h, m) == Total(Window(s, p, h + 1, m)) = t[h + m] - t[h]

LEMMA WindowSum ==
  ASSUME NEW s \in Seq(Seq(Words)), NEW p, NEW n, NEW t, NEW h, NEW m, Within(s, p, n, t, h, m)
  PROVE  WindowRise(s, p, t, h, m)
<1> SUFFICES ASSUME PathOf(s, p), n \in Nat, Len(p) + 1 = n, SumsOf(t, FactorsOf(s, p, n), n),
                    h \in Nat, m \in Nat, h + m <= n
             PROVE  Total(Window(s, p, h + 1, m)) = t[h + m] - t[h]
  BY DEF Within, WindowRise
<1>1. PICK v, w : v = FactorsOf(s, p, n) /\ w = Window(s, p, h + 1, m)
  OBVIOUS
<1>2. \A j \in 1..n : v[j] = Factor(s, p, j) /\ v[j] \in Int
  <2>1. \A j \in 1..n : Factor(s, p, j) \in Int
    BY FactorTyped
  <2> QED BY <1>1, <2>1 DEF FactorsOf
<1>3. \A k \in 1..m : w[k] = v[h + k] /\ w[k] \in Int
  <2> SUFFICES ASSUME NEW k \in 1..m PROVE w[k] = v[h + k] /\ w[k] \in Int
    OBVIOUS
  <2>1. h + k \in 1..n /\ (h + 1) + k - 1 = h + k
    OBVIOUS
  <2>2. w[k] = Factor(s, p, (h + 1) + k - 1)
    BY <1>1 DEF Window
  <2> QED BY <1>2, <2>1, <2>2
<1>4. w \in Weights(m)
  <2>1. w = [k \in 1..m |-> w[k]]
    BY <1>1 DEF Window
  <2> QED BY <1>3, <2>1 DEF Weights
<1>5. PICK r : SumsOf(r, w, m) /\ Total(w) = r[m]
  BY <1>4, TotalSums
<1>6. (\A k \in 0..n : t[k] \in Int) /\ \A k \in 0..(n - 1) : t[k + 1] - t[k] = v[k + 1]
  BY <1>1 DEF SumsOf
<1>7. r[0] = 0 /\ (\A k \in 0..m : r[k] \in Int) /\ \A k \in 0..(m - 1) : r[k + 1] - r[k] = w[k + 1]
  BY <1>5 DEF SumsOf
<1>8. PICK z \in Nat : z = 0
  OBVIOUS
<1>9. \A k \in 0..m : t[h + k] \in Int /\ r[z + k] \in Int
  <2>1. \A k \in 0..m : h + k \in 0..n /\ z + k = k
    BY <1>8
  <2> QED BY <1>6, <1>7, <2>1
<1>10. \A k \in 0..(m - 1) : t[h + k + 1] - t[h + k] = r[z + k + 1] - r[z + k]
  <2> SUFFICES ASSUME NEW k \in 0..(m - 1) PROVE t[h + k + 1] - t[h + k] = r[z + k + 1] - r[z + k]
    OBVIOUS
  <2>1. PICK x, y : x = h + k /\ y = k + 1
    OBVIOUS
  <2>2. x \in 0..(n - 1) /\ y \in 1..m /\ x + 1 = h + y /\ z + k = k /\ z + k + 1 = k + 1
    BY <1>8, <2>1
  <2>3. t[x + 1] - t[x] = v[x + 1] /\ w[y] = v[h + y] /\ r[k + 1] - r[k] = w[k + 1]
    BY <1>3, <1>6, <1>7, <2>2
  <2>4. t[x + 1] - t[x] = r[k + 1] - r[k]
    BY <2>1, <2>2, <2>3
  <2> QED BY <2>1, <2>2, <2>4
<1>11. Alike(t, h, r, z, m)
  BY <1>9, <1>10 DEF Alike
<1>12. t[h + m] - t[h] = r[z + m] - r[z]
  <2>1. Agree(t, h, r, z, m)
    BY <1>8, <1>11 DEF Agree
  <2>2. SameRise(t, h, r, z, m)
    BY <2>1, RiseAlike
  <2> QED BY <2>2 DEF SameRise
<1>13. r[z + m] - r[z] = r[m]
  <2>1. z + m = m /\ r[m] \in Int
    BY <1>7, <1>8
  <2> QED BY <1>7, <1>8, <2>1
<1> QED BY <1>1, <1>5, <1>12, <1>13

LEMMA LesserOf == ASSUME NEW x \in Int, NEW y \in Int PROVE Min({x, y}) = IF x <= y THEN x ELSE y
<1>1. PICK z : z = Min({x, y})
  OBVIOUS
<1>2. z \in {x, y} /\ z <= x /\ z <= y
  <2>1. \E v \in {x, y} : \A u \in {x, y} : v <= u
    OBVIOUS
  <2> QED BY <1>1, <2>1 DEF Min
<1> QED BY <1>1, <1>2

\* Two paths that differ in one place differ in the factors it is part of.
Change(p, i, c, q) == q = [p EXCEPT ![i] = c]
AlikeBut(s, p, i, q) ==
  /\ PathOf(s, q) /\ Len(q) = Len(p) /\ p \in Seq(Nat) /\ q \in Seq(Nat)
  /\ \A j \in 1..(Len(p) + 1) : (j < i \/ j > i + 2) => Factor(s, p, j) = Factor(s, q, j)

LEMMA OneChanged ==
  ASSUME NEW s \in Seq(Seq(Words)), NEW p, PathOf(s, p), Len(p) = Len(s), NEW i \in 1..Len(p), NEW c \in 1..Len(s[i]),
         NEW q, Change(p, i, c, q)
  PROVE  AlikeBut(s, p, i, q)
<1>1. PICK n \in Nat : n = Len(p)
  BY DEF PathOf
<1>2. p \in Seq(Nat) /\ i \in 1..n /\ c \in Nat
  BY <1>1 DEF PathOf
<1>3. q \in Seq(Nat) /\ Len(q) = n /\ q[i] = c /\ \A j \in 1..n : j # i => q[j] = p[j]
  BY <1>1, <1>2 DEF Change
<1>4. PathOf(s, q)
  <2>1. \A j \in 1..n : q[j] \in 1..Len(s[j])
    <3> SUFFICES ASSUME NEW j \in 1..n PROVE q[j] \in 1..Len(s[j])
      OBVIOUS
    <3>1. p[j] \in 1..Len(s[j])
      BY <1>1 DEF PathOf
    <3> QED BY <1>3, <3>1
  <2> QED BY <1>1, <1>3, <2>1 DEF PathOf
<1>5. ASSUME NEW j \in 1..(n + 1), j < i \/ j > i + 2 PROVE Factor(s, p, j) = Factor(s, q, j)
  <2>1. j \in Nat \ {0}
    OBVIOUS
  <2>2. \A k \in 1..j : k >= j - 2 /\ k <= Len(p) => p[k] = q[k]
    <3> SUFFICES ASSUME NEW k \in 1..j, k >= j - 2, k <= n PROVE p[k] = q[k]
      BY <1>1
    <3>1. k \in 1..n /\ k # i
      BY <1>2, <1>5
    <3> QED BY <1>3, <3>1
  <2>3. Len(p) = Len(q) /\ p \in Seq(Nat) /\ q \in Seq(Nat)
    BY <1>1, <1>2, <1>3
  <2> QED BY <2>1, <2>2, <2>3, FactorLocal
<1> QED BY <1>1, <1>2, <1>3, <1>4, <1>5 DEF AlikeBut

LEMMA ConditionalBest ==
  ASSUME NEW s \in Seq(Seq(Words)), NEW p, BestOf(s, p), NEW i \in 1..Len(p), NEW c \in 1..Len(s[i])
  PROVE  ConditionalScore(s, p, i, c) <= ConditionalScore(s, p, i, p[i])
<1>1. PICK q : q = [p EXCEPT ![i] = c]
  OBVIOUS
<1>2. PathOf(s, p) /\ Len(p) = Len(s)
  BY DEF BestOf
<1>3. PICK n \in Nat : n = Len(p)
  BY <1>2 DEF PathOf
<1>4. /\ PathOf(s, q) /\ Len(q) = n /\ p \in Seq(Nat) /\ i \in 1..n
      /\ \A j \in 1..(n + 1) : (j < i \/ j > i + 2) => Factor(s, p, j) = Factor(s, q, j)
  <2>1. Change(p, i, c, q)
    BY <1>1 DEF Change
  <2>2. AlikeBut(s, p, i, q)
    BY <1>2, <2>1, OneChanged
  <2> QED BY <1>3, <2>2 DEF AlikeBut
<1>5. p = [p EXCEPT ![i] = p[i]]
  BY <1>3, <1>4, Itself
<1>6. PICK last : last = Min({i + 2, n + 1})
  OBVIOUS
<1>7. last \in i..(n + 1) /\ last <= i + 2 /\ (last = i + 2 \/ last = n + 1)
  <2>1. i + 2 \in Int /\ n + 1 \in Int
    BY <1>4
  <2>2. last = IF i + 2 <= n + 1 THEN i + 2 ELSE n + 1
    BY <1>6, <2>1, LesserOf
  <2> QED BY <1>4, <2>2
<1>8. PICK h \in Nat, m \in Nat, o \in Nat : h + 1 = i /\ m = last - i + 1 /\ h + m = last /\ o = n + 1 /\ h + m <= o
  <2>1. i - 1 \in Nat /\ (i - 1) + 1 = i
    BY <1>4
  <2>2. last - i + 1 \in Nat /\ (i - 1) + (last - i + 1) = last /\ n + 1 \in Nat /\ last <= n + 1
    BY <1>4, <1>7
  <2> QED BY <2>1, <2>2
<1>9. ConditionalScore(s, p, i, c) = Total(Window(s, q, h + 1, m))
  BY <1>1, <1>4, <1>6, <1>8 DEF ConditionalScore, Window
<1>10. ConditionalScore(s, p, i, p[i]) = Total(Window(s, p, h + 1, m))
  BY <1>3, <1>5, <1>6, <1>8 DEF ConditionalScore, Window
<1>11. PICK v, u : v = FactorsOf(s, p, o) /\ u = FactorsOf(s, q, o)
  OBVIOUS
<1>12. \A j \in 1..o : v[j] = Factor(s, p, j) /\ u[j] = Factor(s, q, j)
  BY <1>11 DEF FactorsOf
<1>13. v \in Weights(o) /\ u \in Weights(o)
  <2>1. \A j \in 1..o : Factor(s, p, j) \in Int
    BY <1>2, <1>3, <1>8, FactorTyped
  <2>2. \A j \in 1..o : Factor(s, q, j) \in Int
    BY <1>4, <1>8, FactorTyped
  <2> QED BY <1>11, <2>1, <2>2 DEF FactorsOf, Weights
<1>14. PICK t : SumsOf(t, v, o) /\ Total(v) = t[o]
  BY <1>13, TotalSums
<1>15. PICK r : SumsOf(r, u, o) /\ Total(u) = r[o]
  BY <1>13, TotalSums
<1>16. Total(Window(s, p, h + 1, m)) = t[last] - t[h]
  <2>1. SumsOf(t, FactorsOf(s, p, o), o) /\ PathOf(s, p) /\ Len(p) + 1 = o
    BY <1>2, <1>3, <1>8, <1>11, <1>14
  <2>2. Within(s, p, o, t, h, m)
    BY <1>8, <2>1 DEF Within
  <2>3. WindowRise(s, p, t, h, m)
    BY <2>2, WindowSum
  <2> QED BY <1>8, <2>3 DEF WindowRise
<1>17. Total(Window(s, q, h + 1, m)) = r[last] - r[h]
  <2>1. SumsOf(r, FactorsOf(s, q, o), o) /\ PathOf(s, q) /\ Len(q) + 1 = o
    BY <1>4, <1>8, <1>11, <1>15
  <2>2. Within(s, q, o, r, h, m)
    BY <1>8, <2>1 DEF Within
  <2>3. WindowRise(s, q, r, h, m)
    BY <2>2, WindowSum
  <2> QED BY <1>8, <2>3 DEF WindowRise
<1>18. (\A k \in 0..o : t[k] \in Int /\ r[k] \in Int) /\ t[0] = 0 /\ r[0] = 0
  BY <1>14, <1>15 DEF SumsOf
<1>19. h \in 0..o /\ last \in 0..o /\ o \in 0..o /\ 0 \in 0..o /\ h \in 0..o /\ o \in last..o /\ h < i
  BY <1>4, <1>7, <1>8
<1>20. t[h] - t[0] = r[h] - r[0]
  <2>1. \A j \in (0 + 1)..h : v[j] = u[j]
    <3> SUFFICES ASSUME NEW j \in (0 + 1)..h PROVE v[j] = u[j]
      OBVIOUS
    <3>1. j \in 1..o /\ j \in 1..(n + 1) /\ j < i
      BY <1>8, <1>19
    <3> QED BY <1>4, <1>12, <3>1
  <2>2. h \in 0..o /\ 0 \in 0..o
    BY <1>19
  <2> QED BY <1>14, <1>15, <2>1, <2>2, SumsSame
<1>21. t[o] - t[last] = r[o] - r[last]
  <2>1. \A j \in (last + 1)..o : v[j] = u[j]
    <3> SUFFICES ASSUME NEW j \in (last + 1)..o PROVE v[j] = u[j]
      OBVIOUS
    <3>1. j \in 1..o /\ j \in 1..(n + 1) /\ j > i + 2
      BY <1>4, <1>7, <1>8
    <3> QED BY <1>4, <1>12, <3>1
  <2> QED BY <1>14, <1>15, <1>19, <2>1, SumsSame
<1>22. r[o] <= t[o]
  <2>1. FullScore(s, p) = Total(v) /\ FullScore(s, q) = Total(u)
    BY <1>3, <1>4, <1>8, <1>11 DEF FullScore
  <2>2. FullScore(s, q) <= FullScore(s, p)
    BY <1>2, <1>3, <1>4 DEF BestOf
  <2> QED BY <1>14, <1>15, <2>1, <2>2
<1>23. r[last] - r[h] <= t[last] - t[h]
  <2>1. PICK a, b, d, e, f, g : /\ a = t[h] /\ b = t[last] /\ d = t[o] /\ e = r[h] /\ f = r[last] /\ g = r[o]
    OBVIOUS
  <2>2. a \in Int /\ b \in Int /\ d \in Int /\ e \in Int /\ f \in Int /\ g \in Int
    BY <1>18, <1>19, <2>1
  <2>3. a - 0 = e - 0 /\ d - b = g - f /\ g <= d
    BY <1>18, <1>20, <1>21, <1>22, <2>1
  <2>4. f - e <= b - a
    BY <2>2, <2>3
  <2> QED BY <2>1, <2>4
<1> QED BY <1>9, <1>10, <1>16, <1>17, <1>23

LEMMA ConditionalChosen == VInv => ChoiceIsConditionalBest
<1> SUFFICES ASSUME VInv, NEW a \in Chosen, a[1] \in Viterbi, NEW i \in DOMAIN a[3],
                    NEW c \in DOMAIN Completed(a[2])[i]
             PROVE  ConditionalScore(Completed(a[2]), a[3], i, c)
                      <= ConditionalScore(Completed(a[2]), a[3], i, a[3][i])
  BY DEF ChoiceIsConditionalBest
<1>1. PICK s, path : s = Completed(a[2]) /\ path = a[3]
  OBVIOUS
<1>2. s \in Seq(Seq(Words)) /\ BestOf(s, path)
  BY <1>1, ChoiceKnown
<1>3. i \in 1..Len(path) /\ i \in DOMAIN s
  BY <1>1, <1>2 DEF BestOf, PathOf
<1>4. c \in 1..Len(s[i])
  <2>1. s[i] \in Seq(Words)
    BY <1>2, <1>3
  <2> QED BY <1>1, <2>1
<1>5. ConditionalScore(s, path, i, c) <= ConditionalScore(s, path, i, path[i])
  BY <1>2, <1>3, <1>4, ConditionalBest
<1> QED BY <1>1, <1>5

\* Whatever the workers retain and however their calls interleave, with any
\* lexicon, weights, hashes and limits: whatever a Viterbi call drops on its
\* way, in the slots of the hash decoder or the states of the dense one, and
\* whether or not it falls back, no sequence of candidates scores higher than
\* the one it chooses, and conditional_candidate_scores on that choice gives no
\* candidate more than the chosen one.
THEOREM ViterbiIsBest == Spec => []ChoicesAreBest
<1>1. Init => VInv
  BY DEF Init, VInv
<1>2. VInv => ChoicesAreBest
  BY BestPathChosen, ConditionalChosen DEF ChoicesAreBest
<1> QED BY <1>1, <1>2, ViterbiKept, Invariant, PTL DEF Spec
=============================================================================
