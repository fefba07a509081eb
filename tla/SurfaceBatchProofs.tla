------------------------ MODULE SurfaceBatchProofs --------------------------
(***************************************************************************)
(* Proofs about SurfaceBatch, for every number of workers, every batch and *)
(* every capacity: the caches keep their bounds, a chunk is worked on by   *)
(* one worker only and never left out, a program in a cache is what        *)
(* encoding anew returns, and a batch returns what a stateless encoder     *)
(* would.                                                                  *)
(***************************************************************************)
EXTENDS SurfaceBatch, SequenceTheorems, FiniteSetTheorems, TLAPS

-----------------------------------------------------------------------------
\* Induction over sets of numbers, of which the ids of a batch need no words.
Numbers == INSTANCE LexicalProofs WITH CodeWords <- {}

Iterated(f, n, S, a, g) ==
  f \in [0..n -> S] /\ f[0] = a /\ \A k \in 1..n : f[k] = g[<<k, f[k - 1]>>]

LEMMA Defined ==
  ASSUME NEW n, NEW S, NEW a, NEW g, Numbers!Iterates(n, S, a, g)
  PROVE  \E f : Iterated(f, n, S, a, g)
BY Numbers!Iteration DEF Iterated

-----------------------------------------------------------------------------

(***************************************************************************)
(* The chunks of a batch are ranges of its documents.                      *)
(***************************************************************************)

\* What build_batch_ranges does with the next document.
CutStep(docs, i, last) ==
  LET bytes == last.bytes + Len(docs[i])
  IN IF bytes >= Target(docs) /\ i < Len(docs)
     THEN [ranges |-> Append(last.ranges, <<last.start, i>>), start |-> i + 1, bytes |-> 0]
     ELSE [last EXCEPT !.bytes = bytes]

RangesOf(n) == Seq((1..n) \X (1..n))

CutStates(n) == [ranges : RangesOf(n), start : 1..n, bytes : Nat]

\* The recursion of Cut is what it says.
CutRuns(docs, n) ==
  /\ Cut(docs)[0] = [ranges |-> <<>>, start |-> 1, bytes |-> 0]
  /\ \A i \in 1..n : Cut(docs)[i] = CutStep(docs, i, Cut(docs)[i - 1])
  /\ \A i \in 0..n : Cut(docs)[i] \in CutStates(n)

LEMMA CutShape ==
  ASSUME NEW docs \in Seq(Seq(Atom)), NEW n \in Nat \ {0}, n = Len(docs)
  PROVE  CutRuns(docs, n)
<1> DEFINE S == CutStates(n)
           a == [ranges |-> <<>>, start |-> 1, bytes |-> 0]
           g == [p \in (1..n) \X S |-> CutStep(docs, p[1], p[2])]
           Right(f) == f = [i \in 0..n |-> IF i = 0 THEN a ELSE CutStep(docs, i, f[i - 1])]
<1> USE DEF CutStates
<1>1. a \in S
  BY EmptySeq DEF RangesOf
<1>2. ASSUME NEW i \in 1..n, NEW last \in S PROVE CutStep(docs, i, last) \in S
  <2>1. docs[i] \in Seq(Atom)
    BY ElementOfSeq
  <2>2. PICK bytes \in Nat : bytes = last.bytes + Len(docs[i])
    BY <2>1
  <2>3. [last EXCEPT !.bytes = bytes] \in S
    OBVIOUS
  <2>4. ASSUME i < n
        PROVE  [ranges |-> Append(last.ranges, <<last.start, i>>), start |-> i + 1, bytes |-> 0] \in S
    <3>1. <<last.start, i>> \in (1..n) \X (1..n) /\ last.ranges \in RangesOf(n)
      OBVIOUS
    <3>2. Append(last.ranges, <<last.start, i>>) \in RangesOf(n)
      BY <3>1, AppendProperties DEF RangesOf
    <3>3. i + 1 \in 1..n
      BY <2>4
    <3> QED BY <3>2, <3>3
  <2> HIDE DEF S
  <2> QED BY <2>2, <2>3, <2>4 DEF CutStep
<1>3. PICK f \in [0..n -> S] : f[0] = a /\ \A i \in 1..n : f[i] = g[<<i, f[i - 1]>>]
  <2> HIDE DEF g, S, a
  <2>1. g \in [(1..n) \X S -> S]
    BY <1>2 DEF g
  <2>2. Numbers!Iterates(n, S, a, g)
    BY <1>1, <2>1 DEF Numbers!Iterates
  <2>3. PICK f : Iterated(f, n, S, a, g)
    BY <2>2, Defined
  <2> QED BY <2>3 DEF Iterated
<1>4. \A i \in 1..n : f[i] = CutStep(docs, i, f[i - 1])
  <2> SUFFICES ASSUME NEW i \in 1..n PROVE f[i] = CutStep(docs, i, f[i - 1])
    OBVIOUS
  <2> HIDE DEF S, a, g
  <2>1. i - 1 \in 0..n
    OBVIOUS
  <2>2. f[i - 1] \in S
    BY <1>3, <2>1
  <2>3. <<i, f[i - 1]>> \in (1..n) \X S
    BY <2>2
  <2> QED BY <1>3, <2>3 DEF g
<1>5. Right(f)
  <2>1. \A i \in 0..n : i # 0 => i \in 1..n
    OBVIOUS
  <2> HIDE DEF S, a, g
  <2> QED BY <1>3, <1>4, <2>1
<1>6. Cut(docs) = CHOOSE x : Right(x)
  BY DEF Cut, CutStep
<1>7. Right(Cut(docs))
  <2> HIDE DEF Right
  <2> QED BY <1>5, <1>6
<1> DEFINE c == Cut(docs)
<1> HIDE DEF c, S, a
<1>8. c[0] = a /\ \A i \in 1..n : c[i] = CutStep(docs, i, c[i - 1])
  <2>1. c = [i \in 0..n |-> IF i = 0 THEN a ELSE CutStep(docs, i, c[i - 1])]
    BY <1>7 DEF c
  <2> QED BY <2>1, SMTT(30)
<1> DEFINE T == {i \in Nat : i <= n => c[i] \in S}
<1>9. 0 \in T
  BY <1>1, <1>8
<1>10. ASSUME NEW i \in Nat, i \in T PROVE i + 1 \in T
  <2> SUFFICES ASSUME i + 1 <= n PROVE c[i + 1] \in S
    OBVIOUS
  <2>1. PICK j \in 1..n : j = i + 1 /\ j - 1 = i
    OBVIOUS
  <2>2. c[i] \in S
    BY <1>10
  <2> QED BY <1>2, <1>8, <2>1, <2>2
<1>11. Nat \subseteq T
  <2> HIDE DEF T
  <2> QED BY <1>9, <1>10, Numbers!Induct
<1>12. \A i \in 0..n : c[i] \in S
  BY <1>11
<1> QED BY <1>8, <1>12 DEF S, a, c, CutRuns

\* Chunks that follow each other from the first document on, and where the one
\* behind them starts.
Behind(r, k) == IF k = 0 THEN 1 ELSE r[k][2] + 1

Tiles(r, s) ==
  /\ \A k \in 1..Len(r) : r[k][1] = Behind(r, k - 1) /\ r[k][1] <= r[k][2]
  /\ s = Behind(r, Len(r))

LEMMA NextTile ==
  ASSUME NEW n \in Nat, NEW r \in RangesOf(n), NEW s \in 1..n, Tiles(r, s), NEW e \in s..n
  PROVE  Append(r, <<s, e>>) \in RangesOf(n) /\ Tiles(Append(r, <<s, e>>), e + 1)
<1>1. PICK t, x : x = <<s, e>> /\ t = Append(r, x)
  OBVIOUS
<1>2. x \in (1..n) \X (1..n) /\ x[1] = s /\ x[2] = e
  BY <1>1
<1>3. PICK m \in Nat : m = Len(r)
  BY DEF RangesOf
<1>4. t \in RangesOf(n) /\ Len(t) = m + 1 /\ (\A k \in 1..m : t[k] = r[k]) /\ t[m + 1] = x
  BY <1>1, <1>2, <1>3, AppendProperties DEF RangesOf
<1>5. \A k \in 0..m : Behind(t, k) = Behind(r, k)
  BY <1>3, <1>4 DEF Behind
<1>6. ASSUME NEW k \in 1..m PROVE t[k][1] = Behind(t, k - 1) /\ t[k][1] <= t[k][2]
  <2>1. k - 1 \in 0..m /\ t[k] = r[k]
    BY <1>4
  <2>2. r[k][1] = Behind(r, k - 1) /\ r[k][1] <= r[k][2]
    BY <1>3 DEF Tiles
  <2> QED BY <1>5, <2>1, <2>2
<1>7. t[m + 1][1] = Behind(t, m) /\ t[m + 1][1] <= t[m + 1][2]
  BY <1>2, <1>3, <1>4, <1>5 DEF Tiles
<1>8. e + 1 = Behind(t, m + 1)
  BY <1>2, <1>4 DEF Behind
<1>9. \A k \in 1..(m + 1) : t[k][1] = Behind(t, k - 1) /\ t[k][1] <= t[k][2]
  <2> SUFFICES ASSUME NEW k \in 1..(m + 1) PROVE t[k][1] = Behind(t, k - 1) /\ t[k][1] <= t[k][2]
    OBVIOUS
  <2>1. CASE k = m + 1
    <3>1. k - 1 = m
      BY <2>1
    <3> QED BY <1>7, <2>1, <3>1
  <2>2. CASE k # m + 1
    <3>1. k \in 1..m
      BY <2>2
    <3> QED BY <1>6, <3>1
  <2> QED BY <2>1, <2>2
<1> QED BY <1>1, <1>4, <1>8, <1>9 DEF Tiles

LEMMA CutTiles ==
  ASSUME NEW docs \in Seq(Seq(Atom)), NEW n \in Nat \ {0}, n = Len(docs)
  PROVE  Ranges(docs) \in RangesOf(n) /\ Tiles(Ranges(docs), n + 1)
<1> DEFINE c == Cut(docs)
<1>1. CutRuns(docs, n)
  BY CutShape
<1> HIDE DEF c
<1>2. /\ c[0] = [ranges |-> <<>>, start |-> 1, bytes |-> 0]
      /\ \A i \in 1..n : c[i] = CutStep(docs, i, c[i - 1])
      /\ \A i \in 0..n : c[i] \in CutStates(n)
  BY <1>1 DEF c, CutRuns
<1> DEFINE T == {i \in Nat : i <= n => Tiles(c[i].ranges, c[i].start) /\ c[i].start <= i + 1}
<1>3. 0 \in T
  BY <1>2 DEF Tiles, Behind
<1>4. ASSUME NEW i \in Nat, i \in T PROVE i + 1 \in T
  <2> SUFFICES ASSUME i + 1 <= n PROVE Tiles(c[i + 1].ranges, c[i + 1].start) /\ c[i + 1].start <= i + 2
    OBVIOUS
  <2>1. PICK j \in 1..n : j = i + 1 /\ j - 1 = i
    OBVIOUS
  <2>2. PICK last \in CutStates(n) : last = c[i] /\ Tiles(last.ranges, last.start) /\ last.start <= j
    BY <1>2, <1>4, <2>1
  <2>3. c[j] = CutStep(docs, j, last)
    BY <1>2, <2>1, <2>2
  <2>4. CASE j < n /\ c[j] = [ranges |-> Append(last.ranges, <<last.start, j>>), start |-> j + 1, bytes |-> 0]
    <3>1. PICK r, s : r = last.ranges /\ s = last.start
      OBVIOUS
    <3>2. r \in RangesOf(n) /\ s \in 1..n /\ Tiles(r, s) /\ j \in s..n
      BY <2>2, <3>1 DEF CutStates
    <3>3. Tiles(Append(r, <<s, j>>), j + 1)
      BY <3>2, NextTile
    <3>4. c[j].ranges = Append(r, <<s, j>>) /\ c[j].start = j + 1
      BY <2>4, <3>1, SMTT(30)
    <3> QED BY <2>1, <3>3, <3>4
  <2>5. CASE c[j].ranges = last.ranges /\ c[j].start = last.start
    <3>1. last.start \in Nat
      BY <2>2 DEF CutStates
    <3> QED BY <2>1, <2>2, <2>5, <3>1
  <2>6. \/ j < n /\ c[j] = [ranges |-> Append(last.ranges, <<last.start, j>>), start |-> j + 1, bytes |-> 0]
        \/ c[j].ranges = last.ranges /\ c[j].start = last.start
    BY <2>2, <2>3 DEF CutStep, CutStates
  <2> QED BY <2>4, <2>5, <2>6
<1>5. Nat \subseteq T
  <2> HIDE DEF T
  <2> QED BY <1>3, <1>4, Numbers!Induct
<1>6. PICK r, s : r = c[n].ranges /\ s = c[n].start
  OBVIOUS
<1>7. Tiles(r, s) /\ r \in RangesOf(n) /\ s \in 1..n /\ n \in s..n
  <2>1. Tiles(r, s)
    BY <1>5, <1>6
  <2>2. n \in 0..n
    OBVIOUS
  <2>3. c[n] \in CutStates(n)
    BY <1>2, <2>2
  <2> QED BY <1>6, <2>1, <2>3 DEF CutStates
<1>8. Ranges(docs) = Append(r, <<s, n>>)
  BY <1>6 DEF Ranges, c
<1> QED BY <1>7, <1>8, NextTile

LEMMA BatchTiles ==
  ASSUME NEW b \in Batches, b.docs # <<>>, NEW n, n = Len(b.docs), NEW chunks, chunks = BatchChunks[b]
  PROVE  /\ n \in Nat \ {0} /\ chunks \in RangesOf(n) /\ Tiles(chunks, n + 1)
         /\ Len(chunks) \in Nat \ {0}
<1>1. b.docs \in Seq(Seq(Atom))
  BY SurfaceBatchAssumption DEF Batch
<1>2. n \in Nat \ {0}
  BY <1>1, EmptySeq
<1>3. chunks = Ranges(b.docs) \/ chunks = << <<1, n>> >>
  BY DEF BatchChunks, Chunks
<1>4. CASE chunks = << <<1, n>> >>
  <2>1. PICK x : x = <<1, n>>
    OBVIOUS
  <2>2. x \in (1..n) \X (1..n) /\ x[1] = 1 /\ x[2] = n
    BY <1>2, <2>1
  <2>3. chunks \in RangesOf(n) /\ Len(chunks) = 1 /\ chunks[1] = x
    BY <1>4, <2>1, <2>2 DEF RangesOf
  <2> QED BY <1>2, <2>2, <2>3 DEF Tiles, Behind
<1>5. CASE chunks = Ranges(b.docs)
  <2>1. chunks \in RangesOf(n) /\ Tiles(chunks, n + 1)
    BY <1>1, <1>2, <1>5, CutTiles
  <2>2. Len(chunks) \in Nat
    BY <2>1 DEF RangesOf
  <2>3. Len(chunks) # 0
    BY <1>2, <2>1 DEF Tiles, Behind
  <2> QED BY <1>2, <2>1, <2>2, <2>3
<1> QED BY <1>3, <1>4, <1>5

LEMMA ChunksInBatch ==
  ASSUME NEW b \in Batches
  PROVE  /\ Len(BatchChunks[b]) \in Nat
         /\ \A k \in 1..Len(BatchChunks[b]) :
              BatchChunks[b][k][1] \in Nat \ {0} /\ BatchChunks[b][k][2] \in 1..Len(b.docs)
<1>1. CASE b.docs = <<>>
  <2>1. BatchChunks[b] = <<>>
    BY <1>1 DEF BatchChunks
  <2> QED BY <2>1
<1>2. CASE b.docs # <<>>
  <2>1. PICK n, chunks : n = Len(b.docs) /\ chunks = BatchChunks[b]
    OBVIOUS
  <2>2. n \in Nat \ {0} /\ chunks \in RangesOf(n)
    BY <1>2, <2>1, BatchTiles
  <2>3. Len(chunks) \in Nat /\ \A k \in 1..Len(chunks) : chunks[k] \in (1..n) \X (1..n)
    BY ElementOfSeq, <2>2 DEF RangesOf
  <2>4. \A k \in 1..Len(chunks) : chunks[k][1] \in Nat \ {0} /\ chunks[k][2] \in 1..n
    BY <2>3
  <2> QED BY <2>1, <2>3, <2>4
<1> QED BY <1>1, <1>2

-----------------------------------------------------------------------------
(***************************************************************************)
(* The inductive invariant.                                                *)
(***************************************************************************)

IsList(s) == s \in Seq({s[i] : i \in DOMAIN s})

\* The fields the steps read and write.
IsWork(r) ==
  /\ r = [pc |-> r.pc, chunk |-> r.chunk, document |-> r.document, at |-> r.at,
          groups |-> r.groups, output |-> r.output, completed |-> r.completed]
  /\ IsList(r.completed)

WorkShape ==
  /\ work = [w \in Worker |-> work[w]]
  /\ \A w \in Worker : IsWork(work[w])

IsCache(cache) ==
  /\ cache = [context |-> cache.context, programs |-> cache.programs,
              documents |-> cache.documents]
  /\ cache.context \in {AddressOf[v] : v \in Vocab} \cup {NoContext}
  /\ IsFiniteSet(DOMAIN cache.programs)
  /\ Cardinality(DOMAIN cache.programs) <= ProgramCapacity
  /\ IsFiniteSet(DOMAIN cache.documents)
  /\ Cardinality(DOMAIN cache.documents) <= DocumentCapacity

CachesShape ==
  /\ caches = [w \in Worker |-> caches[w]]
  /\ \A w \in Worker : IsCache(caches[w])

\* Chunks in hand or completed were claimed from this batch.
ChunksClaimed ==
  \A w \in Worker : ChunksAt(w) \subseteq {k \in 1..(next - 1) : k <= Len(BatchChunks[batch])}

IInv ==
  /\ TypeOK
  /\ WorkShape
  /\ CachesShape
  /\ ChunksClaimed
  /\ EveryChunkOnce

-----------------------------------------------------------------------------
(***************************************************************************)
(* About sequences, sets and the operators of the model.                   *)
(***************************************************************************)

LEMMA MinOfTwo ==
  ASSUME NEW a \in Int, NEW b \in Int
  PROVE  Min({a, b}) = IF a <= b THEN a ELSE b
<1>1. CASE a <= b
  <2>1. \A x \in {a, b} : (\A y \in {a, b} : x <= y) <=> x = a
    BY <1>1
  <2> QED BY <1>1, <2>1 DEF Min
<1>2. CASE ~(a <= b)
  <2>1. \A x \in {a, b} : (\A y \in {a, b} : x <= y) <=> x = b
    BY <1>2
  <2> QED BY <1>2, <2>1 DEF Min
<1> QED BY <1>1, <1>2

LEMMA EmptyList == IsList(<<>>) /\ DOMAIN <<>> = {}
  BY DEF IsList

LEMMA LongerList ==
  ASSUME NEW s, IsList(s), NEW x
  PROVE  /\ IsList(Append(s, x))
         /\ Len(s) \in Nat
         /\ DOMAIN s = 1..Len(s)
         /\ DOMAIN Append(s, x) = 1..(Len(s) + 1)
         /\ \A i \in 1..Len(s) : Append(s, x)[i] = s[i]
         /\ Append(s, x)[Len(s) + 1] = x
<1> DEFINE S == {s[i] : i \in DOMAIN s}
           T == S \cup {x}
           t == Append(s, x)
<1>1. s \in Seq(S)
  BY DEF IsList
<1>2. Len(s) \in Nat /\ DOMAIN s = 1..Len(s)
  BY <1>1
<1>3. s \in Seq(T)
  <2>1. \A i \in 1..Len(s) : s[i] \in T
    BY <1>2
  <2> HIDE DEF T
  <2> QED BY <1>1, <1>2, <2>1, SeqDef
<1>4. /\ t \in Seq(T)
      /\ DOMAIN t = 1..(Len(s) + 1)
      /\ \A i \in 1..Len(s) : t[i] = s[i]
      /\ t[Len(s) + 1] = x
  <2> HIDE DEF T
  <2>1. x \in T
    BY DEF T
  <2> QED BY <1>2, <1>3, <2>1
<1>5. IsList(t)
  <2> DEFINE R == {t[i] : i \in DOMAIN t}
  <2>1. \A i \in 1..(Len(s) + 1) : t[i] \in R
    BY <1>4
  <2>2. t = [i \in 1..(Len(s) + 1) |-> t[i]]
    <3> HIDE DEF T, t
    <3>1. t \in [1..Len(t) -> T] /\ Len(t) \in Nat
      BY <1>4
    <3>2. 1..Len(t) = 1..(Len(s) + 1)
      BY <1>4, <3>1
    <3> QED BY <3>1, <3>2
  <2> HIDE DEF R, t
  <2>3. t \in Seq(R)
    BY <1>2, <2>1, <2>2, SeqDef
  <2> QED BY <2>3 DEF R, IsList
<1> QED BY <1>2, <1>4, <1>5

\* A table within its capacity stays within it.
LEMMA RetainBounded ==
  ASSUME NEW table, NEW capacity \in Nat, NEW key, NEW value,
         IsFiniteSet(DOMAIN table), Cardinality(DOMAIN table) <= capacity
  PROVE  /\ IsFiniteSet(DOMAIN Retain(table, capacity, key, value))
         /\ Cardinality(DOMAIN Retain(table, capacity, key, value)) <= capacity
<1>1. Cardinality(DOMAIN table) \in Nat
  BY FS_CardinalityType
<1>2. CASE Cardinality(DOMAIN table) >= capacity \/ key \in DOMAIN table
  BY <1>2 DEF Retain
<1>3. CASE ~(Cardinality(DOMAIN table) >= capacity \/ key \in DOMAIN table)
  <2>1. DOMAIN Retain(table, capacity, key, value) = DOMAIN table \cup {key}
    BY <1>3 DEF Retain
  <2>2. /\ IsFiniteSet(DOMAIN table \cup {key})
        /\ Cardinality(DOMAIN table \cup {key}) = Cardinality(DOMAIN table) + 1
    BY <1>3, FS_AddElement
  <2> QED BY <1>1, <1>3, <2>1, <2>2
<1> QED BY <1>2, <1>3

LEMMA NoCacheIsCache == IsCache(NoCache)
<1>1. DOMAIN <<>> = {} /\ IsFiniteSet({}) /\ Cardinality({}) = 0
  BY EmptyList, FS_EmptySet
<1>2. /\ NoCache = [context |-> NoContext, programs |-> <<>>, documents |-> <<>>]
      /\ NoCache.context = NoContext
      /\ NoCache.programs = <<>>
      /\ NoCache.documents = <<>>
  BY DEF NoCache
<1> HIDE DEF NoCache
<1> QED BY <1>1, <1>2, SurfaceBatchAssumption DEF IsCache

LEMMA PreparedIsCache ==
  ASSUME NEW cache, IsCache(cache), NEW v \in Vocab
  PROVE  IsCache(Prepared(cache, v))
<1>1. DOMAIN <<>> = {} /\ IsFiniteSet({}) /\ Cardinality({}) = 0
  BY EmptyList, FS_EmptySet
<1>2. CASE cache.context = AddressOf[v]
  BY <1>2 DEF Prepared
<1>3. CASE cache.context # AddressOf[v]
  <2> DEFINE c == [context |-> AddressOf[v], programs |-> <<>>, documents |-> <<>>]
  <2>1. Prepared(cache, v) = c
    BY <1>3 DEF Prepared
  <2>2. /\ c = [context |-> c.context, programs |-> c.programs, documents |-> c.documents]
        /\ c.context = AddressOf[v]
        /\ c.programs = <<>>
        /\ c.documents = <<>>
    OBVIOUS
  <2> HIDE DEF c
  <2>3. IsCache(c)
    BY <1>1, <2>2, SurfaceBatchAssumption DEF IsCache
  <2> QED BY <2>1, <2>3
<1> QED BY <1>2, <1>3

LEMMA RetainedIsCache ==
  ASSUME NEW cache, IsCache(cache), NEW key, NEW value
  PROVE  /\ IsCache([cache EXCEPT !.programs = Retain(@, ProgramCapacity, key, value)])
         /\ IsCache([cache EXCEPT !.documents = Retain(@, DocumentCapacity, key, value)])
<1> DEFINE p == Retain(cache.programs, ProgramCapacity, key, value)
           d == Retain(cache.documents, DocumentCapacity, key, value)
<1>1. IsFiniteSet(DOMAIN p) /\ Cardinality(DOMAIN p) <= ProgramCapacity
  BY RetainBounded, SurfaceBatchAssumption DEF IsCache
<1>2. IsFiniteSet(DOMAIN d) /\ Cardinality(DOMAIN d) <= DocumentCapacity
  BY RetainBounded, SurfaceBatchAssumption DEF IsCache
<1> HIDE DEF p, d
<1>3. IsCache([cache EXCEPT !.programs = p])
  BY <1>1 DEF IsCache
<1>4. IsCache([cache EXCEPT !.documents = d])
  BY <1>2 DEF IsCache
<1> QED BY <1>3, <1>4 DEF p, d

LEMMA OneCacheChanges ==
  ASSUME CachesShape, NEW w \in Worker, NEW c, IsCache(c), caches' = [caches EXCEPT ![w] = c]
  PROVE  CachesShape'
<1>1. caches' = [u \in Worker |-> caches'[u]]
  BY DEF CachesShape
<1>2. \A u \in Worker : IsCache(caches'[u])
  BY DEF CachesShape
<1> QED BY <1>1, <1>2 DEF CachesShape

-----------------------------------------------------------------------------
(***************************************************************************)
(* How the steps move the chunks.  While no worker has claimed, there are  *)
(* none to move.                                                           *)
(***************************************************************************)

LEMMA NothingClaimed ==
  ASSUME \A w \in Worker : /\ work'[w].pc \in {"off", "claim"}
                            /\ work'[w].completed = <<>>,
         batch' # Idle => next' = 1 /\ Len(BatchChunks[batch']) \in Nat
  PROVE  ChunksClaimed' /\ EveryChunkOnce'
<1>1. \A w \in Worker : ChunksAt(w)' = {}
  BY EmptyList DEF ChunksAt
<1>2. batch' # Idle => 1..Min({next' - 1, Len(BatchChunks[batch'])}) = {}
  <2> SUFFICES ASSUME batch' # Idle
               PROVE  1..Min({next' - 1, Len(BatchChunks[batch'])}) = {}
    OBVIOUS
  <2>1. next' - 1 = 0
    OBVIOUS
  <2>2. Min({0, Len(BatchChunks[batch'])}) = 0
    BY MinOfTwo
  <2> QED BY <2>1, <2>2
<1>3. UNION {ChunksAt(w)' : w \in Worker} = {}
  BY <1>1
<1> QED BY <1>1, <1>2, <1>3 DEF ChunksClaimed, EveryChunkOnce

\* A step that claims nothing leaves the chunks where they are, or, when its
\* worker fails, gives some up.
LEMMA NothingMoves ==
  ASSUME ChunksClaimed, EveryChunkOnce,
         UNCHANGED <<batch, next>>,
         \A u \in Worker : /\ ChunksAt(u)' \subseteq ChunksAt(u)
                           /\ work[u].pc = "failed" => work'[u].pc = "failed"
                           /\ work'[u].pc # "failed" => ChunksAt(u)' = ChunksAt(u)
  PROVE  ChunksClaimed' /\ EveryChunkOnce'
<1>1. ChunksClaimed'
  BY DEF ChunksClaimed
<1>2. ASSUME batch' # Idle
      PROVE  \A u, v \in Worker : u # v => ChunksAt(u)' \cap ChunksAt(v)' = {}
  BY <1>2 DEF EveryChunkOnce
<1>3. ASSUME batch' # Idle, \A u \in Worker : work'[u].pc # "failed"
      PROVE  UNION {ChunksAt(u)' : u \in Worker} = 1..Min({next' - 1, Len(BatchChunks[batch'])})
  <2>1. \A u \in Worker : work[u].pc # "failed"
    BY <1>3
  <2>2. \A u \in Worker : ChunksAt(u)' = ChunksAt(u)
    BY <1>3
  <2>3. UNION {ChunksAt(u)' : u \in Worker} = UNION {ChunksAt(u) : u \in Worker}
    BY <2>2
  <2> QED BY <1>3, <2>1, <2>3 DEF EveryChunkOnce
<1> QED BY <1>1, <1>2, <1>3 DEF EveryChunkOnce

\* A step of one worker moves that worker only.
Moves(w) == work' = [work EXCEPT ![w] = work'[w]] /\ IsWork(work'[w])

LEMMA OneWorkerMoves ==
  ASSUME WorkShape, NEW w \in Worker, Moves(w)
  PROVE  /\ WorkShape'
         /\ \A u \in Worker \ {w} : work'[u] = work[u] /\ ChunksAt(u)' = ChunksAt(u)
<1>1. \A u \in Worker \ {w} : work'[u] = work[u]
  BY DEF WorkShape, Moves
<1>2. work' = [u \in Worker |-> work'[u]]
  BY DEF WorkShape, Moves
<1>3. \A u \in Worker : IsWork(work'[u])
  BY <1>1 DEF WorkShape, Moves
<1>4. \A u \in Worker \ {w} : ChunksAt(u)' = ChunksAt(u)
  BY <1>1 DEF ChunksAt
<1> QED BY <1>1, <1>2, <1>3, <1>4 DEF WorkShape

\* A step of a worker that keeps the chunk in hand.
Works(w) ==
  /\ Moves(w)
  /\ {work[w].pc, work'[w].pc} \subseteq {"document", "lines", "encode"}
  /\ work'[w].chunk = work[w].chunk
  /\ work'[w].completed = work[w].completed

LEMMA SameChunk ==
  ASSUME WorkShape, NEW w \in Worker, Works(w)
  PROVE  /\ WorkShape'
         /\ \A u \in Worker : ChunksAt(u)' = ChunksAt(u)
         /\ \A u \in Worker \ {w} : work'[u] = work[u]
<1>1. /\ WorkShape'
      /\ \A u \in Worker \ {w} : work'[u] = work[u] /\ ChunksAt(u)' = ChunksAt(u)
  BY OneWorkerMoves DEF Works
<1>2. ChunksAt(w)' = ChunksAt(w)
  BY DEF Works, ChunksAt
<1> QED BY <1>1, <1>2

-----------------------------------------------------------------------------
(***************************************************************************)
(* The steps of a worker preserve the invariant.                           *)
(***************************************************************************)

PC == {"off", "claim", "document", "lines", "encode", "ended", "failed"}

LEMMA BusyBatch ==
  ASSUME TypeOK, NEW w \in Worker, work[w].pc # "off"
  PROVE  batch \in Batches /\ batch # Idle /\ batch.vocab \in Vocab
<1>1. batch # Idle
  BY DEF TypeOK, Off
<1> QED BY <1>1, SurfaceBatchAssumption DEF TypeOK, Batch

LEMMA StillTyped ==
  ASSUME TypeOK, CachesShape', batch # Idle, UNCHANGED <<options, batch, calls>>,
         next' \in Nat \ {0}, \A u \in Worker : work'[u].pc \in PC
  PROVE  TypeOK'
  BY DEF TypeOK, CachesShape, IsCache, PC

LEMMA WorkingStep ==
  ASSUME IInv, NEW w \in Worker, Works(w), CachesShape',
         UNCHANGED <<options, batch, next, calls>>
  PROVE  IInv'
<1>1. /\ WorkShape'
      /\ \A u \in Worker : ChunksAt(u)' = ChunksAt(u)
      /\ \A u \in Worker \ {w} : work'[u] = work[u]
  BY SameChunk DEF IInv
<1>2. batch # Idle
  BY BusyBatch DEF IInv, Works
<1>3. \A u \in Worker : work'[u].pc \in PC
  BY <1>1 DEF IInv, TypeOK, PC, Works
<1>4. TypeOK'
  BY <1>2, <1>3, StillTyped DEF IInv, TypeOK
<1>5. \A u \in Worker : work[u].pc = "failed" => work'[u].pc = "failed"
  BY <1>1 DEF Works
<1>6. ChunksClaimed' /\ EveryChunkOnce'
  BY <1>1, <1>5, NothingMoves DEF IInv
<1> QED BY <1>1, <1>4, <1>6 DEF IInv

\* The fields the steps of a worker write.
LEMMA Writes ==
  ASSUME WorkShape, NEW w \in Worker, work[w].pc \in {"document", "lines", "encode"},
         NEW pc \in {"document", "lines", "encode"}, NEW groups, NEW ids,
         \/ work' = [work EXCEPT ![w].pc = pc]
         \/ work' = [work EXCEPT ![w].at = NextEnd(w), ![w].groups = groups]
         \/ Delivered(w, ids)
  PROVE  Works(w)
<1>1. work = [u \in Worker |-> work[u]] /\ IsWork(work[w])
  BY DEF WorkShape
<1>2. CASE work' = [work EXCEPT ![w].pc = pc]
  BY <1>1, <1>2 DEF Works, Moves, IsWork
<1>3. CASE work' = [work EXCEPT ![w].at = NextEnd(w), ![w].groups = groups]
  BY <1>1, <1>3 DEF Works, Moves, IsWork
<1>4. CASE Delivered(w, ids)
  BY <1>1, <1>4 DEF Works, Moves, IsWork, Delivered
<1> QED BY <1>2, <1>3, <1>4

LEMMA DocumentSteps ==
  ASSUME IInv, NEW w \in Worker,
         \/ DocumentHit(w) \/ DocumentMiss(w) \/ LinesHit(w) \/ LinesMiss(w)
         \/ ChunkHit(w) \/ EncodeUnits(w) \/ FinishDocument(w)
  PROVE  IInv'
<1>1. /\ work[w].pc \in {"document", "lines", "encode"}
      /\ UNCHANGED <<options, batch, next, calls>>
  BY DEF DocumentHit, DocumentMiss, LinesHit, LinesMiss, ChunkHit, EncodeUnits, FinishDocument
<1>2. SUFFICES Works(w) /\ CachesShape'
  BY <1>1, WorkingStep
<1>3. WorkShape /\ CachesShape /\ IsCache(caches[w]) /\ caches = [u \in Worker |-> caches[u]]
  BY DEF IInv, CachesShape
<1>4. UNCHANGED caches => CachesShape'
  BY <1>3 DEF CachesShape
<1>5. ASSUME DocumentHit(w) \/ DocumentMiss(w)
      PROVE  CachesShape'
  <2>1. caches' = [caches EXCEPT ![w] = Prepared(caches[w], batch.vocab)]
    BY <1>5 DEF DocumentHit, DocumentMiss
  <2>2. batch.vocab \in Vocab
    BY <1>1, BusyBatch DEF IInv
  <2>3. IsCache(Prepared(caches[w], batch.vocab))
    BY <1>3, <2>2, PreparedIsCache
  <2> QED BY <1>3, <2>1, <2>3, OneCacheChanges
<1>6. ASSUME NEW groups, Finish(w, groups)
      PROVE  Works(w) /\ CachesShape'
  <2>1. PICK ids :
          /\ Delivered(w, ids)
          /\ caches' = [caches EXCEPT ![w].documents = Retain(@, DocumentCapacity, Key(w), ids)]
    BY <1>6 DEF Finish
  <2>2. caches' = [caches EXCEPT ![w] =
          [caches[w] EXCEPT !.documents = Retain(@, DocumentCapacity, Key(w), ids)]]
    BY <1>3, <2>1
  <2>3. CachesShape'
    BY <1>3, <2>2, RetainedIsCache, OneCacheChanges
  <2> QED BY <1>1, <1>3, <2>1, <2>3, Writes
<1>7. CASE DocumentHit(w)
  <2>1. Works(w)
    BY <1>1, <1>3, <1>7, Writes DEF DocumentHit
  <2> QED BY <1>5, <1>7, <2>1
<1>8. CASE DocumentMiss(w)
  <2>1. PICK pc \in {"lines", "encode"} : work' = [work EXCEPT ![w].pc = pc]
    BY <1>8 DEF DocumentMiss
  <2>2. Works(w)
    BY <1>1, <1>3, <2>1, Writes
  <2> QED BY <1>5, <1>8, <2>2
<1>9. CASE LinesHit(w)
  BY <1>6, <1>9 DEF LinesHit
<1>10. CASE LinesMiss(w)
  BY <1>1, <1>3, <1>4, <1>10, Writes DEF LinesMiss
<1>11. ASSUME NEW ids, Appended(w, ids)
       PROVE  Works(w)
  <2>1. PICK groups : work' = [work EXCEPT ![w].at = NextEnd(w), ![w].groups = groups]
    BY <1>11 DEF Appended
  <2> QED BY <1>1, <1>3, <2>1, Writes
<1>12. CASE ChunkHit(w)
  BY <1>4, <1>11, <1>12 DEF ChunkHit
<1>13. CASE EncodeUnits(w)
  <2>1. PICK ids :
          /\ Appended(w, ids)
          /\ caches' = IF options.mode = "code"
               THEN [caches EXCEPT ![w].programs =
                       Retain(@, ProgramCapacity, NextAtoms(w), ids)]
               ELSE caches
    BY <1>13 DEF EncodeUnits
  <2>2. CASE options.mode = "code"
    <3>1. caches' = [caches EXCEPT ![w] =
            [caches[w] EXCEPT !.programs = Retain(@, ProgramCapacity, NextAtoms(w), ids)]]
      BY <1>3, <2>1, <2>2
    <3>2. CachesShape'
      BY <1>3, <3>1, RetainedIsCache, OneCacheChanges
    <3> QED BY <1>11, <2>1, <3>2
  <2>3. CASE options.mode # "code"
    BY <1>4, <1>11, <2>1, <2>3
  <2> QED BY <2>2, <2>3
<1>14. CASE FinishDocument(w)
  BY <1>6, <1>14 DEF FinishDocument
<1> QED BY <1>7, <1>8, <1>9, <1>10, <1>12, <1>13, <1>14

\* What the counter stands for after a claim, whether or not a chunk was left.
LEMMA CounterAdvances ==
  ASSUME next \in Nat \ {0}, batch \in Batches
  PROVE  LET n == Len(BatchChunks[batch])
         IN /\ next <= n => 1..Min({next, n}) = 1..Min({next - 1, n}) \cup {next}
            /\ next > n => 1..Min({next, n}) = 1..Min({next - 1, n})
<1> DEFINE n == Len(BatchChunks[batch])
<1>1. n \in Nat
  BY ChunksInBatch
<1> HIDE DEF n
<1>2. /\ Min({next, n}) = IF next <= n THEN next ELSE n
      /\ Min({next - 1, n}) = IF next - 1 <= n THEN next - 1 ELSE n
  BY <1>1, MinOfTwo
<1>3. ASSUME next <= n
      PROVE  1..Min({next, n}) = 1..Min({next - 1, n}) \cup {next}
  BY <1>1, <1>2, <1>3
<1>4. ASSUME next > n
      PROVE  1..Min({next, n}) = 1..Min({next - 1, n})
  BY <1>1, <1>2, <1>4
<1> QED BY <1>3, <1>4 DEF n

LEMMA ClaimStep ==
  ASSUME IInv, NEW w \in Worker, Claim(w)
  PROVE  IInv'
<1> DEFINE n == Len(BatchChunks[batch])
<1>1. /\ work[w].pc = "claim"
      /\ next <= n
      /\ next' = next + 1
      /\ UNCHANGED <<options, batch, caches, calls>>
  BY DEF Claim
<1>2. batch \in Batches /\ batch # Idle
  BY <1>1, BusyBatch DEF IInv
<1>3. n \in Nat /\ next \in Nat \ {0}
  BY <1>2, ChunksInBatch DEF IInv, TypeOK
<1>4. /\ Moves(w)
      /\ work'[w].pc = "document"
      /\ work'[w].chunk = next
      /\ work'[w].completed = work[w].completed
  <2>1. WorkShape /\ IsWork(work[w])
    BY DEF IInv, WorkShape
  <2>2. /\ work' = [work EXCEPT ![w] = work'[w]]
        /\ work'[w] = [pc |-> "document", chunk |-> next,
             document |-> BatchChunks[batch][next][1], at |-> work[w].at,
             groups |-> work[w].groups, output |-> <<>>, completed |-> work[w].completed]
    BY <2>1 DEF Claim, WorkShape, IsWork
  <2> QED BY <2>1, <2>2 DEF Moves, IsWork
<1>5. /\ WorkShape'
      /\ \A u \in Worker \ {w} : work'[u] = work[u] /\ ChunksAt(u)' = ChunksAt(u)
  BY <1>4, OneWorkerMoves DEF IInv
<1>6. ChunksAt(w)' = ChunksAt(w) \cup {next}
  BY <1>1, <1>4 DEF ChunksAt
<1>7. CachesShape' /\ TypeOK'
  <2>1. CachesShape'
    BY <1>1 DEF IInv, CachesShape
  <2>2. \A u \in Worker : work'[u].pc \in PC
    BY <1>4, <1>5 DEF IInv, TypeOK, PC
  <2>3. next' \in Nat \ {0}
    BY <1>1, <1>3
  <2> QED BY <1>1, <1>2, <2>1, <2>2, <2>3, StillTyped DEF IInv
<1> HIDE DEF n
<1>8. \A u \in Worker : ChunksAt(u) \subseteq {k \in 1..(next - 1) : k <= n}
  BY DEF IInv, ChunksClaimed, n
<1>9. ChunksClaimed'
  <2>1. \A u \in Worker : ChunksAt(u)' \subseteq {k \in 1..next : k <= n}
    BY <1>1, <1>3, <1>5, <1>6, <1>8
  <2>2. next' - 1 = next
    BY <1>1, <1>3
  <2> QED BY <1>1, <2>1, <2>2 DEF ChunksClaimed, n
<1>10. \A u, v \in Worker : u # v => ChunksAt(u)' \cap ChunksAt(v)' = {}
  <2>1. \A u, v \in Worker : u # v => ChunksAt(u) \cap ChunksAt(v) = {}
    BY <1>2 DEF IInv, EveryChunkOnce
  <2>2. \A u \in Worker : next \notin ChunksAt(u)
    BY <1>3, <1>8
  <2> QED BY <1>5, <1>6, <2>1, <2>2
<1>11. ASSUME \A u \in Worker : work'[u].pc # "failed"
       PROVE  UNION {ChunksAt(u)' : u \in Worker} = 1..Min({next' - 1, n})
  <2>1. \A u \in Worker : work[u].pc # "failed"
    BY <1>1, <1>5, <1>11
  <2>2. UNION {ChunksAt(u) : u \in Worker} = 1..Min({next - 1, n})
    BY <1>2, <2>1 DEF IInv, EveryChunkOnce, n
  <2>3. UNION {ChunksAt(u)' : u \in Worker} = (UNION {ChunksAt(u) : u \in Worker}) \cup {next}
    BY <1>5, <1>6
  <2>4. 1..Min({next, n}) = 1..Min({next - 1, n}) \cup {next}
    BY <1>1, <1>2, <1>3, CounterAdvances DEF n
  <2>5. next' - 1 = next
    BY <1>1, <1>3
  <2>6. Min({next' - 1, n}) = Min({next, n})
    BY <2>5
  <2> QED BY <2>2, <2>3, <2>4, <2>6
<1>12. EveryChunkOnce'
  BY <1>1, <1>10, <1>11 DEF EveryChunkOnce, n
<1> QED BY <1>5, <1>7, <1>9, <1>12 DEF IInv

\* No chunk is left: the counter still advances, past the last chunk.
LEMMA NoChunkLeftStep ==
  ASSUME IInv, NEW w \in Worker, NoChunkLeft(w)
  PROVE  IInv'
<1> DEFINE n == Len(BatchChunks[batch])
<1>1. /\ work[w].pc = "claim"
      /\ next > n
      /\ next' = next + 1
      /\ UNCHANGED <<options, batch, caches, calls>>
  BY DEF NoChunkLeft
<1>2. batch \in Batches /\ batch # Idle
  BY <1>1, BusyBatch DEF IInv
<1>3. n \in Nat /\ next \in Nat \ {0}
  BY <1>2, ChunksInBatch DEF IInv, TypeOK
<1>4. /\ Moves(w)
      /\ work'[w].pc = "ended"
      /\ work'[w].completed = work[w].completed
  BY DEF IInv, WorkShape, IsWork, Moves, NoChunkLeft
<1>5. /\ WorkShape'
      /\ \A u \in Worker \ {w} : work'[u] = work[u] /\ ChunksAt(u)' = ChunksAt(u)
  BY <1>4, OneWorkerMoves DEF IInv
<1>6. \A u \in Worker : ChunksAt(u)' = ChunksAt(u)
  <2>1. ChunksAt(w)' = ChunksAt(w)
    BY <1>1, <1>4 DEF ChunksAt
  <2> QED BY <1>5, <2>1
<1>7. CachesShape' /\ TypeOK'
  <2>1. CachesShape'
    BY <1>1 DEF IInv, CachesShape
  <2>2. \A u \in Worker : work'[u].pc \in PC
    BY <1>4, <1>5 DEF IInv, TypeOK, PC
  <2>3. next' \in Nat \ {0}
    BY <1>1, <1>3
  <2> QED BY <1>1, <1>2, <2>1, <2>2, <2>3, StillTyped DEF IInv
<1> HIDE DEF n
<1>8. \A u \in Worker : ChunksAt(u) \subseteq {k \in 1..(next - 1) : k <= n}
  BY DEF IInv, ChunksClaimed, n
<1>9. next' - 1 = next
  BY <1>1, <1>3
<1>10. ChunksClaimed'
  <2>1. \A u \in Worker : ChunksAt(u)' \subseteq {k \in 1..next : k <= n}
    BY <1>3, <1>6, <1>8
  <2> QED BY <1>1, <1>9, <2>1 DEF ChunksClaimed, n
<1>11. ASSUME \A u \in Worker : work'[u].pc # "failed"
       PROVE  UNION {ChunksAt(u)' : u \in Worker} = 1..Min({next' - 1, n})
  <2>1. \A u \in Worker : work[u].pc # "failed"
    BY <1>1, <1>5, <1>11
  <2>2. UNION {ChunksAt(u) : u \in Worker} = 1..Min({next - 1, n})
    BY <1>2, <2>1 DEF IInv, EveryChunkOnce, n
  <2>3. UNION {ChunksAt(u)' : u \in Worker} = UNION {ChunksAt(u) : u \in Worker}
    BY <1>6
  <2> QED BY <1>1, <1>2, <1>3, <1>9, <2>2, <2>3, CounterAdvances DEF n
<1>12. \A u, v \in Worker : u # v => ChunksAt(u)' \cap ChunksAt(v)' = {}
  BY <1>2, <1>6 DEF IInv, EveryChunkOnce
<1>13. EveryChunkOnce'
  BY <1>1, <1>11, <1>12 DEF EveryChunkOnce, n
<1> QED BY <1>5, <1>7, <1>10, <1>13 DEF IInv

\* The chunk in hand becomes one of the completed; a failing worker loses all.
LEMMA ChunkEndSteps ==
  ASSUME IInv, NEW w \in Worker, ChunkDone(w) \/ EncodeFails(w)
  PROVE  IInv'
<1>1. /\ work[w].pc \in {"document", "encode"}
      /\ UNCHANGED <<options, batch, next, caches, calls>>
  BY DEF ChunkDone, EncodeFails
<1>2. batch # Idle
  BY <1>1, BusyBatch DEF IInv
<1>3. WorkShape /\ IsWork(work[w])
  BY DEF IInv, WorkShape
<1>4. /\ Moves(w)
      /\ work'[w].pc \in {"claim", "failed"}
      /\ ChunksAt(w)' \subseteq ChunksAt(w)
      /\ work'[w].pc # "failed" => ChunksAt(w)' = ChunksAt(w)
  <2>1. CASE ChunkDone(w)
    <3> DEFINE old == work[w].completed
               entry == [chunk |-> work[w].chunk, output |-> work[w].output]
    <3>1. /\ work' = [work EXCEPT ![w] = work'[w]]
          /\ work'[w] = [pc |-> "claim", chunk |-> work[w].chunk, document |-> work[w].document,
               at |-> work[w].at, groups |-> work[w].groups, output |-> work[w].output,
               completed |-> Append(old, entry)]
      BY <1>3, <2>1 DEF ChunkDone, WorkShape, IsWork
    <3>2. IsList(old)
      BY <1>3 DEF IsWork
    <3>3. entry.chunk = work[w].chunk
      OBVIOUS
    <3> HIDE DEF old, entry
    <3>4. /\ IsList(Append(old, entry))
          /\ Len(old) \in Nat
          /\ DOMAIN old = 1..Len(old)
          /\ DOMAIN Append(old, entry) = 1..(Len(old) + 1)
          /\ \A i \in 1..Len(old) : Append(old, entry)[i] = old[i]
          /\ Append(old, entry)[Len(old) + 1] = entry
      BY <3>2, LongerList
    <3>5. Moves(w)
      BY <3>1, <3>4 DEF Moves, IsWork
    <3>6. {Append(old, entry)[i].chunk : i \in DOMAIN Append(old, entry)}
            = {old[i].chunk : i \in DOMAIN old} \cup {work[w].chunk}
      BY <3>3, <3>4
    <3>7. ChunksAt(w)' = {Append(old, entry)[i].chunk : i \in DOMAIN Append(old, entry)}
      BY <3>1 DEF ChunksAt
    <3>8. ChunksAt(w) = {old[i].chunk : i \in DOMAIN old} \cup {work[w].chunk}
      BY <2>1 DEF ChunksAt, ChunkDone, old
    <3>9. ChunksAt(w)' = ChunksAt(w)
      BY <3>6, <3>7, <3>8
    <3>10. work'[w].pc = "claim"
      BY <3>1
    <3> QED BY <3>5, <3>9, <3>10
  <2>2. CASE EncodeFails(w)
    <3>1. /\ work' = [work EXCEPT ![w] = work'[w]]
          /\ work'[w] = [Off EXCEPT !.pc = "failed"]
      BY <1>3, <2>2 DEF EncodeFails, WorkShape
    <3>2. IsWork(work'[w]) /\ work'[w].pc = "failed" /\ work'[w].completed = <<>>
      BY <3>1, EmptyList DEF IsWork, Off
    <3>3. ChunksAt(w)' = {}
      BY <3>2, EmptyList DEF ChunksAt
    <3> QED BY <3>1, <3>2, <3>3 DEF Moves
  <2> QED BY <2>1, <2>2
<1>5. /\ WorkShape'
      /\ \A u \in Worker \ {w} : work'[u] = work[u] /\ ChunksAt(u)' = ChunksAt(u)
  BY <1>3, <1>4, OneWorkerMoves
<1>6. CachesShape'
  BY <1>1 DEF IInv, CachesShape
<1>7. TypeOK'
  <2>1. \A u \in Worker : work'[u].pc \in PC
    BY <1>4, <1>5 DEF IInv, TypeOK, PC
  <2> QED BY <1>1, <1>2, <1>6, <2>1, StillTyped DEF IInv, TypeOK
<1>8. ChunksClaimed' /\ EveryChunkOnce'
  BY <1>1, <1>4, <1>5, NothingMoves DEF IInv
<1> QED BY <1>5, <1>6, <1>7, <1>8 DEF IInv

-----------------------------------------------------------------------------
(***************************************************************************)
(* The invariant of the specification.                                     *)
(***************************************************************************)

LEMMA OffIsWork ==
  /\ IsWork(Off) /\ Off.pc = "off" /\ Off.completed = <<>>
  /\ LET r == [Off EXCEPT !.pc = "claim"]
     IN IsWork(r) /\ r.pc = "claim" /\ r.completed = <<>>
  BY EmptyList DEF IsWork, Off

LEMMA InitInvariant == Init => IInv
<1> SUFFICES ASSUME Init PROVE IInv
  OBVIOUS
<1>1. WorkShape /\ \A w \in Worker : ChunksAt(w) = {}
  BY OffIsWork, EmptyList DEF Init, WorkShape, ChunksAt
<1>2. CachesShape
  BY NoCacheIsCache DEF Init, CachesShape
<1>3. TypeOK
  BY <1>2, OffIsWork, SurfaceBatchAssumption DEF Init, TypeOK, CachesShape, IsCache
<1> QED BY <1>1, <1>2, <1>3 DEF Init, IInv, ChunksClaimed, EveryChunkOnce

\* The steps of the caller, and the end of the scope.
LEMMA CallerSteps ==
  ASSUME IInv,
         \/ \E b \in Batches : Begin(b) \/ RefuseLengths(b) \/ EncodeNothing(b)
         \/ Clear
         \/ Join
  PROVE  IInv'
<1>1. \A b \in Batches : b # Idle /\ Len(BatchChunks[b]) \in Nat
  BY SurfaceBatchAssumption, ChunksInBatch
<1>2. CachesShape'
  <2>1. CASE Clear
    BY <2>1, NoCacheIsCache DEF Clear, CachesShape
  <2>2. CASE UNCHANGED caches
    BY <2>2 DEF IInv, CachesShape
  <2> QED BY <2>1, <2>2 DEF Begin, RefuseLengths, EncodeNothing, Join
<1>3. /\ work' = [w \in Worker |-> work'[w]]
      /\ \A w \in Worker :
           work'[w] = Off \/ (batch' # Idle /\ work'[w] = [Off EXCEPT !.pc = "claim"])
  <2>1. CASE \E b \in Batches : Begin(b)
    BY <1>1, <2>1 DEF Begin
  <2>2. CASE Join
    BY <2>2 DEF Join
  <2>3. CASE batch = Idle /\ UNCHANGED <<batch, work>>
    BY <2>3 DEF IInv, TypeOK, WorkShape
  <2> QED BY <2>1, <2>2, <2>3 DEF RefuseLengths, EncodeNothing, Clear
<1>4. (batch' # Idle) => (next' = 1 /\ Len(BatchChunks[batch']) \in Nat)
  BY <1>1 DEF Begin, RefuseLengths, EncodeNothing, Clear, Join
<1>5. ASSUME NEW w \in Worker
      PROVE  /\ IsWork(work'[w])
             /\ work'[w].pc \in {"off", "claim"}
             /\ work'[w].completed = <<>>
  <2>1. CASE work'[w] = Off
    BY <2>1, OffIsWork
  <2>2. CASE work'[w] = [Off EXCEPT !.pc = "claim"]
    BY <2>2, OffIsWork
  <2> QED BY <1>3, <2>1, <2>2
<1>6. WorkShape'
  BY <1>3, <1>5 DEF WorkShape
<1>7. ChunksClaimed' /\ EveryChunkOnce'
  <2>1. \A w \in Worker : /\ work'[w].pc \in {"off", "claim"}
                          /\ work'[w].completed = <<>>
    BY <1>5
  <2> QED BY <1>4, <2>1, NothingClaimed
<1>8. TypeOK'
  <2>1. /\ options' \in Option
        /\ batch' \in Batches \cup {Idle}
        /\ next' \in Nat \ {0}
        /\ calls' \in 0..MaxCalls
    BY SurfaceBatchAssumption
    DEF IInv, TypeOK, Begin, RefuseLengths, EncodeNothing, Clear, Join
  <2>2. \A w \in Worker : IsCache(caches'[w])
    BY <1>2 DEF CachesShape
  <2>3. \A w \in Worker : work'[w].pc \in PC
    BY <1>5 DEF PC
  <2>4. \A w \in Worker : (batch' = Idle) => (work'[w] = Off)
    BY <1>3
  <2> QED BY <2>1, <2>2, <2>3, <2>4 DEF TypeOK, IsCache, PC
<1> QED BY <1>2, <1>6, <1>7, <1>8 DEF IInv

LEMMA StepInvariant == IInv /\ [Next]_vars => IInv'
<1> SUFFICES ASSUME IInv, [Next]_vars PROVE IInv'
  OBVIOUS
<1>1. CASE \/ \E b \in Batches : Begin(b) \/ RefuseLengths(b) \/ EncodeNothing(b)
           \/ Clear
           \/ Join
  BY <1>1, CallerSteps
<1>2. ASSUME NEW w \in Worker, Step(w)
      PROVE  IInv'
  <2>1. CASE Claim(w)
    BY <2>1, ClaimStep
  <2>2. CASE NoChunkLeft(w)
    BY <2>2, NoChunkLeftStep
  <2>3. CASE ChunkDone(w) \/ EncodeFails(w)
    BY <2>3, ChunkEndSteps
  <2>4. CASE \/ DocumentHit(w) \/ DocumentMiss(w) \/ LinesHit(w) \/ LinesMiss(w)
             \/ ChunkHit(w) \/ EncodeUnits(w) \/ FinishDocument(w)
    BY <2>4, DocumentSteps
  <2> QED BY <1>2, <2>1, <2>2, <2>3, <2>4 DEF Step
<1>3. CASE UNCHANGED vars
  <2>1. \A u \in Worker : ChunksAt(u)' = ChunksAt(u)
    BY <1>3 DEF vars, ChunksAt
  <2>2. ChunksClaimed' /\ EveryChunkOnce'
    BY <1>3, <2>1, NothingMoves DEF vars, IInv
  <2>3. TypeOK' /\ WorkShape' /\ CachesShape'
    BY <1>3 DEF vars, IInv, TypeOK, WorkShape, CachesShape
  <2> QED BY <2>2, <2>3 DEF IInv
<1> QED BY <1>1, <1>2, <1>3 DEF Next

\* The invariant holds however the workers of
\* encode_flat_surface_batch_with_caches interleave.
THEOREM Invariant == Spec => []IInv
  BY InitInvariant, StepInvariant, PTL DEF Spec

\* Type correctness: whatever is encoded and however the workers interleave, a
\* worker's two tables never outgrow the entries allowed them
\* (lib.rs, FlatAnalysisCache; flat_surface.rs, retain_segment_program).
THEOREM TypeCorrect == Spec => []TypeOK
<1>1. IInv => TypeOK
  BY DEF IInv
<1> QED BY <1>1, Invariant, PTL

\* The counter shared by the workers of encode_flat_surface_batch_with_caches
\* hands out each chunk once, to one worker, in the order of the batch, and no
\* chunk that was claimed is missing unless its worker failed.
THEOREM ChunksOnce == Spec => []EveryChunkOnce
<1>1. IInv => EveryChunkOnce
  BY DEF IInv
<1> QED BY <1>1, Invariant, PTL

\* Tables keep their capacities and every chunk has one worker, for any number
\* of workers, documents and capacities.
THEOREM ChunksAreSound == Spec => []ChunksSound
BY TypeCorrect, ChunksOnce, PTL DEF ChunksSound

-----------------------------------------------------------------------------
(***************************************************************************)
(* About documents: a chunk, and a line, are cut into units by themselves  *)
(* as they are within their document.                                      *)
(***************************************************************************)

LEMMA LeastOf ==
  ASSUME NEW T \in SUBSET Nat, T # {}
  PROVE  Min(T) \in T /\ \A y \in T : Min(T) <= y
<1>1. \E x \in T : \A y \in T : x <= y
  BY Numbers!Least
<1>2. Min(T) = CHOOSE x \in T : \A y \in T : x <= y
  BY DEF Min
<1> QED BY <1>1, <1>2

\* The end before e: 0 or an end, with none between it and e.
LEMMA BeforeOf ==
  ASSUME NEW ends \in SUBSET (Nat \ {0}), NEW e \in ends
  PROVE  /\ Before(ends, e) \in {0} \cup ends
         /\ Before(ends, e) \in 0..(e - 1)
         /\ \A x \in ends : x < e => x <= Before(ends, e)
<1> DEFINE T == {0} \cup {i \in ends : i < e}
<1>1. T \in SUBSET (0..(e - 1)) /\ T # {} /\ e - 1 \in Nat
  <2>1. e \in Nat /\ e >= 1
    OBVIOUS
  <2>2. ASSUME NEW i \in ends, i < e PROVE i \in 0..(e - 1)
    <3>1. i \in Nat
      OBVIOUS
    <3> QED BY <2>1, <2>2, <3>1
  <2>3. 0 \in 0..(e - 1) /\ 0 \in T /\ e - 1 \in Nat
    BY <2>1
  <2>4. \A x \in T : x \in 0..(e - 1)
    BY <2>2, <2>3
  <2> HIDE DEF T
  <2> QED BY <2>3, <2>4
<1>2. PICK m \in T : \A y \in T : y <= m
  <2> HIDE DEF T
  <2> QED BY <1>1, Numbers!Greatest
<1>3. Max(T) = CHOOSE x \in T : \A y \in T : x >= y
  BY DEF Max
<1>4. \A y \in T : m >= y
  <2>1. m \in Int /\ \A y \in T : y \in Int
    BY <1>1, <1>2
  <2> HIDE DEF T
  <2> QED BY <1>2, <2>1
<1>5. Max(T) \in T /\ \A y \in T : Max(T) >= y
  <2> HIDE DEF T
  <2> QED BY <1>2, <1>3, <1>4
<1>6. Before(ends, e) = Max(T)
  BY DEF Before
<1>7. Max(T) \in 0..(e - 1)
  <2> HIDE DEF T
  <2> QED BY <1>1, <1>5
<1>8. \A x \in ends : x < e => Max(T) >= x
  BY <1>5
<1>9. \A x \in ends : x < e => x <= Max(T)
  <2>1. \A x \in ends : x \in Nat
    OBVIOUS
  <2> HIDE DEF T
  <2> QED BY <1>7, <1>8, <2>1
<1> QED BY <1>5, <1>6, <1>7, <1>9

LEMMA PartShape ==
  ASSUME NEW doc \in Seq(Atom), NEW s \in Nat, NEW e \in (s + 1)..Len(doc)
  PROVE  /\ Part(doc, s, e) \in Seq(Atom)
         /\ Len(Part(doc, s, e)) = e - s /\ e - s \in Nat \ {0}
         /\ DOMAIN Part(doc, s, e) = 1..(e - s)
         /\ \A i \in 1..(e - s) : Part(doc, s, e)[i] = doc[s + i]
<1>1. PICK n \in Nat : n = Len(doc)
  OBVIOUS
<1>2. s + 1 \in Int /\ e \in Int /\ e <= n /\ s + 1 <= e
  BY <1>1
<1>3. \A i \in (s + 1)..e : doc[i] \in Atom
  <2> SUFFICES ASSUME NEW i \in (s + 1)..e PROVE doc[i] \in Atom
    OBVIOUS
  <2>1. i \in 1..Len(doc)
    BY <1>1, <1>2
  <2> QED BY <2>1, ElementOfSeq
<1>4. PICK m \in Int : m = s + 1
  OBVIOUS
<1>5. /\ SubSeq(doc, m, e) \in Seq(Atom)
      /\ Len(SubSeq(doc, m, e)) = IF m <= e THEN e - m + 1 ELSE 0
      /\ \A i \in 1..(e - m + 1) : SubSeq(doc, m, e)[i] = doc[m + i - 1]
  BY <1>2, <1>3, <1>4, SubSeqProperties
<1>6. e - m + 1 = e - s /\ m <= e /\ e - s \in Nat \ {0}
  BY <1>2, <1>4
<1>7. \A i \in 1..(e - s) : m + i - 1 = s + i
  BY <1>2, <1>4
<1>8. PICK part \in Seq(Atom) : part = Part(doc, s, e)
  BY <1>4, <1>5 DEF Part
<1>9. Len(part) = e - s
  BY <1>4, <1>5, <1>6, <1>8 DEF Part
<1>10. \A i \in 1..(e - s) : part[i] = doc[s + i]
  BY <1>4, <1>5, <1>6, <1>7, <1>8 DEF Part
<1>11. DOMAIN part = 1..(e - s)
  BY <1>9
<1> QED BY <1>6, <1>8, <1>9, <1>10, <1>11

-----------------------------------------------------------------------------

IsDocument(doc) == doc \in Seq(Atom)

LEMMA UnitEndsIn ==
  ASSUME NEW mode, NEW doc, IsDocument(doc)
  PROVE  /\ UnitEnds(mode, doc) \subseteq 1..Len(doc) /\ Len(doc) \in Nat /\ DOMAIN doc = 1..Len(doc)
         /\ Len(doc) # 0 => Len(doc) \in UnitEnds(mode, doc)
         /\ \A i \in 1..(Len(doc) - 1) : i \in UnitEnds(mode, doc) <=> ~Joined(mode, doc, i)
<1>1. Len(doc) \in Nat /\ DOMAIN doc = 1..Len(doc)
  BY DEF IsDocument
<1>2. PICK n \in Nat : n = Len(doc)
  BY <1>1
<1>3. UnitEnds(mode, doc) = {i \in 1..n : i = n \/ ~Joined(mode, doc, i)}
  BY <1>1, <1>2 DEF UnitEnds
<1>4. n # 0 => n \in 1..n
  BY <1>2
<1>5. \A i \in 1..(n - 1) : i \in 1..n /\ i # n
  BY <1>2
<1> HIDE DEF Joined
<1> QED BY <1>1, <1>2, <1>3, <1>4, <1>5

\* A part that begins and ends where units do.
Fits(doc, s, e) ==
  /\ s \in Nat /\ e \in (s + 1)..Len(doc) /\ e \in UnitEnds("code", doc)
  /\ s # 0 => s \in UnitEnds("code", doc)

\* Its digits, if it begins with some, are not the rest of an identifier.
Stands(doc, s, e) ==
  /\ Fits(doc, s, e)
  /\ s # 0 => ~(doc[s] \in {"word", "long"} /\ doc[s + 1] = "digits")

LEMMA FittingPart ==
  ASSUME NEW doc, IsDocument(doc), NEW s, NEW e, Fits(doc, s, e)
  PROVE  /\ Len(doc) \in Nat /\ s \in Nat /\ e \in (s + 1)..Len(doc) /\ e - s \in Nat \ {0}
         /\ \E part \in Seq(Atom) :
              /\ part = Part(doc, s, e) /\ Len(part) = e - s
              /\ \A k \in 1..(e - s) : part[k] = doc[s + k]
<1>1. doc \in Seq(Atom) /\ s \in Nat /\ e \in (s + 1)..Len(doc)
  BY DEF IsDocument, Fits
<1>2. /\ Part(doc, s, e) \in Seq(Atom)
      /\ Len(Part(doc, s, e)) = e - s /\ e - s \in Nat \ {0}
      /\ \A k \in 1..(e - s) : Part(doc, s, e)[k] = doc[s + k]
  BY <1>1, PartShape
<1> QED BY <1>1, <1>2

LEMMA PartOf ==
  ASSUME NEW doc, IsDocument(doc), NEW s, NEW e, Stands(doc, s, e)
  PROVE  /\ Len(doc) \in Nat /\ s \in Nat /\ e \in (s + 1)..Len(doc) /\ e - s \in Nat \ {0}
         /\ \E part \in Seq(Atom) :
              /\ part = Part(doc, s, e) /\ Len(part) = e - s
              /\ \A k \in 1..(e - s) : part[k] = doc[s + k]
BY FittingPart DEF Stands

LEMMA NumberAlone ==
  ASSUME NEW doc, IsDocument(doc), NEW s, NEW e, Stands(doc, s, e), NEW i \in 1..(e - s)
  PROVE  InNumber(Part(doc, s, e), i) <=> InNumber(doc, s + i)
<1>1. PICK n \in Nat : n = Len(doc)
  BY DEF IsDocument
<1>2. s \in Nat /\ e \in (s + 1)..n
  BY <1>1, PartOf
<1>3. PICK part \in Seq(Atom) :
        /\ part = Part(doc, s, e) /\ Len(part) = e - s
        /\ \A k \in 1..(e - s) : part[k] = doc[s + k]
  BY PartOf
<1>4. \A k \in 1..(e - s) : part[k] = doc[s + k]
  BY <1>3
<1>5. part[i] = doc[s + i]
  BY <1>4
<1>a. PICK p \in Nat : p = s + i
  BY <1>2
<1>b. InNumber(part, i) <=> doc[p] = "digits" /\ (i = 1 \/ part[i - 1] \notin {"word", "long"})
  BY <1>5, <1>a DEF InNumber
<1>c. InNumber(doc, p) <=> doc[p] = "digits" /\ (p = 1 \/ doc[p - 1] \notin {"word", "long"})
  BY DEF InNumber
<1>6. CASE i = 1
  <2>1. p = s + 1 /\ p - 1 = s /\ (p = 1 <=> s = 0)
    BY <1>2, <1>6, <1>a
  <2>2. s # 0 => ~(doc[p - 1] \in {"word", "long"} /\ doc[p] = "digits")
    BY <2>1 DEF Stands, Fits
  <2> QED BY <1>3, <1>6, <1>a, <1>b, <1>c, <2>1, <2>2
<1>7. CASE i # 1
  <2>1. i - 1 \in 1..(e - s) /\ s + (i - 1) = p - 1 /\ p # 1
    BY <1>2, <1>7, <1>a
  <2>2. part[i - 1] = doc[p - 1]
    BY <1>4, <2>1
  <2> QED BY <1>3, <1>7, <1>a, <1>b, <1>c, <2>1, <2>2
<1> QED BY <1>6, <1>7

LEMMA PointAlone ==
  ASSUME NEW doc, IsDocument(doc), NEW s, NEW e, Stands(doc, s, e), NEW i \in 1..(e - s)
  PROVE  DecimalPoint(Part(doc, s, e), i) <=> DecimalPoint(doc, s + i)
<1>1. PICK n \in Nat : n = Len(doc)
  BY DEF IsDocument
<1>2. s \in Nat /\ e \in (s + 1)..n /\ e - s \in Nat /\ i \in Nat
  BY <1>1, PartOf
<1>3. PICK part \in Seq(Atom) :
        /\ part = Part(doc, s, e) /\ Len(part) = e - s
        /\ \A k \in 1..(e - s) : part[k] = doc[s + k]
  BY PartOf
<1>4. Len(part) = e - s /\ \A k \in 1..(e - s) : part[k] = doc[s + k]
  BY <1>3
<1>5. part[i] = doc[s + i]
  BY <1>4
<1>6. CASE i \in 2..(e - s - 1)
  <2>1. i - 1 \in 1..(e - s) /\ i + 1 \in 1..(e - s) /\ s + i \in 2..(n - 1)
        /\ s + (i - 1) = s + i - 1 /\ s + (i + 1) = s + i + 1
    BY <1>2, <1>6
  <2>2. part[i + 1] = doc[s + i + 1]
    BY <1>4, <2>1
  <2>3. InNumber(part, i - 1) <=> InNumber(doc, s + i - 1)
    BY <1>3, <2>1, NumberAlone
  <2>4. i \in 2..(Len(part) - 1) /\ s + i \in 2..(Len(doc) - 1)
    BY <1>1, <1>4, <1>6, <2>1
  <2>5. PICK p \in Nat : p = s + i
    BY <2>1
  <2>6. DecimalPoint(part, i) <=> part[i] = "point" /\ InNumber(part, i - 1) /\ part[i + 1] = "digits"
    BY <2>4 DEF DecimalPoint
  <2>7. DecimalPoint(doc, p) <=> doc[p] = "point" /\ InNumber(doc, p - 1) /\ doc[p + 1] = "digits"
    BY <2>4, <2>5 DEF DecimalPoint
  <2>8. part[i] = doc[p] /\ part[i + 1] = doc[p + 1]
    BY <1>5, <2>2, <2>5
  <2>9. InNumber(part, i - 1) <=> InNumber(doc, p - 1)
    <3>1. PICK q : q = p - 1
      OBVIOUS
    <3>2. q = s + i - 1
      BY <1>2, <2>5, <3>1
    <3> QED BY <2>3, <3>1, <3>2
  <2>10. DecimalPoint(part, i) <=> DecimalPoint(doc, p)
    BY <2>6, <2>7, <2>8, <2>9
  <2> QED BY <1>3, <2>5, <2>10
<1>7. CASE i \notin 2..(e - s - 1)
  <2>1. ~DecimalPoint(part, i)
    BY <1>4, <1>7 DEF DecimalPoint
  <2>2. i = 1 \/ i = e - s
    BY <1>2, <1>7
  <2>3. CASE i = 1 /\ s = 0
    BY <1>3, <2>1, <2>3 DEF DecimalPoint
  <2>4. CASE i = 1 /\ s # 0
    <3>1. s \in 1..(n - 1)
      BY <1>2, <2>4
    <3>2. ~Joined("code", doc, s)
      BY <1>1, <2>4, <3>1, UnitEndsIn DEF Stands, Fits
    <3> QED BY <1>3, <2>1, <2>4, <3>2 DEF Joined
  <2>5. CASE i = e - s
    <3>1. s + i = e
      BY <1>2, <2>5
    <3>2. CASE e = n
      <4>1. e \notin 2..(Len(doc) - 1)
        BY <1>1, <1>2, <3>2
      <4> QED BY <1>3, <2>1, <3>1, <4>1 DEF DecimalPoint
    <3>3. CASE e # n
      <4>1. e \in 1..(n - 1)
        BY <1>2, <3>3
      <4>2. ~Joined("code", doc, e)
        BY <1>1, <4>1, UnitEndsIn DEF Stands, Fits
      <4> QED BY <1>3, <2>1, <3>1, <4>2 DEF Joined
    <3> QED BY <3>2, <3>3
  <2> QED BY <2>2, <2>3, <2>4, <2>5
<1> QED BY <1>6, <1>7

\* A part that stands is cut into units by itself as within the document.
LEMMA EndsAlone ==
  ASSUME NEW doc, IsDocument(doc), NEW s, NEW e, Stands(doc, s, e), NEW i \in 1..(e - s)
  PROVE  s + i \in UnitEnds("code", doc) <=> i \in UnitEnds("code", Part(doc, s, e))
<1>1. PICK n \in Nat : n = Len(doc)
  BY DEF IsDocument
<1>2. s \in Nat /\ e \in (s + 1)..n /\ e - s \in Nat \ {0}
  BY <1>1, PartOf
<1>3. PICK part \in Seq(Atom) :
        /\ part = Part(doc, s, e) /\ Len(part) = e - s
        /\ \A k \in 1..(e - s) : part[k] = doc[s + k]
  BY PartOf
<1>4. Len(part) = e - s /\ \A k \in 1..(e - s) : part[k] = doc[s + k]
  BY <1>3
<1>5. CASE i = e - s
  <2>1. s + i = e /\ i = Len(part) /\ Len(part) # 0
    BY <1>2, <1>4, <1>5
  <2> QED BY <1>3, <2>1, UnitEndsIn DEF Stands, Fits, IsDocument
<1>6. CASE i # e - s
  <2>1. i + 1 \in 1..(e - s) /\ s + (i + 1) = s + i + 1
        /\ i \in 1..(Len(part) - 1) /\ s + i \in 1..(Len(doc) - 1)
    BY <1>1, <1>2, <1>4, <1>6
  <2>2. part[i] = doc[s + i] /\ part[i + 1] = doc[s + i + 1]
    BY <1>4, <2>1
  <2>3. DecimalPoint(part, i) <=> DecimalPoint(doc, s + i)
    BY <1>3, PointAlone
  <2>4. DecimalPoint(part, i + 1) <=> DecimalPoint(doc, s + i + 1)
    BY <1>3, <2>1, PointAlone
  <2>5. Joined("code", part, i) <=> Joined("code", doc, s + i)
    BY <2>2, <2>3, <2>4 DEF Joined
  <2>6. i \in UnitEnds("code", part) <=> ~Joined("code", part, i)
    BY <2>1, UnitEndsIn DEF IsDocument
  <2>7. s + i \in UnitEnds("code", doc) <=> ~Joined("code", doc, s + i)
    BY <2>1, UnitEndsIn
  <2> QED BY <1>3, <2>5, <2>6, <2>7
<1> QED BY <1>5, <1>6

\* Where two documents read alike and are cut into units alike, the units are
\* the same.
Alike(mode, c, r, d, s, l) ==
  /\ \A k \in 1..l : c[r + k] = d[s + k]
  /\ \A k \in 1..l : r + k \in UnitEnds(mode, c) <=> s + k \in UnitEnds(mode, d)

LEMMA SameUnits ==
  ASSUME NEW mode, NEW c, IsDocument(c), NEW d, IsDocument(d),
         NEW r \in Nat, NEW s \in Nat, NEW l \in Nat \ {0}, r + l <= Len(c), s + l <= Len(d),
         Alike(mode, c, r, d, s, l)
  PROVE  UnitsBetween(mode, c, r, r + l) = UnitsBetween(mode, d, s, s + l)
<1>1. PICK ends : ends = {k \in 1..l : s + k \in UnitEnds(mode, d)}
  OBVIOUS
<1>2. (r + l) - r = l /\ (s + l) - s = l
  OBVIOUS
<1>3. ends = {k \in 1..l : r + k \in UnitEnds(mode, c)}
  BY <1>1 DEF Alike
<1>4. UnitsBetween(mode, c, r, r + l) = [i \in ends |-> SubSeq(c, r + Before(ends, i) + 1, r + i)]
  BY <1>2, <1>3 DEF UnitsBetween
<1>5. UnitsBetween(mode, d, s, s + l) = [i \in ends |-> SubSeq(d, s + Before(ends, i) + 1, s + i)]
  BY <1>1, <1>2 DEF UnitsBetween
<1>6. ASSUME NEW i \in ends
      PROVE  SubSeq(c, r + Before(ends, i) + 1, r + i) = SubSeq(d, s + Before(ends, i) + 1, s + i)
  <2>1. i \in 1..l /\ ends \in SUBSET (Nat \ {0})
    BY <1>1
  <2>2. PICK b \in 0..(i - 1) : b = Before(ends, i)
    BY <2>1, BeforeOf
  <2>3. PICK m \in Nat, n \in Nat : m = Len(c) /\ n = Len(d)
    BY DEF IsDocument
  <2>4. PICK t \in Nat, u \in Nat : t = r + b /\ u = s + b
    BY <2>1, <2>2
  <2>5. PICK x \in Nat, y \in Nat :
          /\ x = r + i /\ t + 1 <= x /\ x <= m /\ x - t = i - b
          /\ y = s + i /\ u + 1 <= y /\ y <= n /\ y - u = i - b
    <3>1. i \in Nat /\ b \in Nat /\ b + 1 <= i /\ i <= l /\ r + l <= m /\ s + l <= n
      BY <2>1, <2>2, <2>3
    <3>2. /\ r + i \in Nat /\ t + 1 <= r + i /\ r + i <= m /\ (r + i) - t = i - b
      BY <2>4, <3>1
    <3>3. /\ s + i \in Nat /\ u + 1 <= s + i /\ s + i <= n /\ (s + i) - u = i - b
      BY <2>4, <3>1
    <3> QED BY <3>2, <3>3
  <2>6. x - t = i - b /\ y - u = i - b /\ x \in (t + 1)..m /\ y \in (u + 1)..n
    BY <2>5
  <2>7. /\ Part(c, t, x) \in Seq(Atom) /\ Len(Part(c, t, x)) = i - b
        /\ \A k \in 1..(i - b) : Part(c, t, x)[k] = c[t + k]
    <3>1. c \in Seq(Atom) /\ x \in (t + 1)..Len(c)
      BY <2>3, <2>6 DEF IsDocument
    <3>2. /\ Part(c, t, x) \in Seq(Atom) /\ Len(Part(c, t, x)) = x - t
          /\ \A k \in 1..(x - t) : Part(c, t, x)[k] = c[t + k]
      BY <3>1, PartShape
    <3> QED BY ONLY <2>6, <3>2
  <2>8. /\ Part(d, u, y) \in Seq(Atom) /\ Len(Part(d, u, y)) = i - b
        /\ \A k \in 1..(i - b) : Part(d, u, y)[k] = d[u + k]
    <3>1. d \in Seq(Atom) /\ y \in (u + 1)..Len(d)
      BY <2>3, <2>6 DEF IsDocument
    <3>2. /\ Part(d, u, y) \in Seq(Atom) /\ Len(Part(d, u, y)) = y - u
          /\ \A k \in 1..(y - u) : Part(d, u, y)[k] = d[u + k]
      BY <3>1, PartShape
    <3> QED BY ONLY <2>6, <3>2
  <2>9. ASSUME NEW k \in 1..(i - b) PROVE c[t + k] = d[u + k]
    <3>1. b \in Int /\ i \in Int /\ 0 <= b /\ i <= l /\ k \in Int /\ 1 <= k /\ k <= i - b
      BY <2>1, <2>2
    <3>2. PICK j \in 1..l : j = b + k /\ t + k = r + j /\ u + k = s + j
      BY <2>4, <3>1
    <3>3. c[r + j] = d[s + j]
      BY DEF Alike
    <3> QED BY <3>2, <3>3
  <2>10. Part(c, t, x) = Part(d, u, y)
    <3>1. PICK v \in Seq(Atom), z \in Seq(Atom) : v = Part(c, t, x) /\ z = Part(d, u, y)
      BY <2>7, <2>8
    <3>2. Len(v) = i - b /\ Len(z) = i - b
      BY <2>7, <2>8, <3>1
    <3>3. \A k \in 1..Len(v) : v[k] = z[k]
      BY <2>7, <2>8, <2>9, <3>1, <3>2
    <3> QED BY <3>1, <3>2, <3>3, SeqEqual
  <2> QED BY <2>2, <2>4, <2>5, <2>10 DEF Part
<1> QED BY <1>4, <1>5, <1>6

LEMMA UnitsAlone ==
  ASSUME NEW doc, IsDocument(doc), NEW s, NEW e, Stands(doc, s, e)
  PROVE  UnitsBetween("code", Part(doc, s, e), 0, Len(Part(doc, s, e))) = UnitsBetween("code", doc, s, e)
<1>1. PICK n \in Nat : n = Len(doc)
  BY DEF IsDocument
<1>2. s \in Nat /\ e \in (s + 1)..n /\ e - s \in Nat \ {0}
  BY <1>1, PartOf
<1>3. PICK part \in Seq(Atom) :
        /\ part = Part(doc, s, e) /\ Len(part) = e - s
        /\ \A k \in 1..(e - s) : part[k] = doc[s + k]
  BY PartOf
<1>4. PICK l \in Nat \ {0}, z \in Nat : l = e - s /\ z = 0 /\ z + l = Len(part) /\ s + l = e
  BY <1>2, <1>3
<1>5. \A k \in 1..l : z + k = k
  BY <1>4
<1>6. \A k \in 1..l : part[z + k] = doc[s + k]
  BY <1>3, <1>4, <1>5
<1>7. \A k \in 1..l : z + k \in UnitEnds("code", part) <=> s + k \in UnitEnds("code", doc)
  BY <1>3, <1>4, <1>5, EndsAlone
<1>8. IsDocument(part) /\ z + l <= Len(part) /\ s + l <= Len(doc)
  BY <1>1, <1>2, <1>3, <1>4 DEF IsDocument
<1>9. UnitsBetween("code", part, z, z + l) = UnitsBetween("code", doc, s, s + l)
  <2>1. Alike("code", part, z, doc, s, l)
    BY <1>6, <1>7 DEF Alike
  <2> QED BY <1>2, <1>4, <1>8, <2>1, SameUnits
<1> QED BY <1>3, <1>4, <1>9

-----------------------------------------------------------------------------
(***************************************************************************)
(* Chunks and lines.                                                       *)
(***************************************************************************)

OpenStep(doc, i, units) ==
  IF i \notin UnitEnds("code", doc) THEN units
  ELSE IF doc[i] \in {"break", "opaque"} THEN 0 ELSE (units + 1) % MaxUnits

LEMMA OpenShape ==
  ASSUME NEW doc, IsDocument(doc)
  PROVE  /\ OpenUnits(doc)[0] = 0
         /\ \A i \in 1..Len(doc) : OpenUnits(doc)[i] = OpenStep(doc, i, OpenUnits(doc)[i - 1])
<1>1. PICK n \in Nat : n = Len(doc)
  BY DEF IsDocument
<1> DEFINE g == [p \in (1..n) \X Nat |-> OpenStep(doc, p[1], p[2])]
           Right(f) == f = [i \in 0..n |-> IF i = 0 THEN 0 ELSE OpenStep(doc, i, f[i - 1])]
<1>2. ASSUME NEW i \in 1..n, NEW units \in Nat PROVE OpenStep(doc, i, units) \in Nat
  <2>1. PICK m \in Nat \ {0} : m = MaxUnits
    BY MaxUnitsAssumption
  <2>2. (units + 1) % m \in Nat
    BY <2>1
  <2> QED BY <2>1, <2>2 DEF OpenStep
<1>3. Numbers!Iterates(n, Nat, 0, g)
  BY <1>2 DEF Numbers!Iterates
<1>4. PICK f \in [0..n -> Nat] : f[0] = 0 /\ \A i \in 1..n : f[i] = g[<<i, f[i - 1]>>]
  <2> HIDE DEF g
  <2>1. PICK f : Iterated(f, n, Nat, 0, g)
    BY <1>3, Defined
  <2> QED BY <2>1 DEF Iterated
<1>5. \A i \in 1..n : f[i] = OpenStep(doc, i, f[i - 1])
  <2> SUFFICES ASSUME NEW i \in 1..n PROVE f[i] = OpenStep(doc, i, f[i - 1])
    OBVIOUS
  <2>1. f[i - 1] \in Nat
    BY <1>4
  <2>2. <<i, f[i - 1]>> \in (1..n) \X Nat
    BY <2>1
  <2> QED BY <1>4, <2>2
<1>6. Right(f)
  <2>1. \A i \in 0..n : i # 0 => i \in 1..n
    OBVIOUS
  <2> QED BY <1>4, <1>5, <2>1
<1>7. OpenUnits(doc) = CHOOSE x : Right(x)
  BY <1>1 DEF OpenUnits, OpenStep
<1>8. Right(OpenUnits(doc))
  <2> HIDE DEF Right
  <2> QED BY <1>6, <1>7
<1> DEFINE o == OpenUnits(doc)
<1> HIDE DEF o
<1>9. o = [i \in 0..n |-> IF i = 0 THEN 0 ELSE OpenStep(doc, i, o[i - 1])]
  BY <1>8 DEF o
<1>10. o[0] = 0
  BY <1>9
<1>11. \A i \in 1..n : o[i] = OpenStep(doc, i, o[i - 1])
  BY <1>9
<1> QED BY <1>1, <1>10, <1>11 DEF o

LEMMA ChunkEndsIn ==
  ASSUME NEW doc, IsDocument(doc)
  PROVE  /\ Len(doc) \in Nat
         /\ ChunkEnds(doc) \subseteq UnitEnds("code", doc)
         /\ ChunkEnds(doc) \in SUBSET (1..Len(doc)) /\ ChunkEnds(doc) \in SUBSET (Nat \ {0})
         /\ Len(doc) # 0 => Len(doc) \in ChunkEnds(doc)
         /\ \A i \in 1..(Len(doc) - 1) :
              i \in ChunkEnds(doc) <=> i \in UnitEnds("code", doc) /\ OpenUnits(doc)[i] = 0
<1>1. PICK n \in Nat : n = Len(doc)
  BY DEF IsDocument
<1>2. UnitEnds("code", doc) \subseteq 1..n /\ (n # 0 => n \in UnitEnds("code", doc))
  BY <1>1, UnitEndsIn
<1>3. ChunkEnds(doc) = {i \in UnitEnds("code", doc) : i = n \/ OpenUnits(doc)[i] = 0}
  BY <1>1 DEF ChunkEnds
<1>4. \A i \in 1..(n - 1) : i # n
  OBVIOUS
<1>5. 1..n \in SUBSET (Nat \ {0})
  OBVIOUS
<1> QED BY <1>1, <1>2, <1>3, <1>4, <1>5

\* Where nothing is open, what is open behind does not depend on what is before.
LEMMA OpenAlone ==
  ASSUME NEW doc, IsDocument(doc), NEW s, NEW e, Stands(doc, s, e), OpenUnits(doc)[s] = 0
  PROVE  \A j \in 0..(e - s) : OpenUnits(Part(doc, s, e))[j] = OpenUnits(doc)[s + j]
<1>1. PICK n \in Nat : n = Len(doc)
  BY DEF IsDocument
<1>2. s \in Nat /\ e \in (s + 1)..n /\ e - s \in Nat \ {0}
  BY <1>1, PartOf
<1>3. PICK part \in Seq(Atom) :
        /\ part = Part(doc, s, e) /\ Len(part) = e - s
        /\ \A k \in 1..(e - s) : part[k] = doc[s + k]
  BY PartOf
<1>4. IsDocument(part)
  BY DEF IsDocument
<1> DEFINE T == {j \in Nat : j <= e - s => OpenUnits(part)[j] = OpenUnits(doc)[s + j]}
<1>5. 0 \in T
  <2>1. OpenUnits(part)[0] = 0 /\ s + 0 = s
    BY <1>2, <1>4, OpenShape
  <2> QED BY <2>1
<1>6. ASSUME NEW j \in Nat, j \in T PROVE j + 1 \in T
  <2> SUFFICES ASSUME j + 1 <= e - s PROVE OpenUnits(part)[j + 1] = OpenUnits(doc)[s + (j + 1)]
    OBVIOUS
  <2>1. PICK i \in 1..(e - s) : i = j + 1
    BY <1>2
  <2>2. PICK x \in 1..n : x = s + i
    BY <1>2, <2>1
  <2>3. i - 1 = j /\ x - 1 = s + j /\ j <= e - s
    BY <1>2, <2>1, <2>2
  <2>4. OpenUnits(part)[j] = OpenUnits(doc)[s + j]
    BY <1>6, <2>3
  <2>5. OpenUnits(part)[i] = OpenStep(part, i, OpenUnits(part)[i - 1])
    BY <1>3, <1>4, OpenShape
  <2>6. OpenUnits(doc)[x] = OpenStep(doc, x, OpenUnits(doc)[x - 1])
    BY <1>1, OpenShape
  <2>7. part[i] = doc[x] /\ (i \in UnitEnds("code", part) <=> x \in UnitEnds("code", doc))
    BY <1>3, <2>2, EndsAlone
  <2>8. OpenStep(part, i, OpenUnits(part)[i - 1]) = OpenStep(doc, x, OpenUnits(doc)[x - 1])
    BY <2>3, <2>4, <2>7 DEF OpenStep
  <2> QED BY <2>1, <2>2, <2>5, <2>6, <2>8
<1>7. Nat \subseteq T
  <2> HIDE DEF T
  <2> QED BY <1>5, <1>6, Numbers!Induct
<1>8. \A j \in 0..(e - s) : j \in T /\ j <= e - s
  BY <1>2, <1>7
<1> QED BY <1>3, <1>8

\* A document that is a single chunk.
Whole(atoms) == IsDocument(atoms) /\ ChunkEnds(atoms) = {Len(atoms)}

\* What is a number, or a point within one, in the document is one in a part
\* that fits, though not the other way round; a part has no ends of its own.
LEMMA NumberOfPart ==
  ASSUME NEW doc, IsDocument(doc), NEW s, NEW e, Fits(doc, s, e), NEW i \in 1..(e - s),
         InNumber(doc, s + i)
  PROVE  InNumber(Part(doc, s, e), i)
<1>1. s \in Nat /\ e - s \in Nat \ {0}
  BY FittingPart
<1>2. PICK part \in Seq(Atom) : part = Part(doc, s, e) /\ \A k \in 1..(e - s) : part[k] = doc[s + k]
  BY FittingPart
<1>3. part[i] = doc[s + i] /\ doc[s + i] = "digits"
  BY <1>2 DEF InNumber
<1>4. CASE i = 1
  BY <1>2, <1>3, <1>4 DEF InNumber
<1>5. CASE i # 1
  <2>1. PICK j \in 1..(e - s) : j = i - 1 /\ s + j = s + i - 1 /\ s + i # 1
    BY <1>1, <1>5
  <2>2. part[j] = doc[s + j]
    BY <1>2
  <2>3. doc[s + i - 1] \notin {"word", "long"}
    <3>1. PICK p \in Int : p = s + i /\ p # 1 /\ p - 1 = s + i - 1
      BY <1>1, <2>1
    <3>2. InNumber(doc, p)
      BY <3>1
    <3>3. doc[p - 1] \notin {"word", "long"}
      BY <3>1, <3>2 DEF InNumber
    <3> QED BY <3>1, <3>3
  <2> QED BY <1>2, <1>3, <2>1, <2>2, <2>3 DEF InNumber
<1> QED BY <1>4, <1>5

LEMMA PointOfPart ==
  ASSUME NEW doc, IsDocument(doc), NEW s, NEW e, Fits(doc, s, e), NEW i \in 1..(e - s),
         DecimalPoint(doc, s + i)
  PROVE  DecimalPoint(Part(doc, s, e), i)
<1>1. PICK n \in Nat : n = Len(doc)
  BY DEF IsDocument
<1>2. s \in Nat /\ e \in (s + 1)..n /\ e - s \in Nat \ {0}
  BY <1>1, FittingPart
<1>3. PICK part \in Seq(Atom) :
        part = Part(doc, s, e) /\ Len(part) = e - s /\ \A k \in 1..(e - s) : part[k] = doc[s + k]
  BY FittingPart
<1>4. PICK p \in Nat : p = s + i
  BY <1>2
<1>5. /\ doc[p] = "point" /\ p \in 2..(n - 1) /\ InNumber(doc, p - 1) /\ doc[p + 1] = "digits"
  BY <1>1, <1>4 DEF DecimalPoint
<1>6. i # 1
  <2> SUFFICES ASSUME i = 1 PROVE FALSE
    OBVIOUS
  <2>1. s \in 1..(n - 1) /\ s # 0 /\ p = s + 1
    BY <1>2, <1>4, <1>5
  <2>2. ~Joined("code", doc, s)
    BY <1>1, <2>1, UnitEndsIn DEF Fits
  <2> QED BY <1>4, <2>1, <2>2 DEF Joined
<1>7. i # e - s
  <2> SUFFICES ASSUME i = e - s PROVE FALSE
    OBVIOUS
  <2>1. p = e /\ e \in 1..(n - 1)
    BY <1>2, <1>4, <1>5
  <2>2. ~Joined("code", doc, e)
    BY <1>1, <2>1, UnitEndsIn DEF Fits
  <2> QED BY <1>4, <2>1, <2>2 DEF Joined
<1>8. PICK h \in 1..(e - s), j \in 1..(e - s) :
        h = i - 1 /\ j = i + 1 /\ s + h = p - 1 /\ s + j = p + 1 /\ i \in 2..(e - s - 1)
  BY <1>2, <1>4, <1>6, <1>7
<1>9. InNumber(part, i - 1)
  BY <1>3, <1>5, <1>8, NumberOfPart
<1>10. part[i] = "point" /\ part[i + 1] = "digits" /\ i \in 2..(Len(part) - 1)
  BY <1>3, <1>4, <1>5, <1>8
<1> QED BY <1>3, <1>9, <1>10 DEF DecimalPoint

LEMMA EndOfPart ==
  ASSUME NEW doc, IsDocument(doc), NEW s, NEW e, Fits(doc, s, e), NEW i \in 1..(e - s),
         i \in UnitEnds("code", Part(doc, s, e))
  PROVE  s + i \in UnitEnds("code", doc)
<1>1. PICK n \in Nat : n = Len(doc)
  BY DEF IsDocument
<1>2. s \in Nat /\ e \in (s + 1)..n /\ e - s \in Nat \ {0}
  BY <1>1, FittingPart
<1>3. PICK part \in Seq(Atom) :
        part = Part(doc, s, e) /\ Len(part) = e - s /\ \A k \in 1..(e - s) : part[k] = doc[s + k]
  BY FittingPart
<1>4. CASE i = e - s
  BY <1>2, <1>4 DEF Fits
<1>5. CASE i # e - s
  <2>1. PICK j \in 1..(e - s), p \in 1..(n - 1) : j = i + 1 /\ p = s + i /\ s + j = p + 1
    BY <1>2, <1>5
  <2>2. i \in 1..(Len(part) - 1)
    BY <1>2, <1>3, <1>5
  <2>3. ~Joined("code", part, i)
    BY <1>3, <2>2, UnitEndsIn DEF IsDocument
  <2>4. part[i] = doc[p] /\ part[i + 1] = doc[p + 1]
    BY <1>3, <2>1
  <2>5. DecimalPoint(doc, p) => DecimalPoint(part, i)
    BY <1>3, <2>1, PointOfPart
  <2>6. DecimalPoint(doc, p + 1) => DecimalPoint(part, i + 1)
    BY <1>3, <2>1, PointOfPart
  <2>7. ~Joined("code", doc, p)
    BY <2>3, <2>4, <2>5, <2>6 DEF Joined
  <2> QED BY <1>1, <2>1, <2>7, UnitEndsIn
<1> QED BY <1>4, <1>5

LEMMA Remains ==
  ASSUME NEW m \in Nat \ {0}, NEW x \in Nat, x < m
  PROVE  x % m = x
OBVIOUS

LEMMA Wraps == ASSUME NEW m \in Nat \ {0} PROVE m % m = 0
OBVIOUS

\* A chunk by itself is a single chunk: there are as many units in it, or fewer.
LEMMA ChunkIsWhole ==
  ASSUME NEW doc, IsDocument(doc), NEW e \in ChunkEnds(doc),
         NEW s, s = Before(ChunkEnds(doc), e)
  PROVE  Fits(doc, s, e) /\ Whole(Part(doc, s, e)) /\ OpenUnits(doc)[s] = 0
<1>1. PICK n \in Nat : n = Len(doc)
  BY DEF IsDocument
<1>2. PICK ends \in SUBSET (Nat \ {0}) : ends = ChunkEnds(doc)
  BY ChunkEndsIn
<1>3. s \in {0} \cup ends /\ s \in 0..(e - 1) /\ \A x \in ends : x < e => x <= s
  BY <1>2, BeforeOf
<1>4. /\ ends \in SUBSET (1..n) /\ ends \subseteq UnitEnds("code", doc)
      /\ \A i \in 1..(n - 1) : i \in ends <=> i \in UnitEnds("code", doc) /\ OpenUnits(doc)[i] = 0
  BY <1>1, <1>2, ChunkEndsIn
<1>5. e \in 1..n /\ s \in Nat /\ e \in (s + 1)..n
  BY <1>2, <1>3, <1>4
<1>6. ASSUME s # 0
      PROVE  s \in ends /\ s \in 1..(n - 1) /\ s < n
  BY <1>3, <1>5, <1>6
<1>7. Fits(doc, s, e)
  <2>1. s # 0 => s \in UnitEnds("code", doc)
    BY <1>4, <1>6
  <2>2. e \in UnitEnds("code", doc)
    BY <1>2, <1>4
  <2> QED BY <1>1, <1>5, <2>1, <2>2 DEF Fits
<1>8. OpenUnits(doc)[s] = 0
  <2>1. CASE s = 0
    BY <2>1, OpenShape
  <2>2. CASE s # 0
    BY <1>4, <1>6, <2>2
  <2> QED BY <2>1, <2>2
<1>9. PICK l \in Nat \ {0}, part \in Seq(Atom) :
        /\ l = e - s /\ part = Part(doc, s, e) /\ Len(part) = l
        /\ \A k \in 1..l : part[k] = doc[s + k]
  <2>1. PICK l \in Nat \ {0} : l = e - s
    BY <1>7, FittingPart
  <2>2. PICK part \in Seq(Atom) :
          /\ part = Part(doc, s, e) /\ Len(part) = e - s
          /\ \A k \in 1..(e - s) : part[k] = doc[s + k]
    BY <1>7, FittingPart
  <2> QED BY ONLY <2>1, <2>2
<1>10. IsDocument(part)
  BY DEF IsDocument
<1>11. PICK m \in Nat \ {0} : m = MaxUnits
  BY MaxUnitsAssumption
<1> DEFINE d == OpenUnits(doc)
           a == OpenUnits(part)
           T == {j \in Nat : j < l =>
                  /\ a[j] \in Nat /\ d[s + j] \in Nat /\ a[j] <= d[s + j] /\ d[s + j] < m
                  /\ j \in UnitEnds("code", part) => a[j] # 0}
<1> HIDE DEF d, a
<1>12. 0 \in T
  <2>1. a[0] = 0 /\ s + 0 = s /\ d[s] = 0 /\ 0 < m
    BY <1>5, <1>8, <1>10, <1>11, OpenShape DEF a, d
  <2>2. 0 \notin UnitEnds("code", part)
    BY <1>9, <1>10, UnitEndsIn
  <2> QED BY <2>1, <2>2
<1>13. ASSUME NEW j \in Nat, j \in T PROVE j + 1 \in T
  <2> SUFFICES ASSUME j + 1 < l
               PROVE  /\ a[j + 1] \in Nat /\ d[s + (j + 1)] \in Nat
                      /\ a[j + 1] <= d[s + (j + 1)] /\ d[s + (j + 1)] < m
                      /\ j + 1 \in UnitEnds("code", part) => a[j + 1] # 0
    OBVIOUS
  <2>1. PICK i \in 1..l : i = j + 1 /\ i - 1 = j /\ i < l
    OBVIOUS
  <2>2. PICK x \in 1..(n - 1) : x = s + i /\ x - 1 = s + j /\ s < x /\ x < e
    BY <1>5, <1>9, <2>1
  <2>3. PICK old \in Nat, open \in Nat :
          old = a[i - 1] /\ open = d[x - 1] /\ old <= open /\ open < m
    BY <1>13, <2>1, <2>2
  <2>4. a[i] = OpenStep(part, i, old)
    BY <1>9, <1>10, <2>3, OpenShape DEF a
  <2>5. d[x] = OpenStep(doc, x, open)
    <3>1. x \in 1..n
      OBVIOUS
    <3> QED BY <1>1, <2>3, <3>1, OpenShape DEF d
  <2>6. part[i] = doc[x]
    BY <1>9, <2>2
  <2>7. i \in UnitEnds("code", part) => x \in UnitEnds("code", doc)
    BY <1>7, <1>9, <2>2, EndOfPart
  <2>8. x \in UnitEnds("code", doc) => d[x] # 0
    <3>1. x \notin ends
      BY <1>3, <1>5, <2>2
    <3> QED BY <1>4, <3>1 DEF d
  <2>9. CASE x \notin UnitEnds("code", doc)
    <3>1. d[x] = open /\ a[i] = old /\ i \notin UnitEnds("code", part)
      BY <2>4, <2>5, <2>7, <2>9 DEF OpenStep
    <3> QED BY <2>1, <2>2, <2>3, <3>1
  <2>10. CASE x \in UnitEnds("code", doc)
    <3>1. d[x] # 0 /\ d[x] = (IF doc[x] \in {"break", "opaque"} THEN 0 ELSE (open + 1) % m)
      BY <1>11, <2>5, <2>8, <2>10 DEF OpenStep
    <3>2. doc[x] \notin {"break", "opaque"} /\ d[x] = (open + 1) % m
      BY <3>1
    <3>3. PICK more \in Nat, most \in Nat : more = old + 1 /\ most = open + 1 /\ more <= most
      BY <2>3
    <3>4. most # m
      <4> SUFFICES ASSUME most = m PROVE FALSE
        OBVIOUS
      <4>1. m % m = 0
        BY Wraps
      <4> QED BY <3>1, <3>2, <3>3, <4>1
    <3>5. most < m /\ more < m /\ more # 0
      BY <2>3, <3>3, <3>4
    <3>6. most % m = most /\ more % m = more
      BY <3>5, Remains
    <3>7. d[x] = most
      BY <3>2, <3>3, <3>6
    <3>8. CASE i \in UnitEnds("code", part)
      <4>1. a[i] = more
        BY <1>11, <2>4, <2>6, <3>2, <3>3, <3>6, <3>8 DEF OpenStep
      <4> QED BY <2>1, <2>2, <3>3, <3>5, <3>7, <4>1
    <3>9. CASE i \notin UnitEnds("code", part)
      <4>1. a[i] = old
        BY <2>4, <3>9 DEF OpenStep
      <4> QED BY <2>1, <2>2, <2>3, <3>3, <3>5, <3>7, <3>9, <4>1
    <3> QED BY <3>8, <3>9
  <2> QED BY <2>9, <2>10
<1>14. Nat \subseteq T
  <2> HIDE DEF T
  <2> QED BY <1>12, <1>13, Numbers!Induct
<1>15. /\ ChunkEnds(part) \in SUBSET (1..l) /\ l \in ChunkEnds(part)
       /\ \A j \in 1..(l - 1) :
            j \in ChunkEnds(part) => j \in UnitEnds("code", part) /\ a[j] = 0
  BY <1>9, <1>10, ChunkEndsIn DEF a
<1>16. ASSUME NEW j \in ChunkEnds(part), j # l
       PROVE  FALSE
  <2>1. j \in 1..(l - 1) /\ j \in Nat /\ j < l
    BY <1>15, <1>16
  <2>2. j \in T
    BY <1>14, <2>1
  <2> QED BY <1>15, <2>1, <2>2
<1>17. Whole(part)
  BY <1>9, <1>10, <1>15, <1>16 DEF Whole
<1> QED BY <1>7, <1>8, <1>9, <1>17

\* Behind the letters of its identifier, the rest of one is cut into units as
\* within the document.
UnitsBehind(letters, atoms) == UnitsBetween("code", <<letters>> \o atoms, 1, Len(atoms) + 1)

LEMMA RestOfIdentifier ==
  ASSUME NEW doc, IsDocument(doc), NEW s, NEW e, Fits(doc, s, e), s # 0,
         doc[s] \in {"word", "long"}
  PROVE  UnitsBehind(doc[s], Part(doc, s, e)) = UnitsBetween("code", doc, s, e)
<1>1. PICK n \in Nat : n = Len(doc)
  BY DEF IsDocument
<1>2. s \in Nat \ {0} /\ e \in (s + 1)..n /\ doc \in Seq(Atom)
  BY <1>1, FittingPart DEF IsDocument
<1>3. PICK l \in Nat \ {0}, part \in Seq(Atom) :
        /\ l = e - s /\ part = Part(doc, s, e) /\ Len(part) = l
        /\ \A k \in 1..l : part[k] = doc[s + k]
  BY FittingPart
<1>4. PICK r \in Nat, x \in Atom : r = s - 1 /\ x = doc[s] /\ s \in 1..n /\ e - r = l + 1 /\ s = r + 1
  <2>1. s \in 1..n /\ s \in 1..Len(doc)
    BY <1>1, <1>2
  <2>2. doc[s] \in Atom
    BY <1>2, <2>1, ElementOfSeq
  <2> QED BY <1>2, <1>3, <2>1, <2>2
<1>5. ASSUME r # 0
      PROVE  r \in UnitEnds("code", doc) /\ ~(doc[r] \in {"word", "long"} /\ doc[r + 1] = "digits")
  <2>1. r \in 1..(n - 1) /\ doc[r + 1] = x /\ x \in {"word", "long"}
    BY <1>2, <1>4, <1>5
  <2>2. ~DecimalPoint(doc, r)
    BY <2>1 DEF DecimalPoint
  <2>3. ~DecimalPoint(doc, r + 1)
    BY <2>1 DEF DecimalPoint
  <2>4. ~Joined("code", doc, r)
    BY <2>1, <2>2, <2>3 DEF Joined
  <2> QED BY <1>1, <2>1, <2>4, UnitEndsIn
<1>6. Stands(doc, r, e)
  <2>1. e \in (r + 1)..Len(doc) /\ e \in UnitEnds("code", doc)
    BY <1>1, <1>2, <1>4 DEF Fits
  <2> QED BY <1>5, <2>1 DEF Stands, Fits
<1>7. PICK whole \in Seq(Atom) :
        /\ whole = Part(doc, r, e) /\ Len(whole) = l + 1
        /\ \A k \in 1..(l + 1) : whole[k] = doc[r + k]
  <2>1. PICK whole \in Seq(Atom) :
          /\ whole = Part(doc, r, e) /\ Len(whole) = e - r
          /\ \A k \in 1..(e - r) : whole[k] = doc[r + k]
    BY <1>6, PartOf
  <2> QED BY ONLY <1>4, <2>1
<1>8. whole = <<x>> \o part
  <2>1. PICK head \in Seq(Atom) : head = <<x>> /\ Len(head) = 1 /\ head[1] = x
    <3>1. <<x>> \in Seq(Atom)
      BY <1>4
    <3>2. Len(<<x>>) = 1 /\ <<x>>[1] = x
      OBVIOUS
    <3> QED BY <3>1, <3>2
  <2>2. PICK t : t = head \o part
    OBVIOUS
  <2>3. /\ t \in Seq(Atom) /\ Len(t) = Len(head) + Len(part)
        /\ \A i \in 1..(Len(head) + Len(part)) :
             t[i] = IF i <= Len(head) THEN head[i] ELSE part[i - Len(head)]
    BY <2>2, ConcatProperties
  <2>4. Len(t) = l + 1
    BY <1>3, <2>1, <2>3
  <2>5. ASSUME NEW i \in 1..(l + 1) PROVE t[i] = whole[i]
    <3>1. i \in 1..(Len(head) + Len(part))
      BY <1>3, <2>1
    <3>2. CASE i = 1
      BY <1>4, <1>7, <2>1, <2>3, <3>1, <3>2
    <3>3. CASE i # 1
      <4>1. PICK j \in 1..l : j = i - 1 /\ s + j = r + i /\ ~(i <= 1)
        BY <1>4, <3>3
      <4>2. t[i] = part[j]
        BY <2>1, <2>3, <3>1, <4>1
      <4> QED BY <1>3, <1>7, <4>1, <4>2
    <3> QED BY <3>2, <3>3
  <2>6. t = whole
    BY <1>7, <2>3, <2>4, <2>5, SeqEqual
  <2> QED BY <2>1, <2>2, <2>6
<1>9. PICK one \in Nat : one = 1 /\ one + l = l + 1
  OBVIOUS
<1>10. \A k \in 1..l : one + k \in 1..(e - r) /\ r + (one + k) = s + k
  BY <1>4, <1>9
<1>11. \A k \in 1..l : whole[one + k] = doc[s + k]
  BY <1>4, <1>7, <1>10
<1>12. ASSUME NEW k \in 1..l
       PROVE  one + k \in UnitEnds("code", whole) <=> s + k \in UnitEnds("code", doc)
  <2>1. PICK i \in 1..(e - r) : i = one + k /\ r + i = s + k
    BY <1>10
  <2> QED BY <1>6, <1>7, <2>1, EndsAlone
<1>13. IsDocument(whole) /\ one + l <= Len(whole) /\ s + l <= Len(doc) /\ s + l = e
  BY <1>1, <1>2, <1>3, <1>7, <1>9 DEF IsDocument
<1>14. UnitsBetween("code", whole, one, one + l) = UnitsBetween("code", doc, s, s + l)
  <2>1. Alike("code", whole, one, doc, s, l)
    BY <1>11, <1>12 DEF Alike
  <2> QED BY <1>2, <1>13, <2>1, SameUnits
<1> QED BY <1>3, <1>4, <1>8, <1>9, <1>13, <1>14 DEF UnitsBehind

LEMMA LineEndsIn ==
  ASSUME NEW doc, IsDocument(doc)
  PROVE  /\ Len(doc) \in Nat
         /\ LineEnds(doc) \in SUBSET (1..Len(doc)) /\ LineEnds(doc) \in SUBSET (Nat \ {0})
         /\ Len(doc) # 0 => Len(doc) \in LineEnds(doc)
<1>1. PICK n \in Nat : n = Len(doc) /\ DOMAIN doc = 1..n
  BY DEF IsDocument
<1>2. LineEnds(doc) = {e \in 1..n : doc[e] = "break" \/ e = n}
  BY <1>1 DEF LineEnds
<1>3. n # 0 => n \in 1..n
  BY <1>1
<1>4. 1..n \in SUBSET (Nat \ {0})
  BY <1>1
<1> QED BY <1>1, <1>2, <1>3, <1>4

-----------------------------------------------------------------------------
(***************************************************************************)
(* What caches hold, and what workers have made of their documents.        *)
(***************************************************************************)

\* Ids for each of the ends: those of the parts that the cuts make of the document.
Grouped(o, vocabs, doc, cuts, ends, groups) ==
  /\ groups = [e \in ends |-> groups[e]]
  /\ \A e \in ends : IsReading(o, vocabs, Part(doc, Before(cuts, e), e), groups[e])

\* The ends up to a place.
UpTo(ends, at) == {e \in ends : e <= at}

\* One more group, as a worker appends it.
Extended(groups, m, ids) == [e \in DOMAIN groups \cup {m} |-> IF e = m THEN ids ELSE groups[e]]

\* Programs are ids of what they are kept under, with a vocabulary at the
\* cache's address; those of code are kept under single chunks only.
CacheTrue(o, cache) ==
  /\ \A atoms \in DOMAIN cache.programs :
       /\ o.mode = "code" /\ Whole(atoms)
       /\ IsReading(o, At(cache.context), atoms, cache.programs[atoms])
  /\ \A key \in DOMAIN cache.documents :
       IsAnswer(o, At(cache.context), key[1], key[2], cache.documents[key])

\* A worker within a document has the groups up to where it is, and a cache of
\* the batch's vocabulary.
Place(o, b, cache, r) ==
  /\ r.pc # "encode" => r.at = 0 /\ r.groups = <<>>
  /\ r.pc = "document" => r.document \in Nat \ {0}
  /\ r.pc \in {"lines", "encode"} =>
       r.document \in 1..Len(b.docs) /\ cache.context = AddressOf[b.vocab]
  /\ r.pc = "lines" => o.mode = "code"
  /\ r.pc = "encode" =>
       LET doc == b.docs[r.document]
           ends == Ends(o.mode, doc)
       IN /\ r.at \in {0} \cup ends
          /\ Grouped(o, At(AddressOf[b.vocab]), doc, ends, UpTo(ends, r.at), r.groups)

Contents ==
  \A w \in Worker :
    CacheTrue(options, caches[w]) /\ Place(options, batch, caches[w], work[w])

LEMMA NoGroups ==
  ASSUME NEW o, NEW vocabs, NEW doc, NEW cuts
  PROVE  Grouped(o, vocabs, doc, cuts, {}, <<>>)
<1>1. PICK none : none = <<>>
  OBVIOUS
<1>2. none = [e \in {} |-> none[e]]
  BY <1>1
<1> QED BY <1>1, <1>2 DEF Grouped

-----------------------------------------------------------------------------
(***************************************************************************)
(* The pieces of a document, put together.                                 *)
(***************************************************************************)

LEMMA EndsShape ==
  ASSUME NEW mode, NEW doc, IsDocument(doc)
  PROVE  /\ Len(doc) \in Nat
         /\ Ends(mode, doc) \in SUBSET (1..Len(doc)) /\ Ends(mode, doc) \in SUBSET (Nat \ {0})
         /\ Len(doc) # 0 => Len(doc) \in Ends(mode, doc)
<1>1. PICK n \in Nat : n = Len(doc)
  BY DEF IsDocument
<1>2. CASE mode = "code"
  BY <1>2, ChunkEndsIn DEF Ends
<1>3. CASE mode # "code"
  <2>1. Ends(mode, doc) = {n} \ {0}
    BY <1>1, <1>3 DEF Ends
  <2>2. n # 0 => n \in 1..n /\ n \in Nat \ {0}
    BY <1>1
  <2> QED BY <1>1, <2>1, <2>2
<1> QED BY <1>2, <1>3

\* The end behind an end, and the ends up to it.
Follows(ends, at, m) == m = Min({e \in ends : e > at})

LEMMA EndBehind ==
  ASSUME NEW ends \in SUBSET (Nat \ {0}), NEW at \in {0} \cup ends, NEW n \in ends, at < n,
         NEW m, Follows(ends, at, m)
  PROVE  /\ m \in ends /\ at < m /\ Before(ends, m) = at
         /\ UpTo(ends, m) = UpTo(ends, at) \cup {m}
<1> DEFINE T == {e \in ends : e > at}
<1>1. \A e \in ends : e \in Nat /\ e > 0
  OBVIOUS
<1>2. at \in Nat /\ n \in T /\ T \in SUBSET Nat /\ T # {}
  <2>1. at \in Nat
    BY <1>1
  <2>2. n \in T
    BY <1>1, <2>1
  <2>3. T \in SUBSET Nat
    BY <1>1
  <2> QED BY <2>1, <2>2, <2>3
<1>3. m \in T /\ \A y \in T : m <= y
  <2> HIDE DEF T
  <2>1. Min(T) \in T /\ \A y \in T : Min(T) <= y
    BY <1>2, LeastOf
  <2> QED BY <2>1 DEF T, Follows
<1>4. m \in ends /\ at < m /\ m \in Nat
  BY <1>1, <1>2, <1>3
<1>5. \A y \in ends : y > at => m <= y
  BY <1>3
<1> HIDE DEF T
<1>6. PICK b \in {0} \cup ends : b = Before(ends, m) /\ b \in 0..(m - 1) /\ \A x \in ends : x < m => x <= b
  BY <1>4, BeforeOf
<1>7. at <= b
  <2>1. CASE at = 0
    BY <1>4, <1>6, <2>1
  <2>2. CASE at # 0
    BY <1>4, <1>6, <2>2
  <2> QED BY <2>1, <2>2
<1>8. ~(b > at)
  <2> SUFFICES ASSUME b > at PROVE FALSE
    OBVIOUS
  <2>1. b \in ends
    BY <1>2, <1>6
  <2>2. m <= b /\ b <= m - 1
    BY <1>5, <1>6, <2>1
  <2> QED BY <1>1, <1>4, <2>1, <2>2
<1>9. b = at
  <2>1. b \in Int /\ at \in Int
    BY <1>2, <1>4, <1>6
  <2> QED BY <1>7, <1>8, <2>1
<1>10. ASSUME NEW e \in ends PROVE e <= m <=> (e <= at \/ e = m)
  <2>1. e \in Nat /\ (e > at => m <= e)
    BY <1>1, <1>5
  <2> QED BY <1>2, <1>4, <2>1
<1>11. UpTo(ends, m) = UpTo(ends, at) \cup {m}
  BY <1>4, <1>10 DEF UpTo
<1> QED BY <1>4, <1>6, <1>9, <1>11

LEMMA UpToBounds ==
  ASSUME NEW n \in Nat, NEW ends \in SUBSET (1..n)
  PROVE  UpTo(ends, 0) = {} /\ UpTo(ends, n) = ends
<1>1. \A e \in ends : e \in Nat /\ 1 <= e /\ e <= n
  OBVIOUS
<1>2. \A e \in ends : ~(e <= 0) /\ e <= n
  BY <1>1
<1> QED BY <1>2 DEF UpTo

\* One more group.
LEMMA NextGroup ==
  ASSUME NEW o, NEW vocabs, NEW doc, NEW cuts, NEW ends, NEW groups,
         Grouped(o, vocabs, doc, cuts, ends, groups),
         NEW m, NEW ids, IsReading(o, vocabs, Part(doc, Before(cuts, m), m), ids)
  PROVE  Grouped(o, vocabs, doc, cuts, ends \cup {m}, Extended(groups, m, ids))
<1>1. DOMAIN groups = ends
  BY DEF Grouped
<1>2. PICK more : more = Extended(groups, m, ids)
  OBVIOUS
<1>3. more = [e \in ends \cup {m} |-> IF e = m THEN ids ELSE groups[e]]
  BY <1>1, <1>2 DEF Extended
<1>4. more[m] = ids /\ \A e \in ends : e # m => more[e] = groups[e]
  BY <1>3
<1>5. more = [e \in ends \cup {m} |-> more[e]]
  BY <1>3
<1>6. ASSUME NEW e \in ends \cup {m}
      PROVE  IsReading(o, vocabs, Part(doc, Before(cuts, e), e), more[e])
  <2>1. CASE e = m
    BY <1>4, <2>1
  <2>2. CASE e # m
    BY <1>4, <2>2 DEF Grouped
  <2> QED BY <2>1, <2>2
<1> QED BY <1>2, <1>5, <1>6 DEF Grouped

\* Groups for all the parts are an answer.
LEMMA AllGroups ==
  ASSUME NEW o, NEW vocabs, NEW doc, NEW newline, NEW cuts \in Cuts(o.mode, doc), NEW groups,
         Grouped(o, vocabs, doc, cuts, cuts, groups),
         NEW ids, ids = [groups |-> groups, newline |-> newline]
  PROVE  IsAnswer(o, vocabs, doc, newline, ids)
<1>1. ids.groups = groups /\ DOMAIN groups = cuts /\ groups = [e \in cuts |-> groups[e]]
  BY DEF Grouped
<1>2. DOMAIN ids.groups = cuts
  BY <1>1
<1>3. ids = [groups |-> [e \in cuts |-> ids.groups[e]], newline |-> newline]
  BY <1>1
<1>4. \A e \in cuts : IsReading(o, vocabs, Part(doc, Before(cuts, e), e), ids.groups[e])
  BY <1>1 DEF Grouped
<1> QED BY <1>2, <1>3, <1>4 DEF IsAnswer

\* The ids of a chunk in its document are those of the chunk by itself, or of
\* the rest of an identifier; outside code mode there is one part, the document.
LEMMA ChunkReading ==
  ASSUME NEW o, NEW v, NEW doc, IsDocument(doc), NEW m \in Ends(o.mode, doc),
         NEW at, at = Before(Ends(o.mode, doc), m)
  PROVE  /\ RangeIds(o, v, doc, at, m) \in Readings(o, v, Part(doc, at, m))
         /\ o.mode = "code" => Whole(Part(doc, at, m))
<1>1. PICK atoms : atoms = Part(doc, at, m)
  OBVIOUS
<1>2. CASE o.mode # "code"
  <2>1. PICK n \in Nat : n = Len(doc)
    BY DEF IsDocument
  <2>2. Ends(o.mode, doc) = {n} \ {0}
    BY <1>2, <2>1 DEF Ends
  <2>3. m = n /\ n # 0 /\ Ends(o.mode, doc) \in SUBSET (Nat \ {0})
    BY <2>2, EndsShape
  <2>4. at \in {0} \cup {n} /\ at \in 0..(m - 1)
    BY <2>2, <2>3, BeforeOf
  <2>5. at = 0
    BY <2>1, <2>3, <2>4
  <2>6. /\ Part(doc, 0, m) \in Seq(Atom) /\ Len(Part(doc, 0, m)) = m - 0
        /\ \A i \in 1..(m - 0) : Part(doc, 0, m)[i] = doc[0 + i]
    <3>1. doc \in Seq(Atom) /\ 0 \in Nat /\ m \in (0 + 1)..Len(doc)
      BY <2>1, <2>3 DEF IsDocument
    <3> QED BY <3>1, PartShape
  <2>7. atoms \in Seq(Atom) /\ Len(atoms) = n /\ \A i \in 1..n : atoms[i] = doc[i]
    BY <1>1, <2>1, <2>3, <2>5, <2>6
  <2>8. atoms = doc
    BY <2>1, <2>7, SeqEqual DEF IsDocument
  <2>9. RangeIds(o, v, doc, at, m) = RangeIds(o, v, atoms, 0, Len(atoms))
    BY <2>1, <2>3, <2>5, <2>8
  <2> QED BY <1>1, <1>2, <2>9 DEF Readings
<1>3. CASE o.mode = "code"
  <2>1. Ends(o.mode, doc) = ChunkEnds(doc)
    BY <1>3 DEF Ends
  <2>2. Fits(doc, at, m) /\ Whole(atoms)
    BY <1>1, <2>1, ChunkIsWhole
  <2>3. CASE Stands(doc, at, m)
    <3>1. UnitsBetween("code", atoms, 0, Len(atoms)) = UnitsBetween("code", doc, at, m)
      BY <1>1, <2>3, UnitsAlone
    <3>2. RangeIds(o, v, doc, at, m) = RangeIds(o, v, atoms, 0, Len(atoms))
      BY <1>3, <3>1 DEF RangeIds
    <3> QED BY <1>1, <2>2, <3>2 DEF Readings
  <2>4. CASE ~Stands(doc, at, m)
    <3>1. at # 0 /\ doc[at] \in {"word", "long"} /\ doc[at + 1] = "digits"
      BY <2>2, <2>4 DEF Stands
    <3>2. PICK letters \in {"word", "long"} : letters = doc[at]
      BY <3>1
    <3>3. UnitsBetween("code", <<letters>> \o atoms, 1, Len(atoms) + 1) = UnitsBetween("code", doc, at, m)
      <4>1. UnitsBehind(doc[at], Part(doc, at, m)) = UnitsBetween("code", doc, at, m)
        BY <2>2, <3>1, RestOfIdentifier
      <4> QED BY ONLY <1>1, <3>2, <4>1 DEF UnitsBehind
    <3>4. RangeIds(o, v, doc, at, m) = RangeIds(o, v, <<letters>> \o atoms, 1, Len(atoms) + 1)
      BY <1>3, <3>3 DEF RangeIds
    <3>5. atoms[1] = "digits"
      <4>1. PICK part \in Seq(Atom) : part = atoms /\ \A k \in 1..(m - at) : part[k] = doc[at + k]
        BY <1>1, <2>2, FittingPart
      <4>2. 1 \in 1..(m - at)
        BY <2>2, FittingPart
      <4> QED BY <3>1, <4>1, <4>2
    <3> QED BY <1>1, <1>3, <2>2, <3>2, <3>4, <3>5 DEF Readings
  <2> QED BY <2>3, <2>4
<1> QED BY <1>2, <1>3

\* Code is read in one way: its lines, unless they are its chunks, are no
\* chunks by themselves, and no chunk begins with digits.
ReadInOneWay(o, doc) ==
  o.mode = "code" =>
    /\ LinesAlone(doc) => LineEnds(doc) = ChunkEnds(doc)
    /\ \A e \in ChunkEnds(doc) : doc[Before(ChunkEnds(doc), e) + 1] # "digits"

\* What is promised of a document is exact where one vocabulary is kept at the
\* place and the document, if it is code, is read in one way: then a batch
\* returns the ids that DocumentIds gives (encode_flat_surface_document).
THEOREM AnswersAreDocumentIds ==
  ASSUME NEW o, NEW v, NEW doc, IsDocument(doc), ReadInOneWay(o, doc),
         NEW newline, NEW ids, IsAnswer(o, {v}, doc, newline, ids)
  PROVE  ids = DocumentIds(o, v, doc, newline)
<1>1. PICK ends : ends = Ends(o.mode, doc)
  OBVIOUS
<1>2. Cuts(o.mode, doc) = {ends}
  BY <1>1 DEF Cuts, ReadInOneWay, Ends
<1>3. /\ ids = [groups |-> [e \in ends |-> ids.groups[e]], newline |-> newline]
      /\ \A e \in ends : IsReading(o, {v}, Part(doc, Before(ends, e), e), ids.groups[e])
  BY <1>2 DEF IsAnswer
<1>4. ASSUME NEW e \in ends, NEW at, at = Before(ends, e)
      PROVE  ids.groups[e] = RangeIds(o, v, doc, at, e)
  <2>1. PICK atoms : atoms = Part(doc, at, e)
    OBVIOUS
  <2>2. ids.groups[e] \in Readings(o, v, atoms)
    BY <1>3, <1>4, <2>1 DEF IsReading
  <2>3. RangeIds(o, v, doc, at, e) \in Readings(o, v, atoms)
    BY <1>1, <1>4, <2>1, ChunkReading
  <2>4. ~(o.mode = "code" /\ atoms[1] = "digits")
    <3> SUFFICES ASSUME o.mode = "code" PROVE atoms[1] # "digits"
      OBVIOUS
    <3>1. ends = ChunkEnds(doc)
      BY <1>1 DEF Ends
    <3>2. doc[at + 1] # "digits"
      BY <1>4, <3>1 DEF ReadInOneWay
    <3>3. Fits(doc, at, e)
      BY <1>4, <3>1, ChunkIsWhole
    <3>4. PICK part \in Seq(Atom) : part = atoms /\ \A k \in 1..(e - at) : part[k] = doc[at + k]
      BY <2>1, <3>3, FittingPart
    <3>5. 1 \in 1..(e - at)
      BY <3>3, FittingPart
    <3> QED BY <3>2, <3>4, <3>5
  <2>5. Readings(o, v, atoms) = {RangeIds(o, v, atoms, 0, Len(atoms))}
    BY <2>4 DEF Readings
  <2> QED BY <2>2, <2>3, <2>5
<1>5. [e \in ends |-> ids.groups[e]] = [e \in ends |-> RangeIds(o, v, doc, Before(ends, e), e)]
  BY <1>4
<1> QED BY <1>1, <1>3, <1>5 DEF DocumentIds

-----------------------------------------------------------------------------
(***************************************************************************)
(* The steps of the workers preserve what the caches hold.                 *)
(***************************************************************************)

LEMMA Retained ==
  ASSUME NEW table, NEW capacity, NEW key, NEW value,
         NEW k \in DOMAIN Retain(table, capacity, key, value)
  PROVE  \/ k \in DOMAIN table /\ Retain(table, capacity, key, value)[k] = table[k]
         \/ k = key /\ Retain(table, capacity, key, value)[k] = value
<1>1. CASE Cardinality(DOMAIN table) >= capacity \/ key \in DOMAIN table
  BY <1>1 DEF Retain
<1>2. CASE ~(Cardinality(DOMAIN table) >= capacity \/ key \in DOMAIN table)
  <2>1. Retain(table, capacity, key, value) =
          [x \in DOMAIN table \cup {key} |-> IF x = key THEN value ELSE table[x]]
    BY <1>2 DEF Retain
  <2> QED BY <1>2, <2>1
<1> QED BY <1>1, <1>2

LEMMA EmptyIsTrue ==
  ASSUME NEW o, NEW cache, cache.programs = <<>>, cache.documents = <<>>
  PROVE  CacheTrue(o, cache)
<1>1. DOMAIN cache.programs = {} /\ DOMAIN cache.documents = {}
  OBVIOUS
<1> QED BY <1>1 DEF CacheTrue

LEMMA PreparedIsTrue ==
  ASSUME NEW o, NEW cache, CacheTrue(o, cache), NEW v
  PROVE  CacheTrue(o, Prepared(cache, v)) /\ Prepared(cache, v).context = AddressOf[v]
<1>1. CASE cache.context = AddressOf[v]
  BY <1>1 DEF Prepared
<1>2. CASE cache.context # AddressOf[v]
  <2>1. PICK c : c = Prepared(cache, v)
    OBVIOUS
  <2>2. c.programs = <<>> /\ c.documents = <<>> /\ c.context = AddressOf[v]
    BY <1>2, <2>1 DEF Prepared
  <2> QED BY <2>1, <2>2, EmptyIsTrue
<1> QED BY <1>1, <1>2

\* A program of the vocabulary in use, retained.
LEMMA ProgramRetained ==
  ASSUME NEW o, o.mode = "code", NEW cache, IsCache(cache), CacheTrue(o, cache),
         NEW atoms, Whole(atoms), NEW ids, IsReading(o, At(cache.context), atoms, ids)
  PROVE  CacheTrue(o, [cache EXCEPT !.programs = Retain(@, ProgramCapacity, atoms, ids)])
<1> DEFINE table == Retain(cache.programs, ProgramCapacity, atoms, ids)
<1>1. PICK c : c = [cache EXCEPT !.programs = table]
  OBVIOUS
<1>2. c.context = cache.context /\ c.programs = table /\ c.documents = cache.documents
  BY <1>1 DEF IsCache
<1>3. ASSUME NEW k \in DOMAIN table
      PROVE  (k \in DOMAIN cache.programs /\ table[k] = cache.programs[k]) \/ (k = atoms /\ table[k] = ids)
  BY Retained
<1> HIDE DEF table
<1>4. ASSUME NEW k \in DOMAIN c.programs
      PROVE  o.mode = "code" /\ Whole(k) /\ IsReading(o, At(c.context), k, c.programs[k])
  <2>1. k \in DOMAIN table /\ c.programs[k] = table[k]
    BY <1>2
  <2>2. CASE k \in DOMAIN cache.programs /\ table[k] = cache.programs[k]
    BY <1>2, <2>1, <2>2 DEF CacheTrue
  <2>3. CASE k = atoms /\ table[k] = ids
    BY <1>2, <2>1, <2>3
  <2> QED BY <1>3, <2>1, <2>2, <2>3
<1>5. \A k \in DOMAIN c.documents : IsAnswer(o, At(c.context), k[1], k[2], c.documents[k])
  BY <1>2 DEF CacheTrue
<1>6. CacheTrue(o, c)
  BY <1>4, <1>5 DEF CacheTrue
<1> QED BY <1>1, <1>6 DEF table

LEMMA DocumentRetained ==
  ASSUME NEW o, NEW cache, IsCache(cache), CacheTrue(o, cache),
         NEW key, NEW ids, IsAnswer(o, At(cache.context), key[1], key[2], ids)
  PROVE  CacheTrue(o, [cache EXCEPT !.documents = Retain(@, DocumentCapacity, key, ids)])
<1> DEFINE table == Retain(cache.documents, DocumentCapacity, key, ids)
<1>1. PICK c : c = [cache EXCEPT !.documents = table]
  OBVIOUS
<1>2. c.context = cache.context /\ c.documents = table /\ c.programs = cache.programs
  BY <1>1 DEF IsCache
<1>3. ASSUME NEW k \in DOMAIN table
      PROVE  (k \in DOMAIN cache.documents /\ table[k] = cache.documents[k]) \/ (k = key /\ table[k] = ids)
  BY Retained
<1> HIDE DEF table
<1>4. ASSUME NEW k \in DOMAIN c.documents
      PROVE  IsAnswer(o, At(c.context), k[1], k[2], c.documents[k])
  <2>1. k \in DOMAIN table /\ c.documents[k] = table[k]
    BY <1>2
  <2>2. CASE k \in DOMAIN cache.documents /\ table[k] = cache.documents[k]
    BY <1>2, <2>1, <2>2 DEF CacheTrue
  <2>3. CASE k = key /\ table[k] = ids
    BY <1>2, <2>1, <2>3
  <2> QED BY <1>3, <2>1, <2>2, <2>3
<1>5. \A k \in DOMAIN c.programs :
        o.mode = "code" /\ Whole(k) /\ IsReading(o, At(c.context), k, c.programs[k])
  BY <1>2 DEF CacheTrue
<1>6. CacheTrue(o, c)
  BY <1>4, <1>5 DEF CacheTrue
<1> QED BY <1>1, <1>6 DEF table

\* Only the worker that steps changes its cache and its work.
LEMMA OneKeeps ==
  ASSUME Contents, NEW w \in Worker, UNCHANGED <<options, batch>>,
         \A u \in Worker \ {w} : work'[u] = work[u] /\ caches'[u] = caches[u],
         CacheTrue(options, caches'[w]), Place(options, batch, caches'[w], work'[w])
  PROVE  Contents'
<1>1. ASSUME NEW u \in Worker
      PROVE  CacheTrue(options, caches'[u]) /\ Place(options, batch, caches'[u], work'[u])
  <2>1. CASE u = w
    BY <2>1
  <2>2. CASE u # w
    BY <2>2 DEF Contents
  <2> QED BY <2>1, <2>2
<1> QED BY <1>1 DEF Contents

LEMMA DocumentOf ==
  ASSUME NEW o \in Option, NEW b \in Batches, NEW i \in 1..Len(b.docs)
  PROVE  IsDocument(b.docs[i]) /\ DocumentEnds[o][b.docs[i]] = Ends(o.mode, b.docs[i])
<1>1. b.docs \in Seq(Seq(Atom))
  BY SurfaceBatchAssumption DEF Batch
<1>2. b.docs[i] \in Seq(Atom) /\ i \in DOMAIN b.docs
  BY <1>1, ElementOfSeq
<1>3. b.docs[i] \in Range(b.docs)
  BY <1>2 DEF Range
<1>4. b.docs[i] \in UNION {Range(c.docs) : c \in Batches}
  BY <1>3
<1>5. DocumentEnds[o][b.docs[i]] = Ends(o.mode, b.docs[i])
  BY <1>4 DEF DocumentEnds
<1> QED BY <1>2, <1>5 DEF IsDocument

\* A worker between the look-up of its document and the document's end.
LEMMA InHand ==
  ASSUME IInv, Contents, NEW w \in Worker, work[w].pc \in {"lines", "encode"}
  PROVE  /\ batch \in Batches /\ batch.vocab \in At(AddressOf[batch.vocab]) /\ options \in Option
         /\ IsDocument(Doc(w)) /\ DocumentEnds[options][Doc(w)] = Ends(options.mode, Doc(w))
         /\ caches[w].context = AddressOf[batch.vocab]
         /\ IsCache(caches[w]) /\ CacheTrue(options, caches[w])
<1>1. batch \in Batches /\ batch.vocab \in Vocab /\ options \in Option
  BY BusyBatch DEF IInv, TypeOK
<1>2. CacheTrue(options, caches[w]) /\ Place(options, batch, caches[w], work[w])
  BY DEF Contents
<1>3. work[w].document \in 1..Len(batch.docs) /\ caches[w].context = AddressOf[batch.vocab]
  BY <1>2 DEF Place
<1>4. IsDocument(Doc(w)) /\ DocumentEnds[options][Doc(w)] = Ends(options.mode, Doc(w))
  BY <1>1, <1>3, DocumentOf DEF Doc
<1>5. IsCache(caches[w])
  BY DEF IInv, CachesShape
<1>6. batch.vocab \in At(AddressOf[batch.vocab])
  BY <1>1 DEF At
<1> QED BY <1>1, <1>2, <1>3, <1>4, <1>5, <1>6

\* The document a worker looks up is one of the batch.
LEMMA LookedUp ==
  ASSUME IInv, Contents, NEW w \in Worker, work[w].pc = "document",
         work[w].document <= LastDocument(w)
  PROVE  work[w].document \in 1..Len(batch.docs)
<1>1. batch \in Batches /\ next \in Nat \ {0}
  BY BusyBatch DEF IInv, TypeOK
<1>2. work[w].chunk \in ChunksAt(w)
  BY DEF ChunksAt
<1>3. work[w].chunk \in 1..(next - 1) /\ work[w].chunk <= Len(BatchChunks[batch])
  BY <1>2 DEF IInv, ChunksClaimed
<1>4. Len(BatchChunks[batch]) \in Nat
  BY <1>1, ChunksInBatch
<1>5. work[w].chunk \in 1..Len(BatchChunks[batch])
  BY <1>1, <1>3, <1>4
<1>6. LastDocument(w) \in 1..Len(batch.docs)
  BY <1>1, <1>5, ChunksInBatch DEF LastDocument
<1>7. work[w].document \in Nat \ {0}
  BY DEF Contents, Place
<1>8. Len(batch.docs) \in Nat
  BY <1>1, SurfaceBatchAssumption DEF Batch
<1> QED BY <1>6, <1>7, <1>8

\* What a worker has written when it steps.
TurnsTo(w, pc) == work' = [work EXCEPT ![w].pc = pc]

LEMMA Turned ==
  ASSUME WorkShape, NEW w \in Worker, NEW pc, TurnsTo(w, pc)
  PROVE  /\ work'[w].pc = pc /\ work'[w].document = work[w].document
         /\ work'[w].at = work[w].at /\ work'[w].groups = work[w].groups
         /\ \A u \in Worker \ {w} : work'[u] = work[u]
BY DEF WorkShape, IsWork, TurnsTo

LEMMA DeliveredShape ==
  ASSUME WorkShape, NEW w \in Worker, NEW ids, Delivered(w, ids)
  PROVE  /\ work'[w].pc = "document" /\ work'[w].document = work[w].document + 1
         /\ work'[w].at = 0 /\ work'[w].groups = <<>>
         /\ \A u \in Worker \ {w} : work'[u] = work[u]
BY DEF WorkShape, IsWork, Delivered

LEMMA AppendedShape ==
  ASSUME WorkShape, NEW w \in Worker, NEW ids, Appended(w, ids)
  PROVE  /\ work'[w].pc = work[w].pc /\ work'[w].document = work[w].document
         /\ work'[w].at = NextEnd(w)
         /\ work'[w].groups = Extended(work[w].groups, NextEnd(w), ids)
         /\ \A u \in Worker \ {w} : work'[u] = work[u]
<1>1. PICK groups, m :
        /\ groups = Extended(work[w].groups, NextEnd(w), ids)
        /\ m = NextEnd(w)
  OBVIOUS
<1>2. work = [u \in Worker |-> work[u]] /\ IsWork(work[w])
  BY DEF WorkShape
<1>3. work' = [work EXCEPT ![w].at = m, ![w].groups = groups]
  BY <1>1, <1>2 DEF Appended, IsWork, Extended
<1>4. work'[w].groups = groups /\ work'[w].at = m /\ work'[w].pc = work[w].pc
      /\ work'[w].document = work[w].document /\ \A u \in Worker \ {w} : work'[u] = work[u]
  BY <1>2, <1>3 DEF IsWork
<1> QED BY <1>1, <1>4

LEMMA CacheChanged ==
  ASSUME CachesShape, NEW w \in Worker, NEW c, caches' = [caches EXCEPT ![w] = c]
  PROVE  caches'[w] = c /\ \A u \in Worker \ {w} : caches'[u] = caches[u]
BY DEF CachesShape

\* The look-up of a document, whether or not there is a program of it.
LEMMA LookUpKeeps ==
  ASSUME IInv, Contents, NEW w \in Worker, DocumentHit(w) \/ DocumentMiss(w)
  PROVE  Contents'
<1>1. /\ WorkShape /\ CachesShape /\ UNCHANGED <<options, batch>>
      /\ work[w].pc = "document" /\ work[w].document <= LastDocument(w)
  BY DEF IInv, DocumentHit, DocumentMiss
<1>2. CacheTrue(options, caches[w]) /\ Place(options, batch, caches[w], work[w])
  BY DEF Contents
<1>3. PICK c : c = Prepared(caches[w], batch.vocab) /\ CacheTrue(options, c) /\ c.context = AddressOf[batch.vocab]
  BY <1>2, PreparedIsTrue
<1>4. caches' = [caches EXCEPT ![w] = c]
  BY <1>3 DEF DocumentHit, DocumentMiss
<1>5. caches'[w] = c /\ \A u \in Worker \ {w} : caches'[u] = caches[u]
  BY <1>1, <1>4, CacheChanged
<1>6. work[w].document \in 1..Len(batch.docs) /\ work[w].document \in Nat \ {0}
      /\ work[w].at = 0 /\ work[w].groups = <<>>
  BY <1>1, <1>2, LookedUp DEF Place
<1>7. CASE DocumentHit(w)
  <2>1. PICK ids : Delivered(w, ids)
    BY <1>7 DEF DocumentHit
  <2>2. /\ work'[w].pc = "document" /\ work'[w].document = work[w].document + 1
        /\ work'[w].at = 0 /\ work'[w].groups = <<>>
        /\ \A u \in Worker \ {w} : work'[u] = work[u]
    BY <1>1, <2>1, DeliveredShape
  <2>3. work'[w].document \in Nat \ {0}
    BY <1>6, <2>2
  <2>4. Place(options, batch, caches'[w], work'[w])
    BY <2>2, <2>3 DEF Place
  <2> QED BY <1>1, <1>3, <1>5, <2>2, <2>4, OneKeeps
<1>8. CASE DocumentMiss(w)
  <2>1. PICK pc : TurnsTo(w, pc) /\ pc = IF options.mode = "code" THEN "lines" ELSE "encode"
    BY <1>8 DEF DocumentMiss, TurnsTo
  <2>2. /\ work'[w].pc = pc /\ work'[w].document = work[w].document
        /\ work'[w].at = work[w].at /\ work'[w].groups = work[w].groups
        /\ \A u \in Worker \ {w} : work'[u] = work[u]
    BY <1>1, <2>1, Turned
  <2>3. ASSUME NEW doc, doc = batch.docs[work[w].document]
        PROVE  Len(doc) \in Nat /\ Ends(options.mode, doc) \in SUBSET (1..Len(doc))
    <3>1. batch \in Batches
      BY <1>1, BusyBatch DEF IInv
    <3>2. batch.docs \in Seq(Seq(Atom))
      BY <3>1, SurfaceBatchAssumption DEF Batch
    <3>3. IsDocument(doc)
      BY <1>6, <2>3, <3>2, ElementOfSeq DEF IsDocument
    <3> QED BY <3>3, EndsShape
  <2>4. PICK r, doc, ends :
          r = work'[w] /\ doc = batch.docs[r.document] /\ ends = Ends(options.mode, doc)
    OBVIOUS
  <2>5. r.pc = pc /\ r.document \in 1..Len(batch.docs) /\ r.at = 0 /\ r.groups = <<>>
    BY <1>6, <2>2, <2>4
  <2>6. Grouped(options, At(AddressOf[batch.vocab]), doc, ends, UpTo(ends, r.at), r.groups)
    <3>1. doc = batch.docs[work[w].document]
      BY <2>2, <2>4
    <3>2. PICK n \in Nat : n = Len(doc) /\ ends \in SUBSET (1..n)
      BY <2>3, <2>4, <3>1
    <3>3. UpTo(ends, 0) = {}
      BY <3>2, UpToBounds
    <3> QED BY <2>5, <3>3, NoGroups
  <2>7. caches'[w].context = AddressOf[batch.vocab]
    BY <1>3, <1>5
  <2>8. Place(options, batch, caches'[w], r)
    BY <2>1, <2>4, <2>5, <2>6, <2>7 DEF Place
  <2> QED BY <1>1, <1>3, <1>5, <2>2, <2>4, <2>8, OneKeeps
<1> QED BY <1>7, <1>8

\* The ids of a document are complete, however they came about.
Finished(w) ==
  \E ids :
    /\ IsAnswer(options, At(AddressOf[batch.vocab]), Key(w)[1], Key(w)[2], ids)
    /\ Delivered(w, ids)
    /\ caches' = [caches EXCEPT ![w].documents = Retain(@, DocumentCapacity, Key(w), ids)]

LEMMA KeyOf == \A w : Key(w)[1] = Doc(w) /\ Key(w)[2] = batch.newlines[work[w].document]
BY DEF Key, Doc

LEMMA GroupsFinish ==
  ASSUME NEW w, NEW groups, Finish(w, groups), NEW cuts \in Cuts(options.mode, Doc(w)),
         Grouped(options, At(AddressOf[batch.vocab]), Doc(w), cuts, cuts, groups)
  PROVE  Finished(w)
<1>1. PICK newline, ids :
        /\ newline = batch.newlines[work[w].document]
        /\ ids = [groups |-> groups, newline |-> newline]
        /\ Delivered(w, ids)
        /\ caches' = [caches EXCEPT ![w].documents = Retain(@, DocumentCapacity, Key(w), ids)]
  BY DEF Finish
<1>2. IsAnswer(options, At(AddressOf[batch.vocab]), Doc(w), newline, ids)
  BY <1>1, AllGroups
<1>3. Key(w)[1] = Doc(w) /\ Key(w)[2] = newline
  BY <1>1, KeyOf
<1>4. IsAnswer(options, At(AddressOf[batch.vocab]), Key(w)[1], Key(w)[2], ids)
  BY <1>2, <1>3
<1> QED BY <1>1, <1>4 DEF Finished

LEMMA FinishKeeps ==
  ASSUME IInv, Contents, NEW w \in Worker,
         work[w].pc \in {"lines", "encode"}, UNCHANGED <<options, batch>>, Finished(w)
  PROVE  Contents'
<1>1. PICK ids, key, cache :
        /\ key = Key(w) /\ cache = caches[w]
        /\ IsAnswer(options, At(AddressOf[batch.vocab]), key[1], key[2], ids)
        /\ Delivered(w, ids)
        /\ caches' = [caches EXCEPT ![w].documents = Retain(@, DocumentCapacity, key, ids)]
  BY DEF Finished
<1>2. /\ cache.context = AddressOf[batch.vocab] /\ IsCache(cache) /\ CacheTrue(options, cache)
  BY <1>1, InHand
<1>3. PICK c : c = [cache EXCEPT !.documents = Retain(@, DocumentCapacity, key, ids)]
  OBVIOUS
<1>4. CacheTrue(options, c)
  <2>1. PICK o : o = options
    OBVIOUS
  <2>2. IsAnswer(o, At(cache.context), key[1], key[2], ids)
    BY <1>1, <1>2, <2>1
  <2>3. CacheTrue(o, [cache EXCEPT !.documents = Retain(@, DocumentCapacity, key, ids)])
    BY <1>2, <2>1, <2>2, DocumentRetained
  <2> QED BY <1>3, <2>1, <2>3
<1>5. WorkShape /\ CachesShape
  BY DEF IInv
<1>6. caches' = [caches EXCEPT ![w] = c]
  BY <1>1, <1>3, <1>5 DEF CachesShape
<1>7. caches'[w] = c /\ \A u \in Worker \ {w} : caches'[u] = caches[u]
  BY <1>5, <1>6, CacheChanged
<1>8. /\ work'[w].pc = "document" /\ work'[w].document = work[w].document + 1
      /\ work'[w].at = 0 /\ work'[w].groups = <<>>
      /\ \A u \in Worker \ {w} : work'[u] = work[u]
  BY <1>1, <1>5, DeliveredShape
<1>9. work'[w].document \in Nat \ {0}
  <2>1. batch \in Batches /\ work[w].document \in 1..Len(batch.docs)
    BY InHand DEF Contents, Place
  <2> QED BY <1>8, <2>1
<1>10. Place(options, batch, caches'[w], work'[w])
  BY <1>8, <1>9 DEF Place
<1> QED BY <1>4, <1>7, <1>8, <1>10, OneKeeps

\* Each line is among the chunks, so each is one by itself.
LEMMA LinesFinish ==
  ASSUME IInv, Contents, NEW w \in Worker, LinesHit(w)
  PROVE  Finished(w)
<1>1. work[w].pc = "lines" /\ UNCHANGED <<options, batch>>
  BY DEF LinesHit
<1>2. PICK o, doc, programs, vocabs :
        /\ o = options /\ doc = Doc(w) /\ programs = caches[w].programs
        /\ vocabs = At(AddressOf[batch.vocab])
  OBVIOUS
<1>3. o.mode = "code"
  BY <1>1, <1>2 DEF Contents, Place
<1>4. ASSUME NEW atoms \in DOMAIN programs
      PROVE  Whole(atoms) /\ IsReading(o, vocabs, atoms, programs[atoms])
  BY <1>1, <1>2, InHand DEF CacheTrue
<1>5. \A e : Line(w, e) = Part(doc, Before(LineEnds(doc), e), e)
  BY <1>2 DEF Line
<1>6. LinesCached(w) /\ Finish(w, [e \in LineEnds(doc) |-> programs[Line(w, e)]])
  BY <1>2 DEF LinesHit
<1>7. \A e \in LineEnds(doc) : Line(w, e) \in DOMAIN programs
  BY <1>2, <1>6 DEF LinesCached
<1>8. PICK cuts, groups : cuts = LineEnds(doc) /\ groups = [e \in cuts |-> programs[Line(w, e)]]
  OBVIOUS
<1>9. cuts \in Cuts(o.mode, doc)
  <2>1. ASSUME NEW e \in LineEnds(doc), NEW line, line = Part(doc, Before(LineEnds(doc), e), e)
        PROVE  ChunkEnds(line) = {Len(line)}
    BY <1>4, <1>5, <1>7, <2>1 DEF Whole
  <2>2. LinesAlone(doc)
    BY <2>1 DEF LinesAlone
  <2> QED BY <1>3, <1>8, <2>2 DEF Cuts
<1>10. Grouped(o, vocabs, doc, cuts, cuts, groups)
  <2>1. groups = [e \in cuts |-> groups[e]]
    BY <1>8
  <2>2. ASSUME NEW e \in cuts
        PROVE  IsReading(o, vocabs, Part(doc, Before(cuts, e), e), groups[e])
    <3>1. PICK line : line = Line(w, e) /\ line \in DOMAIN programs
      BY <1>7, <1>8
    <3>2. groups[e] = programs[line] /\ Part(doc, Before(cuts, e), e) = line
      BY <1>5, <1>8, <3>1
    <3> QED BY <1>4, <3>1, <3>2
  <2> QED BY <2>1, <2>2 DEF Grouped
<1>11. Finish(w, groups)
  BY <1>6, <1>8
<1> QED BY <1>2, <1>9, <1>10, <1>11, GroupsFinish

LEMMA LinesKeep ==
  ASSUME IInv, Contents, NEW w \in Worker, LinesHit(w) \/ LinesMiss(w)
  PROVE  Contents'
<1>1. work[w].pc = "lines" /\ UNCHANGED <<options, batch>>
  BY DEF LinesHit, LinesMiss
<1>2. IsDocument(Doc(w)) /\ CacheTrue(options, caches[w])
  BY <1>1, InHand
<1>3. /\ options.mode = "code" /\ work[w].at = 0 /\ work[w].groups = <<>>
      /\ work[w].document \in 1..Len(batch.docs) /\ caches[w].context = AddressOf[batch.vocab]
  BY <1>1 DEF Contents, Place
<1>4. PICK doc, programs : doc = Doc(w) /\ programs = caches[w].programs
  OBVIOUS
<1>5. CASE LinesHit(w)
  BY <1>1, <1>5, LinesFinish, FinishKeeps
<1>6. CASE LinesMiss(w)
  <2>1. TurnsTo(w, "encode") /\ caches' = caches
    BY <1>6 DEF LinesMiss, TurnsTo
  <2>2. WorkShape
    BY DEF IInv
  <2>3. /\ work'[w].pc = "encode" /\ work'[w].document = work[w].document
        /\ work'[w].at = work[w].at /\ work'[w].groups = work[w].groups
        /\ \A u \in Worker \ {w} : work'[u] = work[u]
    BY <2>1, <2>2, Turned
  <2>4. PICK r, ends : r = work'[w] /\ ends = Ends(options.mode, doc)
    OBVIOUS
  <2>5. r.pc = "encode" /\ r.document \in 1..Len(batch.docs) /\ r.at = 0 /\ r.groups = <<>>
        /\ doc = batch.docs[r.document]
    BY <1>3, <1>4, <2>3, <2>4 DEF Doc
  <2>6. Grouped(options, At(AddressOf[batch.vocab]), doc, ends, UpTo(ends, r.at), r.groups)
    <3>1. PICK n \in Nat : n = Len(doc) /\ ends \in SUBSET (1..n)
      BY <1>2, <1>4, <2>4, EndsShape
    <3>2. UpTo(ends, 0) = {}
      BY <3>1, UpToBounds
    <3> QED BY <2>5, <3>2, NoGroups
  <2>7. caches'[w].context = AddressOf[batch.vocab] /\ CacheTrue(options, caches'[w])
    BY <1>2, <1>3, <2>1
  <2>8. Place(options, batch, caches'[w], r)
    BY <2>4, <2>5, <2>6, <2>7 DEF Place
  <2> QED BY <1>1, <2>1, <2>3, <2>4, <2>7, <2>8, OneKeeps
<1> QED BY <1>5, <1>6

\* The next range of a document, encoded or found among the programs.
LEMMA EncodeKeeps ==
  ASSUME IInv, Contents, NEW w \in Worker, ChunkHit(w) \/ EncodeUnits(w)
  PROVE  Contents'
<1>1. /\ work[w].pc = "encode" /\ work[w].at < Len(Doc(w)) /\ UNCHANGED <<options, batch>>
      /\ WorkShape /\ CachesShape
  BY DEF ChunkHit, EncodeUnits, IInv
<1>2. PICK o, v, vocabs, doc, at, m, ends, cache :
        /\ o = options /\ v = batch.vocab /\ vocabs = At(AddressOf[v])
        /\ doc = Doc(w) /\ at = work[w].at /\ m = NextEnd(w)
        /\ ends = Ends(o.mode, doc) /\ cache = caches[w]
  OBVIOUS
<1>3. /\ v \in vocabs /\ cache.context = AddressOf[v] /\ IsCache(cache) /\ CacheTrue(o, cache)
      /\ IsDocument(doc) /\ DocumentEnds[options][Doc(w)] = ends
  BY <1>1, <1>2, InHand
<1>4. /\ work[w].document \in 1..Len(batch.docs) /\ doc = batch.docs[work[w].document]
      /\ at \in {0} \cup ends /\ Grouped(o, vocabs, doc, ends, UpTo(ends, at), work[w].groups)
  BY <1>1, <1>2 DEF Contents, Place, Doc
<1>5. ends \in SUBSET (Nat \ {0}) /\ Len(doc) \in Nat /\ (Len(doc) # 0 => Len(doc) \in ends)
  BY <1>2, <1>3, EndsShape
<1>6. /\ m \in ends /\ at < m /\ Before(ends, m) = at
      /\ UpTo(ends, m) = UpTo(ends, at) \cup {m}
  <2>1. at \in Nat /\ at < Len(doc)
    BY <1>1, <1>2, <1>4, <1>5
  <2>2. PICK n \in ends : n = Len(doc)
    BY <1>5, <2>1
  <2>3. Follows(ends, at, m)
    BY <1>2, <1>3 DEF NextEnd, Follows
  <2> QED BY <1>4, <1>5, <2>1, <2>2, <2>3, EndBehind
<1>7. PICK atoms : atoms = NextAtoms(w) /\ atoms = Part(doc, at, m)
  BY <1>2 DEF NextAtoms
<1>8. RangeIds(o, v, doc, at, m) \in Readings(o, v, atoms) /\ (o.mode = "code" => Whole(atoms))
  BY <1>2, <1>3, <1>6, <1>7, ChunkReading
<1>9. ASSUME NEW ids, Appended(w, ids), IsReading(o, vocabs, atoms, ids),
             caches'[w].context = AddressOf[v]
      PROVE  /\ Place(options, batch, caches'[w], work'[w])
             /\ \A u \in Worker \ {w} : work'[u] = work[u]
  <2>1. /\ work'[w].pc = "encode" /\ work'[w].document = work[w].document /\ work'[w].at = m
        /\ work'[w].groups = Extended(work[w].groups, m, ids)
        /\ \A u \in Worker \ {w} : work'[u] = work[u]
    BY <1>1, <1>2, <1>9, AppendedShape
  <2>2. Grouped(o, vocabs, doc, ends, UpTo(ends, at) \cup {m}, work'[w].groups)
    <3>1. PICK before, groups : before = UpTo(ends, at) /\ groups = work[w].groups
      OBVIOUS
    <3>2. IsReading(o, vocabs, Part(doc, Before(ends, m), m), ids)
      BY <1>6, <1>7, <1>9
    <3>3. Grouped(o, vocabs, doc, ends, before, groups)
      BY <1>4, <3>1
    <3>4. Grouped(o, vocabs, doc, ends, before \cup {m}, Extended(groups, m, ids))
      BY <3>2, <3>3, NextGroup
    <3> QED BY <2>1, <3>1, <3>4
  <2>3. Grouped(o, vocabs, doc, ends, UpTo(ends, m), work'[w].groups)
    BY <1>6, <2>2
  <2>4. PICK r : r = work'[w]
    OBVIOUS
  <2>5. /\ r.pc = "encode" /\ r.document \in 1..Len(batch.docs) /\ doc = batch.docs[r.document]
        /\ r.at = m /\ Grouped(o, vocabs, doc, ends, UpTo(ends, r.at), r.groups)
    BY <1>4, <2>1, <2>3, <2>4
  <2>6. Place(o, batch, caches'[w], r)
    BY <1>2, <1>6, <1>9, <2>5 DEF Place
  <2> QED BY <1>2, <2>1, <2>4, <2>6
<1>10. CASE ChunkHit(w)
  <2>1. PICK ids : ids = cache.programs[atoms] /\ Appended(w, ids)
    BY <1>2, <1>7, <1>10 DEF ChunkHit
  <2>2. o.mode = "code" /\ atoms \in DOMAIN cache.programs /\ caches' = caches
    BY <1>2, <1>7, <1>10 DEF ChunkHit
  <2>3. IsReading(o, vocabs, atoms, ids)
    BY <1>2, <1>3, <2>1, <2>2 DEF CacheTrue
  <2>4. caches'[w].context = AddressOf[v] /\ CacheTrue(options, caches'[w])
    BY <1>2, <1>3, <2>2
  <2>5. /\ Place(options, batch, caches'[w], work'[w])
        /\ \A u \in Worker \ {w} : work'[u] = work[u] /\ caches'[u] = caches[u]
    BY <1>9, <2>1, <2>2, <2>3, <2>4
  <2> QED BY <1>1, <2>4, <2>5, OneKeeps
<1>11. CASE EncodeUnits(w)
  <2>1. PICK ids :
          /\ ids = EncodeRange(options, batch.vocab, NextUnits(w)) /\ Appended(w, ids)
          /\ caches' = IF options.mode = "code"
               THEN [caches EXCEPT ![w].programs = Retain(@, ProgramCapacity, NextAtoms(w), ids)]
               ELSE caches
    BY <1>11 DEF EncodeUnits
  <2>2. ids = RangeIds(o, v, doc, at, m)
    BY <1>2, <2>1 DEF RangeIds, NextUnits
  <2>3. IsReading(o, vocabs, atoms, ids)
    BY <1>3, <1>8, <2>2 DEF IsReading
  <2>4. /\ caches'[w].context = AddressOf[v] /\ CacheTrue(options, caches'[w])
        /\ \A u \in Worker \ {w} : caches'[u] = caches[u]
    <3>1. CASE o.mode # "code"
      BY <1>2, <1>3, <2>1, <3>1
    <3>2. CASE o.mode = "code"
      <4>1. PICK c : c = [cache EXCEPT !.programs = Retain(@, ProgramCapacity, atoms, ids)]
        OBVIOUS
      <4>2. CacheTrue(o, c)
        <5>1. IsReading(o, At(cache.context), atoms, ids) /\ Whole(atoms)
          BY <1>2, <1>3, <1>8, <2>3, <3>2
        <5>2. CacheTrue(o, [cache EXCEPT !.programs = Retain(@, ProgramCapacity, atoms, ids)])
          BY <1>3, <3>2, <5>1, ProgramRetained
        <5> QED BY <4>1, <5>2
      <4>3. c.context = cache.context
        BY <1>3, <4>1 DEF IsCache
      <4>4. caches' = [caches EXCEPT ![w] = c]
        BY <1>1, <1>2, <1>7, <2>1, <3>2, <4>1 DEF CachesShape
      <4>5. caches'[w] = c /\ \A u \in Worker \ {w} : caches'[u] = caches[u]
        BY <1>1, <4>4, CacheChanged
      <4> QED BY <1>2, <1>3, <4>2, <4>3, <4>5
    <3> QED BY <3>1, <3>2
  <2>5. /\ Place(options, batch, caches'[w], work'[w])
        /\ \A u \in Worker \ {w} : work'[u] = work[u]
    BY <1>9, <2>1, <2>3, <2>4
  <2> QED BY <1>1, <2>4, <2>5, OneKeeps
<1> QED BY <1>10, <1>11

LEMMA DocumentFinish ==
  ASSUME IInv, Contents, NEW w \in Worker, FinishDocument(w)
  PROVE  Finished(w)
<1>1. /\ work[w].pc = "encode" /\ work[w].at = Len(Doc(w)) /\ UNCHANGED <<options, batch>>
      /\ Finish(w, work[w].groups)
  BY DEF FinishDocument
<1>2. PICK o, vocabs, doc, ends, groups :
        /\ o = options /\ vocabs = At(AddressOf[batch.vocab]) /\ doc = Doc(w)
        /\ groups = work[w].groups /\ ends = Ends(o.mode, doc)
  OBVIOUS
<1>3. IsDocument(doc)
  BY <1>1, <1>2, InHand
<1>4. Grouped(o, vocabs, doc, ends, UpTo(ends, Len(doc)), groups)
  BY <1>1, <1>2 DEF Contents, Place, Doc
<1>5. UpTo(ends, Len(doc)) = ends
  <2>1. PICK n \in Nat : n = Len(doc) /\ ends \in SUBSET (1..n)
    BY <1>2, <1>3, EndsShape
  <2> QED BY <2>1, UpToBounds
<1>6. ends \in Cuts(o.mode, doc)
  BY <1>2 DEF Cuts
<1> QED BY <1>1, <1>2, <1>4, <1>5, <1>6, GroupsFinish

LEMMA FinishDocumentKeeps ==
  ASSUME IInv, Contents, NEW w \in Worker, FinishDocument(w)
  PROVE  Contents'
<1>1. work[w].pc = "encode" /\ UNCHANGED <<options, batch>>
  BY DEF FinishDocument
<1> QED BY <1>1, DocumentFinish, FinishKeeps

\* A worker moves that is not at a document.
LEMMA MovesKeep ==
  ASSUME IInv, Contents, NEW w \in Worker,
         Claim(w) \/ NoChunkLeft(w) \/ ChunkDone(w) \/ EncodeFails(w)
  PROVE  Contents'
<1>1. UNCHANGED <<options, batch, caches>> /\ WorkShape
  BY DEF Claim, NoChunkLeft, ChunkDone, EncodeFails, IInv
<1>2. CacheTrue(options, caches'[w]) /\ Place(options, batch, caches[w], work[w])
  BY <1>1 DEF Contents
<1>3. \A u \in Worker \ {w} : work'[u] = work[u] /\ caches'[u] = caches[u]
  BY <1>1 DEF Claim, NoChunkLeft, ChunkDone, EncodeFails, WorkShape
<1>4. PICK r : r = work'[w]
  OBVIOUS
<1>5. CASE Claim(w)
  <2>1. work[w].at = 0 /\ work[w].groups = <<>>
    BY <1>2, <1>5 DEF Claim, Place
  <2>2. /\ r.pc = "document" /\ r.at = work[w].at /\ r.groups = work[w].groups
        /\ r.document = BatchChunks[batch][next][1]
    BY <1>1, <1>4, <1>5 DEF Claim, WorkShape, IsWork
  <2>3. batch \in Batches /\ next \in Nat \ {0} /\ next <= Len(BatchChunks[batch])
    BY <1>5, BusyBatch DEF IInv, TypeOK, Claim
  <2>4. Len(BatchChunks[batch]) \in Nat
    BY <2>3, ChunksInBatch
  <2>5. next \in 1..Len(BatchChunks[batch])
    BY <2>3, <2>4
  <2>6. r.document \in Nat \ {0}
    BY <2>2, <2>3, <2>5, ChunksInBatch
  <2>7. Place(options, batch, caches'[w], r)
    BY <2>1, <2>2, <2>6 DEF Place
  <2> QED BY <1>1, <1>2, <1>3, <1>4, <2>7, OneKeeps
<1>6. CASE NoChunkLeft(w)
  <2>1. work[w].at = 0 /\ work[w].groups = <<>>
    BY <1>2, <1>6 DEF NoChunkLeft, Place
  <2>2. r.pc = "ended" /\ r.at = work[w].at /\ r.groups = work[w].groups
    BY <1>1, <1>4, <1>6 DEF NoChunkLeft, WorkShape, IsWork
  <2>3. Place(options, batch, caches'[w], r)
    BY <2>1, <2>2 DEF Place
  <2> QED BY <1>1, <1>2, <1>3, <1>4, <2>3, OneKeeps
<1>7. CASE ChunkDone(w)
  <2>1. work[w].at = 0 /\ work[w].groups = <<>>
    BY <1>2, <1>7 DEF ChunkDone, Place
  <2>2. r.pc = "claim" /\ r.at = work[w].at /\ r.groups = work[w].groups
    BY <1>1, <1>4, <1>7 DEF ChunkDone, WorkShape, IsWork
  <2>3. Place(options, batch, caches'[w], r)
    BY <2>1, <2>2 DEF Place
  <2> QED BY <1>1, <1>2, <1>3, <1>4, <2>3, OneKeeps
<1>8. CASE EncodeFails(w)
  <2>1. r = [Off EXCEPT !.pc = "failed"]
    BY <1>1, <1>4, <1>8 DEF EncodeFails, WorkShape
  <2>2. r.pc = "failed" /\ r.at = 0 /\ r.groups = <<>>
    BY <2>1 DEF Off
  <2>3. Place(options, batch, caches'[w], r)
    BY <2>2 DEF Place
  <2> QED BY <1>1, <1>2, <1>3, <1>4, <2>3, OneKeeps
<1> QED BY <1>5, <1>6, <1>7, <1>8

\* A worker that is off, or about to claim its first chunk, is nowhere.
LEMMA Nowhere ==
  ASSUME NEW o, NEW b, NEW cache, NEW r, r = Off \/ r = [Off EXCEPT !.pc = "claim"]
  PROVE  Place(o, b, cache, r)
<1>1. r.pc \in {"off", "claim"} /\ r.at = 0 /\ r.groups = <<>>
  BY DEF Off
<1> QED BY <1>1 DEF Place

LEMMA NoCacheIsTrue == ASSUME NEW o PROVE CacheTrue(o, NoCache)
<1>1. PICK c : c = NoCache
  OBVIOUS
<1>2. c.programs = <<>> /\ c.documents = <<>>
  BY <1>1 DEF NoCache
<1> QED BY <1>1, <1>2, EmptyIsTrue

LEMMA InitContents == Init => Contents
<1> SUFFICES ASSUME Init, NEW w \in Worker
             PROVE  CacheTrue(options, caches[w]) /\ Place(options, batch, caches[w], work[w])
  BY DEF Contents
<1>1. caches[w] = NoCache /\ work[w] = Off
  BY DEF Init
<1> QED BY <1>1, NoCacheIsTrue, Nowhere

LEMMA CallersKeep ==
  ASSUME IInv, Contents,
         \/ \E b \in Batches : Begin(b) \/ RefuseLengths(b) \/ EncodeNothing(b)
         \/ Clear
         \/ Join
  PROVE  Contents'
<1> SUFFICES ASSUME NEW w \in Worker
             PROVE  CacheTrue(options', caches'[w]) /\ Place(options', batch', caches'[w], work'[w])
  BY DEF Contents
<1>1. options' = options /\ CacheTrue(options, caches[w])
  BY DEF Contents, Begin, RefuseLengths, EncodeNothing, Clear, Join
<1>2. CASE \E b \in Batches : Begin(b)
  <2>1. work'[w] \in {Off, [Off EXCEPT !.pc = "claim"]} /\ caches' = caches
    BY <1>2 DEF Begin
  <2> QED BY <1>1, <2>1, Nowhere
<1>3. CASE \E b \in Batches : RefuseLengths(b) \/ EncodeNothing(b)
  <2>1. work' = work /\ batch = Idle /\ caches' = caches
    BY <1>3 DEF RefuseLengths, EncodeNothing
  <2>2. work'[w] = Off
    BY <2>1 DEF IInv, TypeOK
  <2> QED BY <1>1, <2>1, <2>2, Nowhere
<1>4. CASE Clear
  <2>1. work' = work /\ batch = Idle /\ caches'[w] = NoCache
    BY <1>4 DEF Clear
  <2>2. work'[w] = Off
    BY <2>1 DEF IInv, TypeOK
  <2> QED BY <1>1, <2>1, <2>2, NoCacheIsTrue, Nowhere
<1>5. CASE Join
  <2>1. work'[w] = Off /\ caches' = caches
    BY <1>5 DEF Join
  <2> QED BY <1>1, <2>1, Nowhere
<1> QED BY <1>2, <1>3, <1>4, <1>5

LEMMA StepContents == IInv /\ Contents /\ [Next]_vars => Contents'
<1> SUFFICES ASSUME IInv, Contents, [Next]_vars PROVE Contents'
  OBVIOUS
<1>1. CASE UNCHANGED vars
  BY <1>1 DEF vars, Contents
<1>2. ASSUME NEW w \in Worker, Step(w) PROVE Contents'
  <2>1. CASE Claim(w) \/ NoChunkLeft(w) \/ ChunkDone(w) \/ EncodeFails(w)
    BY <2>1, MovesKeep
  <2>2. CASE DocumentHit(w) \/ DocumentMiss(w)
    BY <2>2, LookUpKeeps
  <2>3. CASE LinesHit(w) \/ LinesMiss(w)
    BY <2>3, LinesKeep
  <2>4. CASE ChunkHit(w) \/ EncodeUnits(w)
    BY <2>4, EncodeKeeps
  <2>5. CASE FinishDocument(w)
    BY <2>5, FinishDocumentKeeps
  <2> QED BY <1>2, <2>1, <2>2, <2>3, <2>4, <2>5 DEF Step
<1>3. CASE \/ \E b \in Batches : Begin(b) \/ RefuseLengths(b) \/ EncodeNothing(b)
           \/ Clear
           \/ Join
  BY <1>3, CallersKeep
<1> QED BY <1>1, <1>2, <1>3 DEF Next

\* Whatever the workers left in their caches, from whichever batches and
\* vocabularies, is what encoding anew with a vocabulary at the cache's address
\* returns: a program kept by CachedCodeStream::flush or
\* append_flat_surface_document, found again as a chunk, as a raw line or as a
\* whole document (lib.rs, flat_surface.rs).
THEOREM ProgramsAreCurrent == Spec => []ProgramsCurrent
<1>1. Contents => ProgramsCurrent
  BY DEF Contents, CacheTrue, ProgramsCurrent
<1>2. IInv /\ Contents /\ [Next]_vars => Contents'
  BY StepContents
<1> QED BY <1>1, <1>2, InitContents, Invariant, PTL DEF Spec

-----------------------------------------------------------------------------
(***************************************************************************)
(* What workers deliver.                                                   *)
(***************************************************************************)

Answered(o, b, i, ids) == IsAnswer(o, At(AddressOf[b.vocab]), b.docs[i], b.newlines[i], ids)

\* A list of answers for the documents from s on and before e.
Answers(o, b, s, e, f) ==
  /\ IsList(f) /\ Len(f) = e - s
  /\ \A i \in 1..(e - s) : Answered(o, b, s + i - 1, f[i])

\* None of these documents is rejected.
Clean(b, s, e) == \A i \in s..(e - 1) : ~Rejected(b.docs[i])

First(b, k) == BatchChunks[b][k][1]
Beyond(b, k) == BatchChunks[b][k][2] + 1

\* A chunk that was encoded.
Encoded(o, b, c) ==
  /\ c.chunk \in 1..Len(BatchChunks[b])
  /\ Answers(o, b, First(b, c.chunk), Beyond(b, c.chunk), c.output)
  /\ Clean(b, First(b, c.chunk), Beyond(b, c.chunk))

\* A worker that is encoding one.
OnChunk(o, b, r) ==
  /\ r.chunk \in 1..Len(BatchChunks[b])
  /\ r.document \in First(b, r.chunk)..Beyond(b, r.chunk)
  /\ r.pc # "document" => r.document < Beyond(b, r.chunk)
  /\ Answers(o, b, First(b, r.chunk), r.document, r.output)
  /\ Clean(b, First(b, r.chunk), r.document)

\* The chunk a worker is on, and each it has completed, is another one.
Distinct(r) ==
  /\ \A i, j \in DOMAIN r.completed : r.completed[i].chunk = r.completed[j].chunk => i = j
  /\ r.pc \in {"document", "lines", "encode"} =>
       \A i \in DOMAIN r.completed : r.completed[i].chunk # r.chunk

CleanTo(doc, at) == \A i \in 1..at : doc[i] # "bad"

Delivers(o, b, n, r) ==
  /\ \A i \in DOMAIN r.completed : Encoded(o, b, r.completed[i])
  /\ Distinct(r)
  /\ r.pc \in {"document", "lines", "encode"} => OnChunk(o, b, r)
  /\ r.pc = "encode" => CleanTo(b.docs[r.document], r.at)
  /\ r.pc = "ended" => n > Len(BatchChunks[b])
  /\ r.pc = "failed" => \E i \in DOMAIN b.docs : Rejected(b.docs[i])

KeysClean(cache) ==
  /\ \A atoms \in DOMAIN cache.programs : ~Rejected(atoms)
  /\ \A key \in DOMAIN cache.documents : ~Rejected(key[1])

InProgress(o, b, n) ==
  /\ b.docs # <<>> /\ Len(b.docs) = Len(b.newlines)
  /\ work[1].pc # "off"
  /\ \A w \in Worker : Delivers(o, b, n, work[w])

Deliveries ==
  /\ \A w \in Worker : KeysClean(caches[w])
  /\ batch # Idle => InProgress(options, batch, next)

\* Where the chunks of a batch begin and end.
LEMMA ChunkPlaces ==
  ASSUME NEW b \in Batches, NEW k \in 1..Len(BatchChunks[b])
  PROVE  /\ First(b, k) \in Nat \ {0} /\ Beyond(b, k) \in Nat /\ First(b, k) < Beyond(b, k)
         /\ Beyond(b, k) <= Len(b.docs) + 1 /\ Len(b.docs) \in Nat
<1>1. b.docs # <<>>
  <2> SUFFICES ASSUME b.docs = <<>> PROVE FALSE
    OBVIOUS
  <2>1. BatchChunks[b] = <<>>
    BY DEF BatchChunks
  <2> QED BY <2>1
<1>2. PICK n, chunks : n = Len(b.docs) /\ chunks = BatchChunks[b]
  OBVIOUS
<1>3. n \in Nat \ {0} /\ chunks \in RangesOf(n) /\ Tiles(chunks, n + 1) /\ k \in 1..Len(chunks)
  BY <1>1, <1>2, BatchTiles
<1>4. chunks[k] \in (1..n) \X (1..n)
  BY <1>3, ElementOfSeq DEF RangesOf
<1>5. chunks[k][1] \in 1..n /\ chunks[k][2] \in 1..n /\ chunks[k][1] <= chunks[k][2]
  BY <1>3, <1>4 DEF Tiles
<1>6. First(b, k) = chunks[k][1] /\ Beyond(b, k) = chunks[k][2] + 1
  BY <1>2 DEF First, Beyond
<1> QED BY <1>2, <1>3, <1>5, <1>6, SMTT(30)

LEMMA NoAnswers ==
  ASSUME NEW o, NEW b, NEW s \in Nat
  PROVE  Answers(o, b, s, s, <<>>) /\ Clean(b, s, s)
<1>1. 1..(s - s) = {} /\ s..(s - 1) = {} /\ s - s = 0
  OBVIOUS
<1>2. PICK none : none = <<>> /\ IsList(none) /\ Len(none) = 0
  BY EmptyList
<1>3. Answers(o, b, s, s, none)
  BY <1>1, <1>2 DEF Answers
<1> QED BY <1>1, <1>2, <1>3 DEF Clean

\* One more document.
LEMMA MoreAnswers ==
  ASSUME NEW o, NEW b, NEW s \in Nat, NEW d \in Nat, s <= d,
         NEW f, Answers(o, b, s, d, f), NEW ids, Answered(o, b, d, ids)
  PROVE  /\ Answers(o, b, s, d + 1, Append(f, ids))
         /\ Clean(b, s, d) /\ ~Rejected(b.docs[d]) => Clean(b, s, d + 1)
<1>1. PICK n \in Nat : n = d - s
  OBVIOUS
<1>2. IsList(f) /\ Len(f) = n /\ \A i \in 1..n : Answered(o, b, s + i - 1, f[i])
  BY <1>1 DEF Answers
<1>3. /\ IsList(Append(f, ids)) /\ DOMAIN Append(f, ids) = 1..(n + 1)
      /\ \A i \in 1..n : Append(f, ids)[i] = f[i]
      /\ Append(f, ids)[n + 1] = ids
  BY <1>2, LongerList
<1>4. PICK t : t = Append(f, ids)
  OBVIOUS
<1>5. IsList(t) /\ Len(t) = n + 1
  <2>1. PICK S : t \in Seq(S)
    BY <1>3, <1>4 DEF IsList
  <2>2. DOMAIN t = 1..Len(t) /\ Len(t) \in Nat /\ DOMAIN t = 1..(n + 1)
    BY <1>3, <1>4, <2>1
  <2>3. PICK l \in Nat : l = Len(t) /\ 1..l = 1..(n + 1)
    BY <2>2
  <2>4. n + 1 \in 1..l /\ (l # 0 => l \in 1..(n + 1))
    BY <2>3
  <2> QED BY <1>3, <1>4, <2>3, <2>4
<1>6. \A i \in 1..(n + 1) : Answered(o, b, s + i - 1, t[i])
  <2>1. \A i \in 1..n : Answered(o, b, s + i - 1, t[i])
    BY <1>2, <1>3, <1>4
  <2>2. s + (n + 1) - 1 = d
    BY <1>1
  <2>3. Answered(o, b, s + (n + 1) - 1, t[n + 1])
    BY <1>3, <1>4, <2>2
  <2>4. \A i \in 1..(n + 1) : i \in 1..n \/ i = n + 1
    OBVIOUS
  <2> QED BY <2>1, <2>3, <2>4
<1>7. (d + 1) - s = n + 1
  BY <1>1
<1>8. Answers(o, b, s, d + 1, t)
  BY <1>5, <1>6, <1>7 DEF Answers
<1>9. ASSUME Clean(b, s, d), ~Rejected(b.docs[d]) PROVE Clean(b, s, d + 1)
  <2>1. \A i \in s..d : i \in s..(d - 1) \/ i = d
    OBVIOUS
  <2>2. (d + 1) - 1 = d
    OBVIOUS
  <2> QED BY <1>9, <2>1, <2>2 DEF Clean
<1> QED BY <1>4, <1>8, <1>9

-----------------------------------------------------------------------------

\* A worker within a document stays on its chunk.
LEMMA WithinDocument ==
  ASSUME NEW o, NEW b, NEW n, NEW r, Delivers(o, b, n, r),
         r.pc \in {"document", "lines", "encode"}, r.document < Beyond(b, r.chunk),
         NEW s, s.chunk = r.chunk, s.document = r.document, s.output = r.output,
         s.completed = r.completed, s.pc \in {"lines", "encode"},
         s.pc = "encode" => CleanTo(b.docs[s.document], s.at)
  PROVE  Delivers(o, b, n, s)
<1>1. OnChunk(o, b, r) /\ \A i \in DOMAIN r.completed : Encoded(o, b, r.completed[i])
  BY DEF Delivers
<1>2. OnChunk(o, b, s)
  BY <1>1 DEF OnChunk
<1>3. \A i \in DOMAIN s.completed : Encoded(o, b, s.completed[i])
  BY <1>1
<1>4. Distinct(s)
  BY DEF Delivers, Distinct
<1> QED BY <1>2, <1>3, <1>4 DEF Delivers

\* One that delivers its document goes on to the next.
LEMMA DocumentDelivered ==
  ASSUME NEW o, NEW b \in Batches, NEW n, NEW r, Delivers(o, b, n, r),
         r.pc \in {"document", "lines", "encode"}, r.document < Beyond(b, r.chunk),
         NEW ids, Answered(o, b, r.document, ids), ~Rejected(b.docs[r.document]),
         NEW s, s.chunk = r.chunk, s.document = r.document + 1, s.output = Append(r.output, ids),
         s.completed = r.completed, s.pc = "document"
  PROVE  Delivers(o, b, n, s)
<1>1. OnChunk(o, b, r) /\ \A i \in DOMAIN r.completed : Encoded(o, b, r.completed[i])
  BY DEF Delivers
<1>2. PICK k, f, e, d : k = r.chunk /\ f = First(b, k) /\ e = Beyond(b, k) /\ d = r.document
  OBVIOUS
<1>3. k \in 1..Len(BatchChunks[b]) /\ d \in f..e /\ Answers(o, b, f, d, r.output) /\ Clean(b, f, d)
  BY <1>1, <1>2 DEF OnChunk
<1>4. f \in Nat /\ e \in Nat
  BY <1>2, <1>3, ChunkPlaces
<1>5. d \in Nat /\ f <= d /\ d < e
  BY <1>2, <1>3, <1>4
<1>6. Answers(o, b, f, d + 1, Append(r.output, ids)) /\ Clean(b, f, d + 1)
  BY <1>2, <1>3, <1>4, <1>5, MoreAnswers
<1>7. s.document = d + 1 /\ d + 1 \in f..e
  BY <1>2, <1>4, <1>5
<1>8. OnChunk(o, b, s)
  BY <1>2, <1>3, <1>6, <1>7 DEF OnChunk
<1>9. \A i \in DOMAIN s.completed : Encoded(o, b, s.completed[i])
  BY <1>1
<1>10. Distinct(s)
  BY DEF Delivers, Distinct
<1> QED BY <1>8, <1>9, <1>10 DEF Delivers

\* A worker that claims a chunk has yet to deliver its documents.
LEMMA ChunkClaimed ==
  ASSUME NEW o, NEW b \in Batches, NEW n, NEW r, Delivers(o, b, n, r),
         NEW k \in 1..Len(BatchChunks[b]), \A i \in DOMAIN r.completed : r.completed[i].chunk # k,
         NEW m,
         NEW s, s.chunk = k, s.document = First(b, k), s.output = <<>>,
         s.completed = r.completed, s.pc = "document"
  PROVE  Delivers(o, b, m, s)
<1>1. \A i \in DOMAIN s.completed : Encoded(o, b, s.completed[i])
  BY DEF Delivers
<1>2. PICK f, e : f = First(b, k) /\ e = Beyond(b, k)
  OBVIOUS
<1>3. f \in Nat /\ e \in Nat /\ f < e
  BY <1>2, ChunkPlaces
<1>4. f \in f..e /\ Answers(o, b, f, f, <<>>) /\ Clean(b, f, f)
  BY <1>3, NoAnswers
<1>5. OnChunk(o, b, s)
  BY <1>2, <1>4 DEF OnChunk
<1>6. Distinct(s)
  BY DEF Delivers, Distinct
<1> QED BY <1>1, <1>5, <1>6 DEF Delivers

\* One that is behind the last document has encoded the chunk.
LEMMA ChunkCompleted ==
  ASSUME NEW o, NEW b \in Batches, NEW n, NEW r, Delivers(o, b, n, r), IsList(r.completed),
         r.pc = "document", ~(r.document < Beyond(b, r.chunk)),
         NEW c, c = [chunk |-> r.chunk, output |-> r.output],
         NEW s, s.completed = Append(r.completed, c), s.pc = "claim"
  PROVE  Delivers(o, b, n, s)
<1>1. OnChunk(o, b, r) /\ \A i \in DOMAIN r.completed : Encoded(o, b, r.completed[i])
  BY DEF Delivers
<1>2. PICK k, f, e, d : k = r.chunk /\ f = First(b, k) /\ e = Beyond(b, k) /\ d = r.document
  OBVIOUS
<1>3. k \in 1..Len(BatchChunks[b]) /\ d \in f..e /\ Answers(o, b, f, d, r.output) /\ Clean(b, f, d)
  BY <1>1, <1>2 DEF OnChunk
<1>4. f \in Nat /\ e \in Nat
  BY <1>2, <1>3, ChunkPlaces
<1>5. d = e
  BY <1>2, <1>3, <1>4
<1>6. c.chunk = k /\ c.output = r.output /\ Answers(o, b, f, e, c.output) /\ Clean(b, f, e)
  BY <1>2, <1>3, <1>5
<1>7. Encoded(o, b, c)
  BY <1>2, <1>3, <1>6 DEF Encoded
<1>8. PICK old : old = r.completed
  OBVIOUS
<1>9. /\ Len(old) \in Nat /\ DOMAIN old = 1..Len(old)
      /\ DOMAIN Append(old, c) = 1..(Len(old) + 1)
      /\ \A i \in 1..Len(old) : Append(old, c)[i] = old[i]
      /\ Append(old, c)[Len(old) + 1] = c
  BY <1>8, LongerList
<1>10. PICK t : t = Append(old, c)
  OBVIOUS
<1>11. \A i \in DOMAIN t : Encoded(o, b, t[i])
  <2> SUFFICES ASSUME NEW i \in DOMAIN t PROVE Encoded(o, b, t[i])
    OBVIOUS
  <2>1. i \in 1..Len(old) \/ i = Len(old) + 1
    BY <1>9, <1>10
  <2>2. CASE i \in 1..Len(old)
    <3>1. t[i] = old[i] /\ i \in DOMAIN old
      BY <1>9, <1>10, <2>2
    <3> QED BY <1>1, <1>8, <3>1
  <2>3. CASE i = Len(old) + 1
    BY <1>7, <1>9, <1>10, <2>3
  <2> QED BY <2>1, <2>2, <2>3
<1>12. Distinct(s)
  <2>1. /\ \A i, j \in DOMAIN old : old[i].chunk = old[j].chunk => i = j
        /\ \A i \in DOMAIN old : old[i].chunk # k
    BY <1>2, <1>8 DEF Delivers, Distinct
  <2>2. ASSUME NEW i \in DOMAIN t, NEW j \in DOMAIN t, t[i].chunk = t[j].chunk
        PROVE  i = j
    <3>1. PICK l \in Nat : l = Len(old) /\ DOMAIN old = 1..l /\ DOMAIN t = 1..(l + 1)
      BY <1>9, <1>10
    <3>2. t[l + 1].chunk = k /\ \A x \in DOMAIN old : t[x] = old[x]
      BY <1>6, <1>9, <1>10, <3>1
    <3>3. i \in DOMAIN old \/ i = l + 1
      BY <3>1
    <3>4. j \in DOMAIN old \/ j = l + 1
      BY <3>1
    <3> QED BY <2>1, <2>2, <3>2, <3>3, <3>4
  <2> QED BY <1>8, <1>10, <2>2 DEF Distinct
<1> QED BY <1>8, <1>10, <1>11, <1>12 DEF Delivers

\* Only the worker that steps delivers; the counter of chunks does not go back.
LEMMA OneDelivers ==
  ASSUME Deliveries, NEW w \in Worker, batch # Idle, UNCHANGED <<options, batch>>,
         next \in Nat, next' \in {next, next + 1}, Len(BatchChunks[batch]) \in Nat,
         \A u \in Worker \ {w} : work'[u] = work[u] /\ caches'[u] = caches[u],
         KeysClean(caches'[w]), work'[w].pc # "off",
         Delivers(options, batch, next', work'[w])
  PROVE  Deliveries'
<1>1. ASSUME NEW u \in Worker PROVE KeysClean(caches'[u]) /\ Delivers(options, batch, next', work'[u])
  <2>1. CASE u = w
    BY <2>1
  <2>2. CASE u # w
    <3>1. KeysClean(caches[u]) /\ Delivers(options, batch, next, work[u])
      BY DEF Deliveries, InProgress
    <3>2. next > Len(BatchChunks[batch]) => next' > Len(BatchChunks[batch])
      OBVIOUS
    <3>3. Delivers(options, batch, next', work[u])
      BY <3>1, <3>2 DEF Delivers
    <3> QED BY <2>2, <3>1, <3>3
  <2> QED BY <2>1, <2>2
<1>2. batch.docs # <<>> /\ Len(batch.docs) = Len(batch.newlines) /\ work[1].pc # "off"
  BY DEF Deliveries, InProgress
<1>3. work'[1].pc # "off"
  <2>1. 1 \in Worker
    BY SurfaceBatchAssumption DEF Worker
  <2> QED BY <1>2, <2>1
<1> QED BY <1>1, <1>2, <1>3 DEF Deliveries, InProgress

LEMMA AtWork ==
  ASSUME IInv, Deliveries, NEW w \in Worker, work[w].pc # "off"
  PROVE  /\ batch \in Batches /\ batch # Idle /\ options \in Option
         /\ Len(BatchChunks[batch]) \in Nat /\ next \in Nat \ {0}
         /\ WorkShape /\ CachesShape /\ IsWork(work[w])
         /\ Delivers(options, batch, next, work[w]) /\ KeysClean(caches[w])
<1>1. batch \in Batches /\ batch # Idle
  BY BusyBatch DEF IInv
<1>2. Len(BatchChunks[batch]) \in Nat
  BY <1>1, ChunksInBatch
<1> QED BY <1>1, <1>2 DEF IInv, TypeOK, WorkShape, Deliveries, InProgress

LEMMA NotBehindLast ==
  ASSUME IInv, Deliveries, NEW w \in Worker, work[w].pc \in {"document", "lines", "encode"}
  PROVE  /\ work[w].document <= LastDocument(w) <=> work[w].document < Beyond(batch, work[w].chunk)
         /\ work[w].document > LastDocument(w) <=> ~(work[w].document < Beyond(batch, work[w].chunk))
<1>1. batch \in Batches /\ OnChunk(options, batch, work[w])
  BY AtWork DEF Delivers
<1>2. PICK k, d, e : k = work[w].chunk /\ d = work[w].document /\ e = Beyond(batch, k)
  OBVIOUS
<1>3. k \in 1..Len(BatchChunks[batch]) /\ d \in First(batch, k)..e
  BY <1>1, <1>2 DEF OnChunk
<1>4. First(batch, k) \in Nat /\ e \in Nat
  BY <1>1, <1>2, <1>3, ChunkPlaces
<1>5. PICK l \in Int : l = LastDocument(w) /\ e = l + 1
  <2>1. LastDocument(w) \in 1..Len(batch.docs)
    BY <1>1, <1>2, <1>3, ChunksInBatch DEF LastDocument
  <2> QED BY <1>2, <2>1 DEF LastDocument, Beyond
<1>6. d \in Int
  BY <1>3, <1>4
<1> QED BY <1>2, <1>5, <1>6

\* What a worker encodes next.
LEMMA NextPart ==
  ASSUME IInv, Contents, NEW w \in Worker, work[w].pc = "encode",
         work[w].at < Len(Doc(w)), NEW doc, doc = Doc(w), NEW at, at = work[w].at
  PROVE  /\ doc \in Seq(Atom) /\ at \in Nat /\ NextEnd(w) \in (at + 1)..Len(doc)
         /\ NextAtoms(w) = Part(doc, at, NextEnd(w))
         /\ doc = batch.docs[work[w].document] /\ work[w].document \in DOMAIN batch.docs
<1>1. PICK ends : ends = Ends(options.mode, doc)
  OBVIOUS
<1>2. IsDocument(doc) /\ DocumentEnds[options][Doc(w)] = ends /\ batch \in Batches
  BY <1>1, InHand
<1>3. /\ work[w].document \in 1..Len(batch.docs) /\ doc = batch.docs[work[w].document]
      /\ at \in {0} \cup ends
  BY <1>1 DEF Contents, Place, Doc
<1>4. /\ ends \in SUBSET (1..Len(doc)) /\ ends \in SUBSET (Nat \ {0}) /\ Len(doc) \in Nat
      /\ (Len(doc) # 0 => Len(doc) \in ends)
  BY <1>1, <1>2, EndsShape
<1>5. at \in Nat /\ at < Len(doc)
  BY <1>3, <1>4
<1>6. PICK n \in ends : n = Len(doc)
  BY <1>4, <1>5
<1>7. PICK m : m = NextEnd(w) /\ Follows(ends, at, m)
  BY <1>2 DEF NextEnd, Follows
<1>8. m \in ends /\ at < m
  BY <1>3, <1>4, <1>5, <1>6, <1>7, EndBehind
<1>9. m \in (at + 1)..Len(doc)
  BY <1>4, <1>5, <1>8
<1>10. work[w].document \in DOMAIN batch.docs
  BY <1>2, <1>3, SurfaceBatchAssumption DEF Batch
<1> QED BY <1>2, <1>3, <1>5, <1>7, <1>9, <1>10 DEF IsDocument, NextAtoms, Part

\* A part that is rejected is one of a document that is; what lies up to the end
\* of a part that is not is clean if what lies before it is.
LEMMA PartRejected ==
  ASSUME NEW doc \in Seq(Atom), NEW at \in Nat, NEW m \in (at + 1)..Len(doc),
         NEW part, part = Part(doc, at, m)
  PROVE  /\ Rejected(part) => Rejected(doc)
         /\ CleanTo(doc, at) /\ ~Rejected(part) => CleanTo(doc, m)
<1>1. /\ DOMAIN part = 1..(m - at) /\ \A i \in 1..(m - at) : part[i] = doc[at + i]
  BY PartShape
<1>2. PICK n \in Nat : n = Len(doc) /\ DOMAIN doc = 1..n
  OBVIOUS
<1>3. m \in Nat /\ at < m /\ m <= n
  BY <1>2
<1>4. ASSUME Rejected(part) PROVE Rejected(doc)
  <2>1. PICK i \in 1..(m - at) : part[i] = "bad"
    BY <1>1, <1>4 DEF Rejected
  <2>2. at + i \in 1..n
    BY <1>3, <2>1
  <2>3. doc[at + i] = "bad"
    BY <1>1, <2>1
  <2> QED BY <1>2, <2>2, <2>3 DEF Rejected
<1>5. ASSUME CleanTo(doc, at), ~Rejected(part), NEW i \in 1..m PROVE doc[i] # "bad"
  <2>1. CASE i <= at
    <3>1. i \in 1..at
      BY <1>3, <2>1
    <3> QED BY <1>5, <3>1 DEF CleanTo
  <2>2. CASE ~(i <= at)
    <3>1. PICK j \in 1..(m - at) : i = at + j
      <4>1. i - at \in 1..(m - at) /\ i = at + (i - at)
        BY <1>3, <2>2
      <4> QED BY <4>1
    <3>2. part[j] = doc[i] /\ j \in DOMAIN part
      BY <1>1, <3>1
    <3> QED BY <1>5, <3>2 DEF Rejected
  <2> QED BY <2>1, <2>2
<1> QED BY <1>4, <1>5 DEF CleanTo

\* A worker takes a chunk, hands one in or ends.
LEMMA ChunksDeliver ==
  ASSUME IInv, Contents, Deliveries, NEW w \in Worker,
         Claim(w) \/ NoChunkLeft(w) \/ ChunkDone(w) \/ EncodeFails(w)
  PROVE  Deliveries'
<1>1. /\ UNCHANGED <<options, batch, caches>> /\ next' \in {next, next + 1}
      /\ work[w].pc \in {"claim", "document", "encode"}
  BY DEF Claim, NoChunkLeft, ChunkDone, EncodeFails
<1>2. PICK o, b, r, s : o = options /\ b = batch /\ r = work[w] /\ s = work'[w]
  OBVIOUS
<1>3. /\ b \in Batches /\ b # Idle /\ Len(BatchChunks[b]) \in Nat /\ next \in Nat \ {0}
      /\ WorkShape /\ IsWork(r) /\ Delivers(o, b, next, r) /\ KeysClean(caches[w])
  BY <1>1, <1>2, AtWork
<1>4. \A u \in Worker \ {w} : work'[u] = work[u] /\ caches'[u] = caches[u]
  BY <1>1, <1>3 DEF Claim, NoChunkLeft, ChunkDone, EncodeFails, WorkShape
<1>5. SUFFICES s.pc # "off" /\ Delivers(o, b, next', s)
  BY <1>1, <1>2, <1>3, <1>4, OneDelivers
<1>6. CASE Claim(w)
  <2>1. PICK k : k = next
    OBVIOUS
  <2>2. k \in 1..Len(BatchChunks[b])
    BY <1>2, <1>3, <1>6, <2>1 DEF Claim
  <2>3. /\ s.chunk = k /\ s.document = First(b, k) /\ s.output = <<>>
        /\ s.completed = r.completed /\ s.pc = "document"
    BY <1>2, <1>3, <1>6, <2>1 DEF Claim, WorkShape, IsWork, First
  <2>4. \A i \in DOMAIN r.completed : r.completed[i].chunk # k
    <3> SUFFICES ASSUME NEW i \in DOMAIN r.completed PROVE r.completed[i].chunk # k
      OBVIOUS
    <3>1. r.completed[i].chunk \in ChunksAt(w)
      BY <1>2, <1>6 DEF ChunksAt, Claim
    <3>2. r.completed[i].chunk \in 1..(next - 1)
      BY <3>1 DEF IInv, ChunksClaimed
    <3> QED BY <1>3, <2>1, <3>2
  <2> QED BY <1>3, <2>2, <2>3, <2>4, ChunkClaimed
<1>7. CASE NoChunkLeft(w)
  <2>1. s.completed = r.completed /\ s.pc = "ended"
    BY <1>2, <1>3, <1>7 DEF NoChunkLeft, WorkShape, IsWork
  <2>2. next' > Len(BatchChunks[b])
    BY <1>2, <1>3, <1>7 DEF NoChunkLeft
  <2>3. Distinct(s)
    BY <1>3, <2>1 DEF Delivers, Distinct
  <2> QED BY <1>3, <2>1, <2>2, <2>3 DEF Delivers
<1>8. CASE ChunkDone(w)
  <2>1. r.pc = "document" /\ r.document > LastDocument(w)
    BY <1>2, <1>8 DEF ChunkDone
  <2>2. ~(r.document < Beyond(b, r.chunk))
    BY <1>2, <2>1, NotBehindLast
  <2>3. PICK c : c = [chunk |-> r.chunk, output |-> r.output]
    OBVIOUS
  <2>4. s.completed = Append(r.completed, c) /\ s.pc = "claim"
    BY <1>2, <1>3, <1>8, <2>3 DEF ChunkDone, WorkShape, IsWork
  <2>5. IsList(r.completed) /\ next' = next
    BY <1>3, <1>8 DEF IsWork, ChunkDone
  <2>6. Delivers(o, b, next, s)
    BY <1>3, <2>1, <2>2, <2>3, <2>4, <2>5, ChunkCompleted
  <2> QED BY <2>4, <2>5, <2>6
<1>9. CASE EncodeFails(w)
  <2>1. s = [Off EXCEPT !.pc = "failed"]
    BY <1>2, <1>3, <1>9 DEF EncodeFails, WorkShape
  <2>2. s.pc = "failed" /\ s.completed = <<>>
    BY <2>1 DEF Off
  <2>3. PICK doc, at, m : doc = Doc(w) /\ at = work[w].at /\ m = NextEnd(w)
    OBVIOUS
  <2>4. /\ work[w].pc = "encode" /\ at < Len(doc) /\ Rejected(NextAtoms(w))
    BY <1>9, <2>3 DEF EncodeFails
  <2>5. /\ doc \in Seq(Atom) /\ at \in Nat /\ m \in (at + 1)..Len(doc)
        /\ NextAtoms(w) = Part(doc, at, m)
        /\ doc = b.docs[r.document] /\ r.document \in DOMAIN b.docs
    BY <1>2, <2>3, <2>4, NextPart
  <2>6. Rejected(doc)
    BY <2>4, <2>5, PartRejected
  <2>7. \E i \in DOMAIN b.docs : Rejected(b.docs[i])
    BY <2>5, <2>6
  <2>8. DOMAIN s.completed = {}
    BY <2>2
  <2>9. Distinct(s)
    BY <2>2, <2>8 DEF Distinct
  <2> QED BY <2>2, <2>7, <2>8, <2>9 DEF Delivers
<1> QED BY <1>1, <1>6, <1>7, <1>8, <1>9

\* What is in no line is not in the document.
LEMMA LinesClean ==
  ASSUME NEW doc, IsDocument(doc),
         \A e \in LineEnds(doc) : ~Rejected(Part(doc, Before(LineEnds(doc), e), e))
  PROVE  ~Rejected(doc)
<1>1. PICK n \in Nat : n = Len(doc) /\ DOMAIN doc = 1..n /\ doc \in Seq(Atom)
  BY DEF IsDocument
<1>2. PICK ends \in SUBSET (Nat \ {0}) : ends = LineEnds(doc)
  BY LineEndsIn
<1>3. ends \in SUBSET (1..n) /\ (n # 0 => n \in ends)
  BY <1>1, <1>2, LineEndsIn
<1>4. SUFFICES ASSUME NEW i \in 1..n, doc[i] = "bad" PROVE FALSE
  BY <1>1 DEF Rejected
<1> DEFINE T == {e \in ends : i <= e}
<1>5. T \in SUBSET Nat /\ T # {}
  <2>1. n \in T
    BY <1>3
  <2> QED BY <2>1
<1>6. PICK e \in T : \A y \in T : e <= y
  <2> HIDE DEF T
  <2> QED BY <1>5, Numbers!Least
<1>7. e \in ends /\ e \in Nat /\ i <= e /\ e <= n
  BY <1>3, <1>6
<1>8. PICK s \in {0} \cup ends : s = Before(ends, e) /\ s \in 0..(e - 1)
  BY <1>7, BeforeOf
<1>9. s < i
  <2>1. CASE s = 0
    BY <2>1
  <2>2. CASE s # 0
    <3>1. s \in ends /\ s \in Nat /\ s < e
      BY <1>7, <1>8, <2>2
    <3>2. s \notin T
      BY <1>6, <1>7, <3>1
    <3> QED BY <3>1, <3>2
  <2> QED BY <2>1, <2>2
<1>10. s \in Nat /\ e \in (s + 1)..Len(doc)
  BY <1>1, <1>7, <1>8
<1>11. PICK part : part = Part(doc, s, e) /\ ~Rejected(part)
  BY <1>2, <1>7, <1>8
<1>12. DOMAIN part = 1..(e - s) /\ \A j \in 1..(e - s) : part[j] = doc[s + j]
  <2>1. doc \in Seq(Atom) /\ s \in Nat /\ e \in (s + 1)..Len(doc)
    BY <1>1, <1>10
  <2>2. /\ DOMAIN Part(doc, s, e) = 1..(e - s)
        /\ \A j \in 1..(e - s) : Part(doc, s, e)[j] = doc[s + j]
    BY <2>1, PartShape
  <2> QED BY <1>11, <2>2
<1>13. PICK j \in 1..(e - s) : s + j = i
  <2>1. i - s \in 1..(e - s) /\ s + (i - s) = i
    BY <1>7, <1>9, <1>10
  <2> QED BY <2>1
<1> QED BY <1>4, <1>11, <1>12, <1>13 DEF Rejected

LEMMA PreparedIsClean ==
  ASSUME NEW cache, KeysClean(cache), NEW v
  PROVE  KeysClean(Prepared(cache, v))
<1>1. CASE cache.context = AddressOf[v]
  BY <1>1 DEF Prepared
<1>2. CASE cache.context # AddressOf[v]
  <2>1. PICK c : c = Prepared(cache, v)
    OBVIOUS
  <2>2. c.programs = <<>> /\ c.documents = <<>>
    BY <1>2, <2>1 DEF Prepared
  <2>3. DOMAIN c.programs = {} /\ DOMAIN c.documents = {}
    BY <2>2
  <2> QED BY <2>1, <2>3 DEF KeysClean
<1> QED BY <1>1, <1>2

LEMMA RetainedIsClean ==
  ASSUME NEW cache, IsCache(cache), KeysClean(cache), NEW key, NEW value
  PROVE  /\ ~Rejected(key) =>
              KeysClean([cache EXCEPT !.programs = Retain(@, ProgramCapacity, key, value)])
         /\ ~Rejected(key[1]) =>
              KeysClean([cache EXCEPT !.documents = Retain(@, DocumentCapacity, key, value)])
<1> DEFINE p == Retain(cache.programs, ProgramCapacity, key, value)
           d == Retain(cache.documents, DocumentCapacity, key, value)
<1>1. \A k \in DOMAIN p : k \in DOMAIN cache.programs \/ k = key
  BY Retained
<1>2. \A k \in DOMAIN d : k \in DOMAIN cache.documents \/ k = key
  BY Retained
<1> HIDE DEF p, d
<1>3. ASSUME ~Rejected(key) PROVE KeysClean([cache EXCEPT !.programs = p])
  <2>1. PICK c : c = [cache EXCEPT !.programs = p]
    OBVIOUS
  <2>2. c.programs = p /\ c.documents = cache.documents
    BY <2>1 DEF IsCache
  <2> QED BY <1>1, <1>3, <2>1, <2>2 DEF KeysClean
<1>4. ASSUME ~Rejected(key[1]) PROVE KeysClean([cache EXCEPT !.documents = d])
  <2>1. PICK c : c = [cache EXCEPT !.documents = d]
    OBVIOUS
  <2>2. c.programs = cache.programs /\ c.documents = d
    BY <2>1 DEF IsCache
  <2> QED BY <1>2, <1>4, <2>1, <2>2 DEF KeysClean
<1> QED BY <1>3, <1>4 DEF p, d

\* What the steps leave alone.
LEMMA TurnedStays ==
  ASSUME WorkShape, NEW w \in Worker, NEW pc, TurnsTo(w, pc)
  PROVE  /\ work'[w].chunk = work[w].chunk /\ work'[w].output = work[w].output
         /\ work'[w].completed = work[w].completed
BY DEF WorkShape, IsWork, TurnsTo

LEMMA DeliveredStays ==
  ASSUME WorkShape, NEW w \in Worker, NEW ids, Delivered(w, ids)
  PROVE  /\ work'[w].chunk = work[w].chunk /\ work'[w].output = Append(work[w].output, ids)
         /\ work'[w].completed = work[w].completed
BY DEF WorkShape, IsWork, Delivered

LEMMA AppendedStays ==
  ASSUME WorkShape, NEW w \in Worker, NEW ids, Appended(w, ids)
  PROVE  /\ work'[w].chunk = work[w].chunk /\ work'[w].output = work[w].output
         /\ work'[w].completed = work[w].completed
<1>1. work = [u \in Worker |-> work[u]] /\ IsWork(work[w])
  BY DEF WorkShape
<1>2. PICK groups, m : work' = [work EXCEPT ![w].at = m, ![w].groups = groups]
  BY DEF Appended
<1> QED BY <1>1, <1>2 DEF IsWork

\* A document is looked up: its program is delivered, or it is yet to be read.
LEMMA LookUpDelivers ==
  ASSUME IInv, Contents, Deliveries, NEW w \in Worker, DocumentHit(w) \/ DocumentMiss(w)
  PROVE  Deliveries'
<1>1. /\ UNCHANGED <<options, batch, next>> /\ work[w].pc = "document"
      /\ work[w].document <= LastDocument(w)
  BY DEF DocumentHit, DocumentMiss
<1>2. PICK o, b, r, s, c :
        o = options /\ b = batch /\ r = work[w] /\ s = work'[w] /\ c = Prepared(caches[w], batch.vocab)
  OBVIOUS
<1>3. /\ b \in Batches /\ b # Idle /\ Len(BatchChunks[b]) \in Nat /\ next \in Nat \ {0}
      /\ WorkShape /\ CachesShape /\ Delivers(o, b, next, r) /\ KeysClean(caches[w])
  BY <1>1, <1>2, AtWork
<1>4. r.document < Beyond(b, r.chunk) /\ r.pc = "document"
  BY <1>1, <1>2, NotBehindLast
<1>5. caches' = [caches EXCEPT ![w] = c]
  BY <1>2 DEF DocumentHit, DocumentMiss
<1>6. caches'[w] = c /\ \A u \in Worker \ {w} : caches'[u] = caches[u]
  BY <1>3, <1>5, CacheChanged
<1>7. KeysClean(c)
  BY <1>2, <1>3, PreparedIsClean
<1>8. SUFFICES /\ s.pc # "off" /\ Delivers(o, b, next, s)
               /\ \A u \in Worker \ {w} : work'[u] = work[u]
  BY <1>1, <1>2, <1>3, <1>6, <1>7, OneDelivers
<1>9. CASE DocumentHit(w)
  <2>1. PICK key, ids : key = Key(w) /\ key \in DOMAIN c.documents /\ ids = c.documents[key] /\ Delivered(w, ids)
    BY <1>2, <1>9 DEF DocumentHit
  <2>2. CacheTrue(o, c) /\ c.context = AddressOf[b.vocab]
    BY <1>2, PreparedIsTrue DEF Contents
  <2>3. IsAnswer(o, At(AddressOf[b.vocab]), key[1], key[2], ids)
    BY <2>1, <2>2 DEF CacheTrue
  <2>4. key[1] = b.docs[r.document] /\ key[2] = b.newlines[r.document]
    BY <1>2, <2>1 DEF Key
  <2>5. Answered(o, b, r.document, ids)
    BY <2>3, <2>4 DEF Answered
  <2>6. ~Rejected(b.docs[r.document])
    BY <1>7, <2>1, <2>4 DEF KeysClean
  <2>7. /\ s.pc = "document" /\ s.document = r.document + 1
        /\ \A u \in Worker \ {w} : work'[u] = work[u]
        /\ s.chunk = r.chunk /\ s.output = Append(r.output, ids) /\ s.completed = r.completed
    BY <1>2, <1>3, <2>1, DeliveredShape, DeliveredStays
  <2>8. Delivers(o, b, next, s)
    BY <1>3, <1>4, <2>5, <2>6, <2>7, DocumentDelivered
  <2> QED BY <2>7, <2>8
<1>10. CASE DocumentMiss(w)
  <2>1. PICK pc \in {"lines", "encode"} : TurnsTo(w, pc)
    BY <1>10 DEF DocumentMiss, TurnsTo
  <2>2. /\ s.pc = pc /\ s.document = r.document /\ s.at = r.at
        /\ \A u \in Worker \ {w} : work'[u] = work[u]
        /\ s.chunk = r.chunk /\ s.output = r.output /\ s.completed = r.completed
    BY <1>2, <1>3, <2>1, Turned, TurnedStays
  <2>3. s.at = 0
    BY <1>2, <1>4, <2>2 DEF Contents, Place
  <2>4. CleanTo(b.docs[s.document], s.at)
    BY <2>3 DEF CleanTo
  <2>5. Delivers(o, b, next, s)
    BY <1>3, <1>4, <2>1, <2>2, <2>4, WithinDocument
  <2> QED BY <2>1, <2>2, <2>5
<1> QED BY <1>9, <1>10

\* A document that is finished, and not rejected, is delivered.
LEMMA FinishDelivers ==
  ASSUME IInv, Contents, Deliveries, NEW w \in Worker,
         work[w].pc \in {"lines", "encode"}, UNCHANGED <<options, batch, next>>, Finished(w),
         ~Rejected(Doc(w))
  PROVE  Deliveries'
<1>1. PICK key : key = Key(w)
  OBVIOUS
<1>2. PICK ids :
        /\ IsAnswer(options, At(AddressOf[batch.vocab]), key[1], key[2], ids)
        /\ Delivered(w, ids)
        /\ caches' = [caches EXCEPT ![w].documents = Retain(@, DocumentCapacity, key, ids)]
  BY <1>1 DEF Finished
<1>3. PICK o, b, r, s : o = options /\ b = batch /\ r = work[w] /\ s = work'[w]
  OBVIOUS
<1>4. /\ b \in Batches /\ b # Idle /\ Len(BatchChunks[b]) \in Nat /\ next \in Nat \ {0}
      /\ WorkShape /\ CachesShape /\ Delivers(o, b, next, r) /\ KeysClean(caches[w])
  BY <1>3, AtWork
<1>5. r.document < Beyond(b, r.chunk)
  BY <1>3, <1>4 DEF Delivers, OnChunk
<1>6. key[1] = Doc(w) /\ Doc(w) = b.docs[r.document] /\ key[2] = b.newlines[r.document]
  BY <1>1, <1>3 DEF Key, Doc
<1>7. Answered(o, b, r.document, ids)
  BY <1>2, <1>3, <1>6 DEF Answered
<1>8. /\ s.pc = "document" /\ s.document = r.document + 1
      /\ \A u \in Worker \ {w} : work'[u] = work[u]
      /\ s.chunk = r.chunk /\ s.output = Append(r.output, ids) /\ s.completed = r.completed
  BY <1>2, <1>3, <1>4, DeliveredShape, DeliveredStays
<1>9. Delivers(o, b, next, s)
  <2>1. r.pc \in {"document", "lines", "encode"} /\ ~Rejected(b.docs[r.document])
    BY <1>3, <1>6
  <2>2. b \in Batches /\ Delivers(o, b, next, r)
    BY <1>4
  <2> QED BY ONLY <1>5, <1>7, <1>8, <2>1, <2>2, DocumentDelivered
<1>10. PICK cache, c : cache = caches[w] /\ c = [cache EXCEPT !.documents = Retain(@, DocumentCapacity, key, ids)]
  OBVIOUS
<1>11. KeysClean(c)
  <2>1. IsCache(cache) /\ KeysClean(cache) /\ ~Rejected(key[1])
    BY <1>4, <1>6, <1>10 DEF CachesShape
  <2> QED BY <1>10, <2>1, RetainedIsClean
<1>12. caches' = [caches EXCEPT ![w] = c]
  BY <1>2, <1>4, <1>10 DEF CachesShape
<1>13. caches'[w] = c /\ \A u \in Worker \ {w} : caches'[u] = caches[u]
  BY <1>4, <1>12, CacheChanged
<1> QED BY <1>3, <1>4, <1>8, <1>9, <1>11, <1>13, OneDelivers

LEMMA LinesDeliver ==
  ASSUME IInv, Contents, Deliveries, NEW w \in Worker, LinesHit(w) \/ LinesMiss(w)
  PROVE  Deliveries'
<1>1. work[w].pc = "lines" /\ UNCHANGED <<options, batch, next>>
  BY DEF LinesHit, LinesMiss
<1>2. PICK o, b, r, s : o = options /\ b = batch /\ r = work[w] /\ s = work'[w]
  OBVIOUS
<1>3. /\ b \in Batches /\ b # Idle /\ Len(BatchChunks[b]) \in Nat /\ next \in Nat \ {0}
      /\ WorkShape /\ CachesShape /\ Delivers(o, b, next, r) /\ KeysClean(caches[w])
  BY <1>1, <1>2, AtWork
<1>4. CASE LinesHit(w)
  <2>1. PICK doc : doc = Doc(w) /\ IsDocument(doc)
    BY <1>1, InHand
  <2>2. ASSUME NEW e \in LineEnds(doc)
        PROVE  ~Rejected(Part(doc, Before(LineEnds(doc), e), e))
    <3>1. Line(w, e) = Part(doc, Before(LineEnds(doc), e), e)
      BY <2>1 DEF Line
    <3>2. Line(w, e) \in DOMAIN caches[w].programs
      BY <1>4, <2>1, <2>2 DEF LinesHit, LinesCached
    <3> QED BY <1>3, <3>1, <3>2 DEF KeysClean
  <2>3. ~Rejected(Doc(w))
    BY <2>1, <2>2, LinesClean
  <2> QED BY <1>1, <1>4, <2>3, LinesFinish, FinishDelivers
<1>5. CASE LinesMiss(w)
  <2>1. TurnsTo(w, "encode") /\ caches' = caches
    BY <1>5 DEF LinesMiss, TurnsTo
  <2>2. /\ s.pc = "encode" /\ s.document = r.document /\ s.at = r.at
        /\ \A u \in Worker \ {w} : work'[u] = work[u]
        /\ s.chunk = r.chunk /\ s.output = r.output /\ s.completed = r.completed
    BY <1>2, <1>3, <2>1, Turned, TurnedStays
  <2>3. s.at = 0
    BY <1>1, <1>2, <2>2 DEF Contents, Place
  <2>4. CleanTo(b.docs[s.document], s.at)
    BY <2>3 DEF CleanTo
  <2>5. r.document < Beyond(b, r.chunk)
    BY <1>1, <1>2, <1>3 DEF Delivers, OnChunk
  <2>6. Delivers(o, b, next, s)
    BY <1>1, <1>2, <1>3, <2>2, <2>4, <2>5, WithinDocument
  <2> QED BY <1>1, <1>2, <1>3, <2>1, <2>2, <2>6, OneDelivers
<1> QED BY <1>4, <1>5

LEMMA EncodeDelivers ==
  ASSUME IInv, Contents, Deliveries, NEW w \in Worker, ChunkHit(w) \/ EncodeUnits(w)
  PROVE  Deliveries'
<1>1. /\ work[w].pc = "encode" /\ work[w].at < Len(Doc(w)) /\ UNCHANGED <<options, batch, next>>
  BY DEF ChunkHit, EncodeUnits
<1>2. PICK o, b, r, s, doc, at, m, atoms :
        /\ o = options /\ b = batch /\ r = work[w] /\ s = work'[w] /\ doc = Doc(w)
        /\ at = work[w].at /\ m = NextEnd(w) /\ atoms = NextAtoms(w)
  OBVIOUS
<1>3. /\ b \in Batches /\ b # Idle /\ Len(BatchChunks[b]) \in Nat /\ next \in Nat \ {0}
      /\ WorkShape /\ CachesShape /\ Delivers(o, b, next, r) /\ KeysClean(caches[w])
  BY <1>1, <1>2, AtWork
<1>4. /\ doc \in Seq(Atom) /\ at \in Nat /\ m \in (at + 1)..Len(doc)
      /\ atoms = Part(doc, at, m) /\ doc = b.docs[r.document]
  BY <1>1, <1>2, NextPart
<1>5. ~Rejected(atoms)
  <2>1. CASE ChunkHit(w)
    BY <1>2, <1>3, <2>1 DEF ChunkHit, KeysClean
  <2>2. CASE EncodeUnits(w)
    BY <1>2, <2>2 DEF EncodeUnits
  <2> QED BY <2>1, <2>2
<1>6. CleanTo(doc, m)
  <2>1. CleanTo(doc, at)
    BY <1>1, <1>2, <1>3, <1>4 DEF Delivers
  <2> QED BY <1>4, <1>5, <2>1, PartRejected
<1>7. PICK ids :
        /\ Appended(w, ids)
        /\ \/ caches' = caches
           \/ caches' = [caches EXCEPT ![w].programs = Retain(@, ProgramCapacity, atoms, ids)]
  <2>1. CASE ChunkHit(w)
    BY <2>1 DEF ChunkHit
  <2>2. CASE EncodeUnits(w)
    BY <1>2, <2>2 DEF EncodeUnits
  <2> QED BY <2>1, <2>2
<1>8. KeysClean(caches'[w]) /\ \A u \in Worker \ {w} : caches'[u] = caches[u]
  <2>1. CASE caches' = caches
    BY <1>3, <2>1
  <2>2. CASE caches' = [caches EXCEPT ![w].programs = Retain(@, ProgramCapacity, atoms, ids)]
    <3>1. PICK cache, c : cache = caches[w] /\ c = [cache EXCEPT !.programs = Retain(@, ProgramCapacity, atoms, ids)]
      OBVIOUS
    <3>2. KeysClean(c)
      <4>1. IsCache(cache) /\ KeysClean(cache)
        BY <1>3, <3>1 DEF CachesShape
      <4> QED BY <1>5, <3>1, <4>1, RetainedIsClean
    <3>3. caches' = [caches EXCEPT ![w] = c]
      BY <1>3, <2>2, <3>1 DEF CachesShape
    <3>4. caches'[w] = c /\ \A u \in Worker \ {w} : caches'[u] = caches[u]
      BY <1>3, <3>3, CacheChanged
    <3> QED BY <3>2, <3>4
  <2> QED BY <1>7, <2>1, <2>2
<1>9. /\ s.pc = "encode" /\ s.document = r.document /\ s.at = m
      /\ \A u \in Worker \ {w} : work'[u] = work[u]
      /\ s.chunk = r.chunk /\ s.output = r.output /\ s.completed = r.completed
  BY <1>1, <1>2, <1>3, <1>7, AppendedShape, AppendedStays
<1>10. r.document < Beyond(b, r.chunk)
  BY <1>1, <1>2, <1>3 DEF Delivers, OnChunk
<1>11. CleanTo(b.docs[s.document], s.at)
  BY <1>4, <1>6, <1>9
<1>12. Delivers(o, b, next, s)
  BY <1>1, <1>2, <1>3, <1>9, <1>10, <1>11, WithinDocument
<1> QED BY <1>1, <1>2, <1>3, <1>8, <1>9, <1>12, OneDelivers

LEMMA FinishDocumentDelivers ==
  ASSUME IInv, Contents, Deliveries, NEW w \in Worker, FinishDocument(w)
  PROVE  Deliveries'
<1>1. work[w].pc = "encode" /\ work[w].at = Len(Doc(w)) /\ UNCHANGED <<options, batch, next>>
  BY DEF FinishDocument
<1>2. ~Rejected(Doc(w))
  <2>1. PICK doc : doc = Doc(w) /\ IsDocument(doc)
    BY <1>1, InHand
  <2>2. Delivers(options, batch, next, work[w])
    BY <1>1, AtWork
  <2>3. CleanTo(doc, Len(doc))
    BY <1>1, <2>1, <2>2 DEF Delivers, Doc
  <2>4. DOMAIN doc = 1..Len(doc)
    BY <2>1 DEF IsDocument
  <2> QED BY <2>1, <2>3, <2>4 DEF CleanTo, Rejected
<1> QED BY <1>1, <1>2, DocumentFinish, FinishDelivers

\* A worker that has not begun delivers nothing.
LEMMA NothingDelivered ==
  ASSUME NEW o, NEW b, NEW n, NEW r, r = Off \/ r = [Off EXCEPT !.pc = "claim"]
  PROVE  Delivers(o, b, n, r)
<1>1. r.pc \in {"off", "claim"} /\ r.completed = <<>>
  BY DEF Off
<1>2. DOMAIN r.completed = {}
  BY <1>1
<1>3. Distinct(r)
  BY <1>1, <1>2 DEF Distinct
<1> QED BY <1>1, <1>2, <1>3 DEF Delivers

LEMMA NoCacheIsClean == KeysClean(NoCache)
<1>1. PICK c : c = NoCache
  OBVIOUS
<1>2. c.programs = <<>> /\ c.documents = <<>>
  BY <1>1 DEF NoCache
<1>3. DOMAIN c.programs = {} /\ DOMAIN c.documents = {}
  BY <1>2
<1> QED BY <1>1, <1>3 DEF KeysClean

LEMMA InitDeliveries == Init => Deliveries
BY NoCacheIsClean DEF Init, Deliveries

\* There is a worker for every batch that begins.
LEMMA SomeWorker ==
  ASSUME NEW b \in Batches, b.docs # <<>>
  PROVE  1 \in Worker /\ 1 <= WorkerCount(b.docs)
<1>1. Threads \in Nat \ {0}
  BY SurfaceBatchAssumption
<1>2. b.docs \in Seq(Seq(Atom))
  BY SurfaceBatchAssumption DEF Batch
<1>3. PICK n \in Nat \ {0} : n = Len(b.docs)
  BY <1>2, EmptySeq
<1>4. PICK r : r = Ranges(b.docs) /\ r \in RangesOf(n) /\ Tiles(r, n + 1)
  BY <1>2, <1>3, CutTiles
<1>5. Len(r) \in Nat
  BY <1>4 DEF RangesOf
<1>6. Len(r) # 0
  BY <1>3, <1>4 DEF Tiles, Behind
<1>7. PICK l \in Nat \ {0} : l = Len(Ranges(b.docs))
  BY <1>4, <1>5, <1>6
<1>8. Min({Threads, l}) = IF Threads <= l THEN Threads ELSE l
  BY <1>1, MinOfTwo
<1>9. 1 <= WorkerCount(b.docs)
  BY <1>1, <1>7, <1>8 DEF WorkerCount
<1> QED BY <1>1, <1>9 DEF Worker

LEMMA CallersDeliver ==
  ASSUME IInv, Deliveries,
         \/ \E b \in Batches : Begin(b) \/ RefuseLengths(b) \/ EncodeNothing(b)
         \/ Clear
         \/ Join
  PROVE  Deliveries'
<1>1. \A w \in Worker : KeysClean(caches'[w])
  <2>1. CASE Clear
    BY <2>1, NoCacheIsClean DEF Clear
  <2>2. CASE caches' = caches
    BY <2>2 DEF Deliveries
  <2> QED BY <2>1, <2>2 DEF Begin, RefuseLengths, EncodeNothing, Join
<1>2. CASE batch' = Idle
  BY <1>1, <1>2 DEF Deliveries
<1>3. CASE \E b \in Batches : Begin(b)
  <2>1. PICK b \in Batches : Begin(b)
    BY <1>3
  <2>2. /\ batch' = b /\ b.docs # <<>> /\ Len(b.docs) = Len(b.newlines)
        /\ work' = [w \in Worker |->
             IF w <= WorkerCount(b.docs) THEN [Off EXCEPT !.pc = "claim"] ELSE Off]
    BY <2>1 DEF Begin
  <2>3. \A w \in Worker : work'[w] = Off \/ work'[w] = [Off EXCEPT !.pc = "claim"]
    BY <2>2
  <2>4. \A w \in Worker : Delivers(options', b, next', work'[w])
    BY <2>3, NothingDelivered
  <2>5. work'[1].pc # "off"
    <3>1. work'[1] = [Off EXCEPT !.pc = "claim"]
      BY <2>2, SomeWorker
    <3> QED BY <3>1 DEF Off
  <2> QED BY <1>1, <2>2, <2>4, <2>5 DEF Deliveries, InProgress
<1> QED BY <1>2, <1>3 DEF Begin, RefuseLengths, EncodeNothing, Clear, Join

LEMMA StepDeliveries == IInv /\ Contents /\ Deliveries /\ [Next]_vars => Deliveries'
<1> SUFFICES ASSUME IInv, Contents, Deliveries, [Next]_vars PROVE Deliveries'
  OBVIOUS
<1>1. CASE UNCHANGED vars
  BY <1>1 DEF vars, Deliveries, InProgress
<1>2. ASSUME NEW w \in Worker, Step(w) PROVE Deliveries'
  <2>1. CASE Claim(w) \/ NoChunkLeft(w) \/ ChunkDone(w) \/ EncodeFails(w)
    BY <2>1, ChunksDeliver
  <2>2. CASE DocumentHit(w) \/ DocumentMiss(w)
    BY <2>2, LookUpDelivers
  <2>3. CASE LinesHit(w) \/ LinesMiss(w)
    BY <2>3, LinesDeliver
  <2>4. CASE ChunkHit(w) \/ EncodeUnits(w)
    BY <2>4, EncodeDelivers
  <2>5. CASE FinishDocument(w)
    BY <2>5, FinishDocumentDelivers
  <2> QED BY <1>2, <2>1, <2>2, <2>3, <2>4, <2>5 DEF Step
<1>3. CASE \/ \E b \in Batches : Begin(b) \/ RefuseLengths(b) \/ EncodeNothing(b)
           \/ Clear
           \/ Join
  BY <1>3, CallersDeliver
<1> QED BY <1>1, <1>2, <1>3 DEF Next

-----------------------------------------------------------------------------
(***************************************************************************)
(* What the chunks make together.                                          *)
(***************************************************************************)

\* What FlattenSeq strings together, one sequence at a time.
Strings(p, seqs, l) == p[1] = seqs[1] /\ \A i \in 2..l : p[i] = p[i - 1] \o seqs[i]

LEMMA Strung ==
  ASSUME NEW l \in Nat \ {0}, NEW seqs, Len(seqs) = l, NEW p, Strings(p, seqs, l)
  PROVE  FlattenSeq(seqs) = p[l]
<1> DEFINE Right(f) == f = [i \in 1..l |-> IF i = 1 THEN seqs[i] ELSE f[i - 1] \o seqs[i]]
           q == [i \in 1..l |-> p[i]]
           flatten == CHOOSE f : Right(f)
<1>1. FlattenSeq(seqs) = flatten[l]
  BY DEF FlattenSeq
<1>2. Right(q)
  <2>1. \A i \in 1..l : p[i] = IF i = 1 THEN seqs[i] ELSE q[i - 1] \o seqs[i]
    <3> SUFFICES ASSUME NEW i \in 1..l PROVE p[i] = IF i = 1 THEN seqs[i] ELSE q[i - 1] \o seqs[i]
      OBVIOUS
    <3>1. CASE i = 1
      BY <3>1 DEF Strings
    <3>2. CASE i # 1
      <4>1. i \in 2..l /\ i - 1 \in 1..l
        BY <3>2
      <4>2. q[i - 1] = p[i - 1]
        BY <4>1
      <4> QED BY <3>2, <4>1, <4>2 DEF Strings
    <3> QED BY <3>1, <3>2
  <2> QED BY <2>1
<1> HIDE DEF Right
<1>3. Right(flatten)
  BY <1>2
<1> HIDE DEF flatten, q
<1>4. flatten[1] = seqs[1] /\ \A i \in 2..l : flatten[i] = flatten[i - 1] \o seqs[i]
  <2>1. flatten = [i \in 1..l |-> IF i = 1 THEN seqs[i] ELSE flatten[i - 1] \o seqs[i]]
    BY <1>3 DEF Right
  <2>2. \A i \in 1..l : flatten[i] = IF i = 1 THEN seqs[i] ELSE flatten[i - 1] \o seqs[i]
    BY <2>1, ZenonT(30)
  <2>3. 1 \in 1..l /\ \A i \in 2..l : i \in 1..l /\ i # 1
    OBVIOUS
  <2> QED BY <2>2, <2>3
<1> DEFINE T == {i \in Nat : i + 1 <= l => flatten[i + 1] = p[i + 1]}
<1>5. 0 \in T
  BY <1>4 DEF Strings
<1>6. ASSUME NEW i \in Nat, i \in T PROVE i + 1 \in T
  <2> SUFFICES ASSUME i + 2 <= l PROVE flatten[i + 2] = p[i + 2]
    OBVIOUS
  <2>1. PICK j \in 2..l : j = i + 2 /\ j - 1 = i + 1
    OBVIOUS
  <2>2. flatten[j - 1] = p[j - 1]
    BY <1>6, <2>1
  <2> QED BY <1>4, <2>1, <2>2 DEF Strings
<1>7. Nat \subseteq T
  <2> HIDE DEF T
  <2> QED BY <1>5, <1>6, Numbers!Induct
<1>8. flatten[l] = p[l]
  <2>1. PICK i \in Nat : l = i + 1
    <3>1. l - 1 \in Nat /\ l = (l - 1) + 1
      OBVIOUS
    <3> QED BY <3>1
  <2>2. i \in T
    BY <1>7
  <2> QED BY <2>1, <2>2
<1> QED BY <1>1, <1>8

\* A list is one of whatever holds its entries, and what is one is a list.
LEMMA ListAmong ==
  ASSUME NEW f, IsList(f), NEW S, \A i \in DOMAIN f : f[i] \in S
  PROVE  f \in Seq(S)
<1>1. PICK R : f \in Seq(R)
  BY DEF IsList
<1>2. f = [i \in 1..Len(f) |-> f[i]] /\ Len(f) \in Nat /\ DOMAIN f = 1..Len(f)
  BY <1>1
<1>3. f \in [1..Len(f) -> S]
  BY <1>2
<1> QED BY <1>2, <1>3, SeqDef

LEMMA AnyList ==
  ASSUME NEW S, NEW f \in Seq(S)
  PROVE  IsList(f)
<1>1. PICK R : R = {f[i] : i \in DOMAIN f}
  OBVIOUS
<1>2. f = [i \in 1..Len(f) |-> f[i]] /\ Len(f) \in Nat /\ DOMAIN f = 1..Len(f)
  OBVIOUS
<1>3. f \in [1..Len(f) -> R]
  BY <1>1, <1>2
<1>4. f \in Seq(R)
  BY <1>2, <1>3, SeqDef
<1> QED BY <1>1, <1>4 DEF IsList

\* Ranges of documents that follow each other.
LEMMA MoreDocuments ==
  ASSUME NEW o, NEW b, NEW s \in Nat, NEW m \in Nat, NEW e \in Nat, s <= m, m <= e,
         NEW p, Answers(o, b, s, m, p), NEW q, Answers(o, b, m, e, q)
  PROVE  Answers(o, b, s, e, p \o q)
<1>1. PICK j \in Nat, k \in Nat : j = m - s /\ k = e - m /\ j + k = e - s
  <2>1. m - s \in Nat /\ e - m \in Nat /\ (m - s) + (e - m) = e - s
    OBVIOUS
  <2> QED BY <2>1
<1>2. IsList(p) /\ Len(p) = j /\ \A i \in 1..j : Answered(o, b, s + i - 1, p[i])
  BY <1>1 DEF Answers
<1>3. IsList(q) /\ Len(q) = k /\ \A i \in 1..k : Answered(o, b, m + i - 1, q[i])
  BY <1>1 DEF Answers
<1>4. PICK S : S = {p[i] : i \in DOMAIN p} \cup {q[i] : i \in DOMAIN q}
  OBVIOUS
<1>5. p \in Seq(S)
  BY <1>2, <1>4, ListAmong
<1>6. q \in Seq(S)
  BY <1>3, <1>4, ListAmong
<1>7. PICK t : t = p \o q
  OBVIOUS
<1>8. /\ t \in Seq(S) /\ Len(t) = j + k
      /\ \A i \in 1..(j + k) : t[i] = IF i <= j THEN p[i] ELSE q[i - j]
  <2>1. /\ t \in Seq(S) /\ Len(t) = Len(p) + Len(q)
        /\ \A i \in 1..(Len(p) + Len(q)) : t[i] = IF i <= Len(p) THEN p[i] ELSE q[i - Len(p)]
    BY <1>5, <1>6, <1>7, ConcatProperties
  <2> QED BY <1>2, <1>3, <2>1
<1>9. IsList(t)
  BY <1>8, AnyList
<1>10. ASSUME NEW i \in 1..(j + k) PROVE Answered(o, b, s + i - 1, t[i])
  <2>1. CASE i <= j
    <3>1. i \in 1..j /\ t[i] = p[i]
      BY <1>8, <2>1
    <3> QED BY <1>2, <3>1
  <2>2. CASE ~(i <= j)
    <3>1. PICK x \in 1..k : x = i - j /\ m + x - 1 = s + i - 1
      <4>1. i - j \in 1..k /\ m + (i - j) - 1 = s + i - 1
        BY <1>1, <2>2
      <4> QED BY <4>1
    <3>2. t[i] = q[x]
      BY <1>8, <2>2, <3>1
    <3> QED BY <1>3, <3>1, <3>2
  <2> QED BY <2>1, <2>2
<1> QED BY <1>1, <1>7, <1>8, <1>9, <1>10 DEF Answers

\* The first entries, each known by its number.
FirstOf(e, k) == {e[j] : j \in 1..k}

LEMMA FirstCounted ==
  ASSUME NEW e, NEW k \in Nat, \A j \in 1..k : e[j].chunk = j
  PROVE  Cardinality(FirstOf(e, k)) = k
<1>1. PICK S, T, f : S = 1..k /\ T = FirstOf(e, k) /\ f = [j \in S |-> e[j]]
  OBVIOUS
<1>2. f \in [S -> T] /\ \A t \in T : \E j \in S : f[j] = t
  BY <1>1 DEF FirstOf
<1>3. \A i, j \in S : f[i] = f[j] => i = j
  BY <1>1
<1>4. f \in Bijection(S, T)
  BY <1>2, <1>3 DEF Bijection, Injection, Surjection, IsInjective
<1>5. ExistsBijection(S, T)
  BY <1>4 DEF ExistsBijection
<1>6. IsFiniteSet(S) /\ Cardinality(S) = k
  <2>1. PICK a \in Int : a = 1
    OBVIOUS
  <2>2. IsFiniteSet(a..k) /\ Cardinality(a..k) = IF a > k THEN 0 ELSE k - a + 1
    BY FS_Interval
  <2>3. (IF a > k THEN 0 ELSE k - a + 1) = k
    BY <2>1
  <2> QED BY <1>1, <2>1, <2>2, <2>3
<1>7. Cardinality(T) = Cardinality(S)
  BY <1>5, <1>6, FS_Bijection
<1> QED BY <1>1, <1>6, <1>7

Completed == UNION {Range(work[w].completed) : w \in Worker}

\* What is completed, by the numbers of the chunks.
Entries(c, l) == [k \in 1..l |-> CHOOSE x \in c : x.chunk = k]

\* When all workers have ended, every chunk of the batch was encoded, once.
LEMMA AllEncoded ==
  ASSUME IInv, Deliveries, batch # Idle, \A w \in Worker : work[w].pc \in {"off", "ended"},
         NEW c, c = Completed, NEW l, l = Len(BatchChunks[batch]), NEW e, e = Entries(c, l)
  PROVE  /\ c = FirstOf(e, l)
         /\ \A k \in 1..l : e[k].chunk = k /\ Encoded(options, batch, e[k])
<1>1. batch \in Batches /\ next \in Nat \ {0} /\ l \in Nat
  BY ChunksInBatch DEF IInv, TypeOK
<1>2. InProgress(options, batch, next)
  BY DEF Deliveries
<1>3. next > l
  <2>1. 1 \in Worker
    BY SurfaceBatchAssumption DEF Worker
  <2>2. work[1].pc = "ended"
    BY <1>2, <2>1 DEF InProgress
  <2> QED BY <1>2, <2>1, <2>2 DEF InProgress, Delivers
<1>4. /\ UNION {ChunksAt(w) : w \in Worker} = 1..l
      /\ \A u, w \in Worker : u # w => ChunksAt(u) \cap ChunksAt(w) = {}
  <2>1. PICK m \in Int : m = next - 1
    BY <1>1
  <2>2. Min({m, l}) = l
    BY <1>1, <1>3, <2>1, MinOfTwo
  <2> QED BY <2>1, <2>2 DEF IInv, EveryChunkOnce
<1>5. ASSUME NEW w \in Worker PROVE ChunksAt(w) = {work[w].completed[i].chunk : i \in DOMAIN work[w].completed}
  BY DEF ChunksAt
<1>6. ASSUME NEW x \in c PROVE Encoded(options, batch, x)
  BY <1>2 DEF InProgress, Delivers, Range, Completed
<1>7. ASSUME NEW k \in 1..l
      PROVE  \E x \in c : x.chunk = k
  <2>1. PICK w \in Worker : k \in ChunksAt(w)
    BY <1>4
  <2>2. PICK i \in DOMAIN work[w].completed : work[w].completed[i].chunk = k
    BY <1>5, <2>1
  <2>3. work[w].completed[i] \in c
    BY <2>2 DEF Range, Completed
  <2> QED BY <2>2, <2>3
<1>8. ASSUME NEW x \in c, NEW y \in c, x.chunk = y.chunk
      PROVE  x = y
  <2>1. PICK u \in Worker : \E i \in DOMAIN work[u].completed : x = work[u].completed[i]
    BY DEF Range, Completed
  <2>2. PICK w \in Worker : \E j \in DOMAIN work[w].completed : y = work[w].completed[j]
    BY DEF Range, Completed
  <2>3. x.chunk \in ChunksAt(u) /\ y.chunk \in ChunksAt(w)
    BY <1>5, <2>1, <2>2
  <2>4. u = w
    BY <1>4, <1>8, <2>3
  <2>5. PICK i \in DOMAIN work[w].completed, j \in DOMAIN work[w].completed :
          x = work[w].completed[i] /\ y = work[w].completed[j]
    BY <2>1, <2>2, <2>4
  <2>6. i = j
    BY <1>2, <1>8, <2>5 DEF InProgress, Delivers, Distinct
  <2> QED BY <2>5, <2>6
<1>9. ASSUME NEW k \in 1..l
      PROVE  e[k] \in c /\ e[k].chunk = k
  BY <1>7 DEF Entries
<1>10. ASSUME NEW x \in c PROVE x \in FirstOf(e, l)
  <2>1. x.chunk \in 1..l
    BY <1>6, <1>10 DEF Encoded
  <2>2. x = e[x.chunk]
    BY <1>8, <1>9, <1>10, <2>1
  <2> QED BY <2>1, <2>2 DEF FirstOf
<1>11. FirstOf(e, l) \subseteq c
  BY <1>9 DEF FirstOf
<1>12. c = FirstOf(e, l)
  BY <1>10, <1>11
<1>13. ASSUME NEW k \in 1..l
       PROVE  e[k].chunk = k /\ Encoded(options, batch, e[k])
  BY <1>6, <1>9
<1> QED BY <1>12, <1>13

\* Sorted, each entry stands at its number.
Nth(c, i) == CHOOSE x \in c : Cardinality({d \in c : d.chunk <= x.chunk}) = i

Numbered(e, l) == \A k \in 1..l : e[k].chunk = k

LEMMA EntriesSorted ==
  ASSUME NEW l \in Nat, NEW e, Numbered(e, l), NEW c, c = FirstOf(e, l), NEW i \in 1..l
  PROVE  Nth(c, i) = e[i]
<1>0. \A k \in 1..l : e[k].chunk = k
  BY DEF Numbered
<1>1. ASSUME NEW x \in c
      PROVE  x.chunk \in 1..l /\ x = e[x.chunk]
  BY <1>0, <1>1 DEF FirstOf
<1>2. ASSUME NEW x \in c
      PROVE  Cardinality({d \in c : d.chunk <= x.chunk}) = x.chunk
  <2>1. PICK k \in 1..l : k = x.chunk
    BY <1>1, <1>2
  <2>2. {d \in c : d.chunk <= k} = FirstOf(e, k)
    <3>1. ASSUME NEW d \in c, d.chunk <= k PROVE d \in FirstOf(e, k)
      <4>1. d.chunk \in 1..k /\ d = e[d.chunk]
        BY <1>1, <3>1
      <4> QED BY <4>1 DEF FirstOf
    <3>2. ASSUME NEW d \in FirstOf(e, k) PROVE d \in c /\ d.chunk <= k
      <4>1. PICK j \in 1..k : d = e[j]
        BY <3>2 DEF FirstOf
      <4>2. j \in 1..l
        BY <2>1, <4>1
      <4> QED BY <1>0, <4>1, <4>2 DEF FirstOf
    <3> QED BY <3>1, <3>2
  <2>3. \A j \in 1..k : e[j].chunk = j
    BY <1>0, <2>1
  <2>4. Cardinality(FirstOf(e, k)) = k
    BY <2>1, <2>3, FirstCounted
  <2> QED BY <2>1, <2>2, <2>4
<1>3. e[i] \in c /\ e[i].chunk = i
  BY <1>0 DEF FirstOf
<1>4. \A x \in c : Cardinality({d \in c : d.chunk <= x.chunk}) = i <=> x = e[i]
  BY <1>1, <1>2, <1>3
<1> QED BY <1>3, <1>4 DEF Nth

\* Together the chunks are the documents of the batch.
LEMMA ChunksTogether ==
  ASSUME NEW o, NEW b \in Batches, b.docs # <<>>, NEW l, l = Len(BatchChunks[b]),
         NEW seqs, Len(seqs) = l,
         \A k \in 1..l : Answers(o, b, First(b, k), Beyond(b, k), seqs[k])
  PROVE  Answers(o, b, 1, Len(b.docs) + 1, FlattenSeq(seqs))
<1>1. PICK n, chunks : n = Len(b.docs) /\ chunks = BatchChunks[b]
  OBVIOUS
<1>2. n \in Nat \ {0} /\ Tiles(chunks, n + 1) /\ l \in Nat \ {0} /\ l = Len(chunks)
  BY <1>1, BatchTiles
<1>3. First(b, 1) = 1 /\ Beyond(b, l) = n + 1
  <2>1. 1 \in 1..l /\ 1 - 1 = 0
    BY <1>2
  <2>2. chunks[1][1] = 1
    BY <1>2, <2>1 DEF Tiles, Behind
  <2>3. n + 1 = chunks[l][2] + 1
    BY <1>2 DEF Tiles, Behind
  <2> QED BY <1>1, <2>2, <2>3 DEF First, Beyond
<1>4. \A k \in 2..l : First(b, k) = Beyond(b, k - 1)
  <2> SUFFICES ASSUME NEW k \in 2..l PROVE First(b, k) = Beyond(b, k - 1)
    OBVIOUS
  <2>1. k \in 1..l /\ k - 1 # 0
    OBVIOUS
  <2>2. chunks[k][1] = chunks[k - 1][2] + 1
    BY <1>2, <2>1 DEF Tiles, Behind
  <2> QED BY <1>1, <2>2 DEF First, Beyond
<1>5. \A k \in 1..l : First(b, k) \in Nat \ {0} /\ Beyond(b, k) \in Nat /\ First(b, k) < Beyond(b, k)
  BY ChunkPlaces
<1> DEFINE Some(k) == \E p : Strings(p, seqs, k) /\ Answers(o, b, 1, Beyond(b, k), p[k])
           T == {i \in Nat : i + 1 <= l => Some(i + 1)}
<1>6. 0 \in T
  <2>1. 1 \in 1..l
    BY <1>2
  <2>2. Answers(o, b, 1, Beyond(b, 1), seqs[1])
    BY <1>3, <2>1
  <2>3. Strings(seqs, seqs, 1)
    BY DEF Strings
  <2>4. Some(1)
    BY <2>2, <2>3
  <2> QED BY <2>4
<1>7. ASSUME NEW i \in Nat, i \in T PROVE i + 1 \in T
  <2> HIDE DEF Some
  <2> SUFFICES ASSUME i + 2 <= l PROVE Some(i + 2)
    OBVIOUS
  <2>1. PICK k \in 2..l, j \in 1..l : k = i + 2 /\ j = i + 1 /\ j = k - 1 /\ k \in 1..l
    BY <1>2
  <2>2. PICK p : Strings(p, seqs, j) /\ Answers(o, b, 1, Beyond(b, j), p[j])
    <3>1. Some(j)
      BY <1>7, <2>1
    <3> QED BY <3>1 DEF Some
  <2>3. PICK q, last : q = [x \in 1..k |-> IF x = k THEN last ELSE p[x]] /\ last = p[j] \o seqs[k]
    OBVIOUS
  <2>4. q[k] = last /\ \A x \in 1..j : q[x] = p[x]
    <3>1. k \in 1..k /\ \A x \in 1..j : x \in 1..k /\ x # k
      BY <2>1
    <3> QED BY <2>3, <3>1
  <2>5. Strings(q, seqs, k)
    <3>1. q[1] = seqs[1]
      <4>1. 1 \in 1..j
        BY <2>1
      <4> QED BY <2>2, <2>4, <4>1 DEF Strings
    <3>2. ASSUME NEW x \in 2..k PROVE q[x] = q[x - 1] \o seqs[x]
      <4>1. CASE x = k
        <5>1. x - 1 = j /\ j \in 1..j
          BY <2>1, <4>1
        <5> QED BY <2>3, <2>4, <4>1, <5>1
      <4>2. CASE x # k
        <5>1. x \in 2..j /\ x \in 1..j /\ x - 1 \in 1..j
          BY <2>1, <4>2
        <5> QED BY <2>2, <2>4, <5>1 DEF Strings
      <4> QED BY <4>1, <4>2
    <3> QED BY <3>1, <3>2 DEF Strings
  <2>6. Answers(o, b, 1, Beyond(b, k), last)
    <3>1. PICK one \in Nat, m \in Nat, e \in Nat :
            one = 1 /\ m = Beyond(b, j) /\ m = First(b, k) /\ e = Beyond(b, k) /\ one <= m /\ m <= e
      <4>1. First(b, k) = Beyond(b, j)
        BY <1>4, <2>1
      <4>2. First(b, k) \in Nat \ {0} /\ Beyond(b, k) \in Nat /\ First(b, k) < Beyond(b, k)
        BY <1>5, <2>1
      <4>3. PICK m \in Nat \ {0}, e \in Nat : m = First(b, k) /\ e = Beyond(b, k) /\ m < e
        BY <4>2
      <4>4. 1 <= m /\ m <= e
        BY <4>3
      <4> QED BY ONLY <4>1, <4>3, <4>4
    <3>2. Answers(o, b, one, m, p[j]) /\ Answers(o, b, m, e, seqs[k])
      BY <2>1, <2>2, <3>1
    <3>3. Answers(o, b, one, e, p[j] \o seqs[k])
      BY <3>1, <3>2, MoreDocuments
    <3> QED BY <2>3, <3>1, <3>3
  <2>7. Some(k)
    BY <2>4, <2>5, <2>6 DEF Some
  <2> QED BY <2>1, <2>7
<1>8. Nat \subseteq T
  <2> HIDE DEF T
  <2> QED BY <1>6, <1>7, Numbers!Induct
<1>9. PICK p : Strings(p, seqs, l) /\ Answers(o, b, 1, Beyond(b, l), p[l])
  <2>1. PICK i \in Nat : l = i + 1
    <3>1. l - 1 \in Nat /\ l = (l - 1) + 1
      BY <1>2
    <3> QED BY <3>1
  <2>2. i \in T
    BY <1>8
  <2> QED BY <2>1, <2>2
<1>10. FlattenSeq(seqs) = p[l]
  BY <1>2, <1>9, Strung
<1> QED BY <1>1, <1>3, <1>9, <1>10

\* If no chunk holds a document that is rejected, none is.
LEMMA AllClean ==
  ASSUME NEW b \in Batches, b.docs # <<>>,
         \A k \in 1..Len(BatchChunks[b]) : Clean(b, First(b, k), Beyond(b, k))
  PROVE  \A i \in DOMAIN b.docs : ~Rejected(b.docs[i])
<1>1. PICK n, chunks, l : n = Len(b.docs) /\ chunks = BatchChunks[b] /\ l = Len(chunks)
  OBVIOUS
<1>2. n \in Nat \ {0} /\ Tiles(chunks, n + 1) /\ l \in Nat \ {0}
  BY <1>1, BatchTiles
<1>3. \A k \in 1..l : First(b, k) \in Nat \ {0} /\ Beyond(b, k) \in Nat /\ First(b, k) < Beyond(b, k)
  BY <1>1, ChunkPlaces
<1>4. Beyond(b, l) = n + 1 /\ First(b, 1) = 1 /\ \A k \in 1..(l - 1) : First(b, k + 1) = Beyond(b, k)
  <2>1. n + 1 = chunks[l][2] + 1
    BY <1>1, <1>2 DEF Tiles, Behind
  <2>2. chunks[1][1] = 1
    <3>1. 1 \in 1..l /\ 1 - 1 = 0
      BY <1>2
    <3> QED BY <1>1, <1>2, <3>1 DEF Tiles, Behind
  <2>3. ASSUME NEW k \in 1..(l - 1) PROVE First(b, k + 1) = Beyond(b, k)
    <3>1. PICK j \in 1..l : j = k + 1 /\ j - 1 = k /\ k # 0
      BY <1>2
    <3>2. chunks[j][1] = chunks[k][2] + 1
      BY <1>1, <1>2, <3>1 DEF Tiles, Behind
    <3> QED BY <1>1, <3>1, <3>2 DEF First, Beyond
  <2> QED BY <1>1, <2>1, <2>2, <2>3 DEF First, Beyond
<1> DEFINE T == {k \in Nat : k + 1 <= l => Clean(b, 1, Beyond(b, k + 1))}
<1>5. 0 \in T
  BY <1>1, <1>2, <1>4
<1>6. ASSUME NEW k \in Nat, k \in T PROVE k + 1 \in T
  <2> SUFFICES ASSUME k + 2 <= l PROVE Clean(b, 1, Beyond(b, k + 2))
    OBVIOUS
  <2>1. PICK j \in 1..(l - 1) : j = k + 1 /\ j + 1 = k + 2
    BY <1>2
  <2>2. j \in 1..l /\ j + 1 \in 1..l
    BY <1>2, <2>1
  <2>3. PICK m \in Nat, e \in Nat : m = Beyond(b, j) /\ m = First(b, j + 1) /\ e = Beyond(b, j + 1)
    BY <1>3, <1>4, <2>1, <2>2
  <2>4. Clean(b, 1, m) /\ Clean(b, m, e)
    BY <1>1, <1>6, <2>1, <2>2, <2>3
  <2>5. \A i \in 1..(e - 1) : i \in 1..(m - 1) \/ i \in m..(e - 1)
    OBVIOUS
  <2>6. Clean(b, 1, e)
    BY <2>4, <2>5 DEF Clean
  <2> QED BY <2>1, <2>3, <2>6
<1>7. Nat \subseteq T
  <2> HIDE DEF T
  <2> QED BY <1>5, <1>6, Numbers!Induct
<1>8. Clean(b, 1, n + 1)
  <2>1. PICK k \in Nat : l = k + 1
    <3>1. l - 1 \in Nat /\ l = (l - 1) + 1
      BY <1>2
    <3> QED BY <3>1
  <2>2. k \in T
    BY <1>7
  <2> QED BY <1>2, <1>4, <2>1, <2>2
<1>9. DOMAIN b.docs = 1..n /\ (n + 1) - 1 = n
  BY <1>1, <1>2, SurfaceBatchAssumption DEF Batch
<1> QED BY <1>8, <1>9 DEF Clean

-----------------------------------------------------------------------------
(***************************************************************************)
(* The batch returns what the stateless encoder promises.                  *)
(***************************************************************************)

\* The promise speaks of answers as this module does.
LEMMA SameAnswer ==
  ASSUME NEW o, NEW vocabs, NEW doc, NEW newline, NEW ids
  PROVE  Stateless!IsAnswer(o, vocabs, doc, newline, ids) <=> IsAnswer(o, vocabs, doc, newline, ids)
<1>1. ASSUME NEW mode, NEW d PROVE Stateless!UnitEnds(mode, d) = UnitEnds(mode, d)
  BY DEF Stateless!UnitEnds, UnitEnds, Stateless!Joined, Joined,
       Stateless!DecimalPoint, DecimalPoint, Stateless!InNumber, InNumber
<1>2. ASSUME NEW ends, NEW e PROVE Stateless!Before(ends, e) = Before(ends, e)
  BY DEF Stateless!Before, Before, Stateless!Max, Max
<1>3. ASSUME NEW mode, NEW d, NEW s, NEW e
      PROVE  Stateless!UnitsBetween(mode, d, s, e) = UnitsBetween(mode, d, s, e)
  BY <1>1, <1>2 DEF Stateless!UnitsBetween, UnitsBetween
<1>4. ASSUME NEW d PROVE Stateless!OpenUnits(d) = OpenUnits(d)
  BY <1>1 DEF Stateless!OpenUnits, OpenUnits
<1>5. ASSUME NEW d PROVE Stateless!ChunkEnds(d) = ChunkEnds(d)
  BY <1>1, <1>4 DEF Stateless!ChunkEnds, ChunkEnds
<1>6. Stateless!Ends(o.mode, doc) = Ends(o.mode, doc)
  BY <1>5 DEF Stateless!Ends, Ends
<1>7. ASSUME NEW units, NEW i PROVE Stateless!Bridges(o.mode, units, i) <=> Bridges(o.mode, units, i)
  BY <1>2 DEF Stateless!Bridges, Bridges
<1>8. ASSUME NEW v, NEW units PROVE Stateless!EncodeRange(o, v, units) = EncodeRange(o, v, units)
  BY <1>2, <1>7 DEF Stateless!EncodeRange, EncodeRange
<1>9. ASSUME NEW v, NEW d, NEW s, NEW e PROVE Stateless!RangeIds(o, v, d, s, e) = RangeIds(o, v, d, s, e)
  BY <1>3, <1>8 DEF Stateless!RangeIds, RangeIds
<1>10. ASSUME NEW v, NEW atoms PROVE Stateless!Readings(o, v, atoms) = Readings(o, v, atoms)
  <2>1. Stateless!RangeIds(o, v, atoms, 0, Len(atoms)) = RangeIds(o, v, atoms, 0, Len(atoms))
    BY <1>9
  <2>2. \A letters : Stateless!RangeIds(o, v, <<letters>> \o atoms, 1, Len(atoms) + 1)
                       = RangeIds(o, v, <<letters>> \o atoms, 1, Len(atoms) + 1)
    BY <1>9
  <2> HIDE DEF Stateless!RangeIds, RangeIds
  <2>3. ASSUME NEW group
        PROVE  group \in Stateless!Readings(o, v, atoms) <=> group \in Readings(o, v, atoms)
    BY <2>1, <2>2, ZenonT(60) DEF Stateless!Readings, Readings
  <2> QED BY <2>3
<1>11. ASSUME NEW d, NEW s, NEW e PROVE Stateless!Part(d, s, e) = Part(d, s, e)
  BY DEF Stateless!Part, Part
<1>12. Stateless!LineEnds(doc) = LineEnds(doc)
  BY DEF Stateless!LineEnds, LineEnds
<1>13. Stateless!LinesAlone(doc) <=> LinesAlone(doc)
  BY <1>2, <1>5, <1>11, <1>12 DEF Stateless!LinesAlone, LinesAlone
<1>14. Stateless!Cuts(o.mode, doc) = Cuts(o.mode, doc)
  BY <1>6, <1>12, <1>13 DEF Stateless!Cuts, Cuts
<1>15. ASSUME NEW atoms, NEW group
       PROVE  Stateless!IsReading(o, vocabs, atoms, group) <=> IsReading(o, vocabs, atoms, group)
  BY <1>10 DEF Stateless!IsReading, IsReading
<1> QED BY <1>2, <1>11, <1>14, <1>15 DEF Stateless!IsAnswer, IsAnswer

LEMMA SameRefused ==
  ASSUME NEW b
  PROVE  Stateless!Refused(b) <=>
           Len(b.docs) # Len(b.newlines) \/ \E i \in DOMAIN b.docs : Rejected(b.docs[i])
BY DEF Stateless!Refused, Stateless!Rejected, Rejected

\* What a batch is promised.
LEMMA Promised ==
  ASSUME NEW o, NEW b, NEW ids
  PROVE  /\ Stateless!Refused(b) /\ ids = Error => Stateless!IsAnswered(o, b, ids)
         /\ /\ ~Stateless!Refused(b) /\ ids = [i \in DOMAIN b.docs |-> ids[i]]
            /\ \A i \in DOMAIN b.docs : Answered(o, b, i, ids[i])
            => Stateless!IsAnswered(o, b, ids)
<1>1. Stateless!At(AddressOf[b.vocab]) = At(AddressOf[b.vocab])
  BY DEF Stateless!At, At
<1>2. ASSUME NEW i
      PROVE  Stateless!IsAnswer(o, Stateless!At(AddressOf[b.vocab]), b.docs[i], b.newlines[i], ids[i])
               <=> Answered(o, b, i, ids[i])
  BY <1>1, SameAnswer DEF Answered
<1> HIDE DEF Stateless!IsAnswer
<1> QED BY <1>2 DEF Stateless!IsAnswered

\* What the completed chunks make when no worker failed.
LEMMA Together ==
  ASSUME IInv, Deliveries, batch # Idle, \A w \in Worker : work[w].pc \in {"off", "ended"}
  PROVE  /\ Answers(options, batch, 1, Len(batch.docs) + 1, Concatenated)
         /\ \A i \in DOMAIN batch.docs : ~Rejected(batch.docs[i])
<1> DEFINE completed == UNION {Range(work[w].completed) : w \in Worker}
           NotBehind(c) == {d \in completed : d.chunk <= c.chunk}
           sorted == [i \in 1..Cardinality(completed) |->
                       CHOOSE c \in completed : Cardinality(NotBehind(c)) = i]
           strung == [i \in DOMAIN sorted |-> sorted[i].output]
<1>1. Concatenated = FlattenSeq(strung)
  BY DEF Concatenated
<1>2. batch \in Batches /\ batch.docs # <<>>
  BY DEF IInv, TypeOK, Deliveries, InProgress
<1>3. PICK l \in Nat : l = Len(BatchChunks[batch])
  BY <1>2, ChunksInBatch
<1>4. PICK c : c = completed
  OBVIOUS
<1>5. PICK e : e = Entries(c, l)
  OBVIOUS
<1>6. /\ c = FirstOf(e, l)
      /\ \A k \in 1..l : e[k].chunk = k /\ Encoded(options, batch, e[k])
  <2>1. c = Completed
    BY <1>4 DEF Completed
  <2> HIDE DEF completed
  <2> QED BY <1>3, <1>5, <2>1, AllEncoded
<1>7. Cardinality(c) = l
  BY <1>6, FirstCounted
<1>8. ASSUME NEW i \in 1..l
      PROVE  Nth(c, i) = e[i]
  <2>1. c = FirstOf(e, l) /\ Numbered(e, l)
    BY <1>6 DEF Numbered
  <2> QED BY <2>1, EntriesSorted
<1>9. sorted = [i \in 1..l |-> Nth(c, i)]
  <2> HIDE DEF completed
  <2> QED BY <1>4, <1>7 DEF Nth
<1> HIDE DEF sorted
<1>10. DOMAIN sorted = 1..l /\ \A i \in 1..l : sorted[i] = e[i]
  BY <1>8, <1>9
<1>11. strung = [k \in 1..l |-> e[k].output]
  BY <1>10
<1> HIDE DEF strung
<1>12. Len(strung) = l
  BY <1>11
<1>13. \A k \in 1..l : Answers(options, batch, First(batch, k), Beyond(batch, k), strung[k])
  BY <1>6, <1>11 DEF Encoded
<1>14. Answers(options, batch, 1, Len(batch.docs) + 1, FlattenSeq(strung))
  BY <1>2, <1>3, <1>12, <1>13, ChunksTogether
<1>15. \A k \in 1..l : Clean(batch, First(batch, k), Beyond(batch, k))
  BY <1>6 DEF Encoded
<1> QED BY <1>1, <1>2, <1>3, <1>14, <1>15, AllClean

LEMMA JoinReturns ==
  ASSUME IInv, Deliveries, Join
  PROVE  Stateless!IsAnswered(options, batch, result')
<1>1. PICK o, b, ids : o = options /\ b = batch /\ ids = result'
  OBVIOUS
<1>2. b \in Batches /\ InProgress(o, b, next)
  BY <1>1 DEF Join, IInv, TypeOK, Deliveries
<1>3. CASE \E w \in Worker : work[w].pc = "failed"
  <2>1. \E i \in DOMAIN b.docs : Rejected(b.docs[i])
    BY <1>2, <1>3 DEF InProgress, Delivers
  <2>2. ids = Error
    BY <1>1, <1>3 DEF Join
  <2>3. Stateless!IsAnswered(o, b, ids)
    BY <2>1, <2>2, SameRefused, Promised
  <2> QED BY <1>1, <2>3
<1>4. CASE ~\E w \in Worker : work[w].pc = "failed"
  <2>1. batch # Idle /\ ids = Concatenated /\ \A w \in Worker : work[w].pc \in {"off", "ended"}
    BY <1>1, <1>4 DEF Join
  <2>2. Answers(o, b, 1, Len(b.docs) + 1, ids) /\ \A i \in DOMAIN b.docs : ~Rejected(b.docs[i])
    BY <1>1, <2>1, Together
  <2>3. ~Stateless!Refused(b)
    BY <1>2, <2>2, SameRefused DEF InProgress
  <2>4. PICK n \in Nat : n = Len(b.docs) /\ DOMAIN b.docs = 1..n
    BY <1>2, SurfaceBatchAssumption, SMTT(30) DEF Batch
  <2>5. (n + 1) - 1 = n /\ \A i \in 1..n : 1 + i - 1 = i
    OBVIOUS
  <2>6. IsList(ids) /\ Len(ids) = n /\ \A i \in 1..n : Answered(o, b, i, ids[i])
    BY <2>2, <2>4, <2>5 DEF Answers
  <2>7. ids = [i \in DOMAIN b.docs |-> ids[i]]
    <3>1. PICK S : ids \in Seq(S)
      BY <2>6 DEF IsList
    <3>2. ids = [i \in 1..Len(ids) |-> ids[i]]
      BY <3>1
    <3> QED BY <2>4, <2>6, <3>2
  <2>8. Stateless!IsAnswered(o, b, ids)
    BY <2>3, <2>4, <2>6, <2>7, Promised
  <2> QED BY <1>1, <2>8
<1> QED BY <1>3, <1>4

LEMMA StepRefines == IInv /\ Deliveries /\ [Next]_vars => [Stateless!Next]_(Stateless!vars)
<1> SUFFICES ASSUME IInv, Deliveries, [Next]_vars
             PROVE  Stateless!Next \/ UNCHANGED <<options, batch, result>>
  BY DEF Stateless!vars
<1>1. CASE UNCHANGED vars
  BY <1>1 DEF vars
<1>2. ASSUME NEW b \in Batches, Begin(b) PROVE Stateless!Next
  BY <1>2 DEF Begin, Stateless!Next, Stateless!Begin
<1>3. ASSUME NEW b \in Batches, RefuseLengths(b) \/ EncodeNothing(b) PROVE Stateless!Next
  <2>1. PICK o, ids : o = options /\ ids = result'
    OBVIOUS
  <2>2. Stateless!IsAnswered(o, b, ids)
    <3>1. CASE RefuseLengths(b)
      <4>1. Len(b.docs) # Len(b.newlines) /\ ids = Error
        BY <2>1, <3>1 DEF RefuseLengths
      <4> QED BY <4>1, SameRefused, Promised
    <3>2. CASE EncodeNothing(b)
      <4>1. b.docs = <<>> /\ b.newlines = <<>> /\ ids = <<>>
        BY <2>1, <3>2 DEF EncodeNothing
      <4>2. DOMAIN b.docs = {} /\ Len(b.docs) = Len(b.newlines)
        BY <4>1
      <4>3. ids = [i \in DOMAIN b.docs |-> ids[i]]
        BY <4>1
      <4>4. ~Stateless!Refused(b)
        BY <4>2, SameRefused
      <4> QED BY <4>2, <4>3, <4>4, Promised
    <3> QED BY <1>3, <3>1, <3>2
  <2>3. batch = Idle /\ UNCHANGED <<options, batch>>
    BY <1>3 DEF RefuseLengths, EncodeNothing
  <2> HIDE DEF Stateless!IsAnswered
  <2> QED BY <2>1, <2>2, <2>3 DEF Stateless!Next, Stateless!Answer
<1>4. CASE Clear
  BY <1>4 DEF Clear
<1>5. ASSUME NEW w \in Worker, Step(w) PROVE UNCHANGED <<options, batch, result>>
  BY <1>5 DEF Step, Claim, NoChunkLeft, ChunkDone, DocumentHit, DocumentMiss, LinesHit, LinesMiss,
              ChunkHit, EncodeUnits, EncodeFails, FinishDocument
<1>6. CASE Join
  <2>1. Stateless!IsAnswered(options, batch, result')
    BY <1>6, JoinReturns
  <2> QED BY <1>6, <2>1 DEF Join, Stateless!Next, Stateless!Return
<1> QED BY <1>1, <1>2, <1>3, <1>4, <1>5, <1>6 DEF Next

\* encode_flat_surface_batch_with_caches returns ids of its documents in their
\* order, each an answer of the stateless encoder, or an error when one of them
\* is rejected: neither the programs kept from earlier batches nor the workers'
\* interleaving nor the cut into chunks is visible to the caller otherwise.
THEOREM Refinement == Spec => ImplementsStateless
<1>1. Init => Stateless!Init
  BY DEF Init, Stateless!Init
<1>2. IInv /\ Contents /\ [Next]_vars => Contents'
  BY StepContents
<1>3. IInv /\ Contents /\ Deliveries /\ [Next]_vars => Deliveries'
  BY StepDeliveries
<1>4. Spec => [](IInv /\ Contents /\ Deliveries)
  BY <1>2, <1>3, InitContents, InitDeliveries, Invariant, PTL DEF Spec
<1> QED BY <1>1, <1>4, StepRefines, PTL DEF Spec, ImplementsStateless, Stateless!Spec
=============================================================================
