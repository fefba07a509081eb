------------------------ MODULE DisambiguationProofs ------------------------
(***************************************************************************)
(* Proofs about Disambiguation, for every model of weights, every lexicon, *)
(* every number of workers and every limit of the tables: what a worker    *)
(* retains between calls is what it would compute anew, and causal choices *)
(* look at nothing behind them.                                            *)
(***************************************************************************)
EXTENDS Disambiguation, SequenceTheorems, FiniteSetTheorems, TLAPS

\* Induction over sets of numbers, of which analyses need no words.
Numbers == INSTANCE LexicalProofs WITH CodeWords <- {}

-----------------------------------------------------------------------------
(***************************************************************************)
(* The inductive invariant.                                                *)
(***************************************************************************)

\* What there is to be kept.
Known == AllData \cup ToSet(Base)
Slots == {<<>>} \cup {<<PreparedWord(d)>> : d \in Known}
Banks == Seq(Slots)
Pair == [1..2 -> Int]
Triple == [1..3 -> Int]
Entries == [third : Int, score : Int, next : Nat]
Spills == [key : Triple, score : Int, next : Nat]
Rows == [inline : Seq(Entries), overflows : BOOLEAN]
Tables == [pairs : Seq(Pair), rows : Seq(Rows), overflow : Seq(Spills)]
Caches == [base : Seq(ToSet(Base)), delta : Seq(AllData), table : Tables, local : Banks, shared : Banks]

\* A signature that may stand in a key, and what is retained for one.
Stands(c, s) ==
  /\ s \in 0..(Len(Signatures(c)) - 1) \cup {BeginSignature, EndSignature}
  /\ DataOf(c, s) \in AllData

RightFor(c, x, y, z, e) ==
  /\ Stands(c, x) /\ Stands(c, y) /\ Stands(c, z)
  /\ e.score = TrigramScore(DataOf(c, x), DataOf(c, y), DataOf(c, z))
  /\ e.next \in 0..Len(c.table.pairs)
  /\ e.next # NoRow => c.table.pairs[e.next][1] = y /\ c.table.pairs[e.next][2] = z

RowsRight(c) ==
  \A r \in DOMAIN c.table.rows : \A i \in DOMAIN c.table.rows[r].inline :
    RightFor(c, c.table.pairs[r][1], c.table.pairs[r][2], c.table.rows[r].inline[i].third, c.table.rows[r].inline[i])

SpillsRight(c) ==
  \A i \in DOMAIN c.table.overflow :
    RightFor(c, c.table.overflow[i].key[1], c.table.overflow[i].key[2], c.table.overflow[i].key[3], c.table.overflow[i])

TableFits(table) ==
  /\ Len(table.rows) = Len(table.pairs)
  /\ Len(table.rows) <= RowCapacity
  /\ Len(table.overflow) <= OverflowEntries
  /\ \A r \in DOMAIN table.rows : Len(table.rows[r].inline) <= InlineTransitions

SharedHolds(c) ==
  /\ Len(c.shared) = Len(c.base)
  /\ \A i \in DOMAIN c.shared : c.shared[i] # <<>> => c.shared[i] = <<PreparedWord(c.base[i])>>

LocalHolds(c) ==
  \A i \in DOMAIN c.local : c.local[i] # <<>> => i \in DOMAIN c.delta /\ c.local[i] = <<PreparedWord(c.delta[i])>>

Good(c) ==
  /\ c \in Caches
  /\ TableFits(c.table) /\ RowsRight(c) /\ SpillsRight(c)
  /\ SharedHolds(c) /\ LocalHolds(c)

\* A call in progress.
Words == DOMAIN WordData \cup {Unknown}
Hypotheses == [path : Seq(Nat), row : Nat, score : Int]

Follows(c, sentence, done, h) ==
  /\ h \in Hypotheses
  /\ Len(h.path) = done
  /\ \A i \in 1..done : h.path[i] \in 1..Len(sentence[i])
  /\ h.row \in 0..Len(c.table.pairs)
  /\ h.row # NoRow =>
       /\ c.table.pairs[h.row][1] = Signature(c, LastTwo(sentence, h.path)[1])
       /\ c.table.pairs[h.row][2] = Signature(c, LastTwo(sentence, h.path)[2])

Interned(c, sentence) ==
  \A i \in DOMAIN sentence : \A k \in DOMAIN sentence[i] : Data(sentence[i][k]) \in ToSet(Signatures(c))

CallRecords ==
  [call : Viterbi \cup Causal, asked : Seq(Seq(Words)), sentence : Seq(Seq(Words)),
   decoder : {"hash", "dense", "causal"}, done : Nat, active : Seq(Hypotheses)]

UnderWay(c, k) ==
  /\ k \in CallRecords
  /\ <<k.call, k.asked>> \in Requests
  /\ \A i \in DOMAIN k.sentence : k.sentence[i] # <<>>
  /\ k.done <= Len(k.sentence)
  /\ \A i \in DOMAIN k.active : Follows(c, k.sentence, k.done, k.active[i])
  /\ k.call \in Scored => Interned(c, k.sentence)
  /\ k.decoder = "causal" => Len(k.active) = 1 /\ k.active[1].row = NoRow

Owned == [delta : Seq(AllData), table : Tables, local : Banks]

IInv ==
  /\ base \in {<<>>, Base} /\ forced \in BOOLEAN /\ budget \in 0..MaxCalls
  /\ shared \in Banks /\ SharedHolds([base |-> base, shared |-> shared])
  /\ caches \in [Workers -> Owned]
  /\ \A w \in Workers : Good(CacheOf(w))
  /\ calls \in [Workers -> {Idle} \cup CallRecords]
  /\ \A w \in Workers : calls[w] # Idle => UnderWay(CacheOf(w), calls[w])

-----------------------------------------------------------------------------
(***************************************************************************)
(* Signatures.                                                             *)
(***************************************************************************)

LEMMA LeastOf ==
  ASSUME NEW I \in SUBSET Nat, I # {}
  PROVE  Min(I) \in I
<1>1. \E x \in I : \A y \in I : x <= y
  BY Numbers!Least
<1> QED BY <1>1 DEF Min

LEMMA Length == ASSUME NEW U, NEW q \in Seq(U) PROVE Len(q) \in Nat
OBVIOUS

LEMMA DataKnown == ASSUME NEW word \in Words \cup {Begin, End} PROVE Data(word) \in AllData
BY DEF Words, Data, AllData

LEMMA SignaturesListed ==
  ASSUME NEW c \in Caches
  PROVE  /\ Signatures(c) \in Seq(Known)
         /\ Len(Signatures(c)) = Len(c.base) + Len(c.delta)
         /\ \A i \in DOMAIN c.base : Signatures(c)[i] = c.base[i]
         /\ \A i \in DOMAIN c.delta : Signatures(c)[Len(c.base) + i] = c.delta[i]
<1>1. PICK b, d : b = c.base /\ d = c.delta
  OBVIOUS
<1>2. b \in Seq(Known) /\ d \in Seq(Known)
  BY <1>1 DEF Caches, Known
<1>3. /\ b \o d \in Seq(Known) /\ Len(b \o d) = Len(b) + Len(d)
      /\ \A i \in 1..(Len(b) + Len(d)) : (b \o d)[i] = IF i <= Len(b) THEN b[i] ELSE d[i - Len(b)]
  BY <1>2, ConcatProperties
<1>4. \A i \in DOMAIN d : (b \o d)[Len(b) + i] = d[i]
  BY <1>2, <1>3
<1>5. \A i \in DOMAIN b : (b \o d)[i] = b[i]
  BY <1>2, <1>3
<1> QED BY <1>1, <1>3, <1>4, <1>5 DEF Signatures

\* The signature of what is interned is that of the same data.
LEMMA SignatureFound ==
  ASSUME NEW c \in Caches, NEW data, data \in ToSet(Signatures(c))
  PROVE  /\ SignatureOf(c, data) \in 0..(Len(Signatures(c)) - 1)
         /\ Signatures(c)[SignatureOf(c, data) + 1] = data
<1>1. PICK s : s = Signatures(c)
  OBVIOUS
<1>2. s \in Seq(Known) /\ data \in ToSet(s)
  BY <1>1, SignaturesListed
<1>3. PICK I : I = {i \in 1..Len(s) : s[i] = data}
  OBVIOUS
<1>4. I \in SUBSET Nat /\ I # {}
  BY <1>2, <1>3 DEF ToSet
<1>5. Min(I) \in I
  BY <1>4, LeastOf
<1>6. SignatureOf(c, data) = Min(I) - 1
  BY <1>1, <1>3, <1>4 DEF SignatureOf, SelectInSeq
<1> QED BY <1>1, <1>2, <1>3, <1>5, <1>6

\* What no signature is given for.
LEMMA SignatureRange ==
  ASSUME NEW c \in Caches, NEW data
  PROVE  SignatureOf(c, data) \in Int
<1>1. PICK s : s = Signatures(c)
  OBVIOUS
<1>2. s \in Seq(Known)
  BY <1>1, SignaturesListed
<1>3. PICK I : I = {i \in 1..Len(s) : s[i] = data}
  OBVIOUS
<1>4. I \in SUBSET Nat
  BY <1>2, <1>3
<1>5. I # {} => Min(I) \in Nat
  BY <1>4, LeastOf
<1>6. SignatureOf(c, data) = (IF I # {} THEN Min(I) ELSE 0) - 1
  BY <1>1, <1>3 DEF SignatureOf, SelectInSeq
<1> QED BY <1>5, <1>6

\* Of a word of the sentence or a boundary, with the data it stands for.
Placed(c, word, data) ==
  /\ data \in AllData
  /\ \/ word \in {Begin, End} /\ data = Boundary
     \/ /\ word \notin {Begin, End}
        /\ SignatureOf(c, data) \in 0..(Len(Signatures(c)) - 1)
        /\ Signatures(c)[SignatureOf(c, data) + 1] = data

LEMMA WordPlaced ==
  ASSUME NEW c \in Caches, NEW word \in Words \cup {Begin, End},
         word \in {Begin, End} \/ Data(word) \in ToSet(Signatures(c))
  PROVE  Placed(c, word, Data(word))
<1>1. Data(word) \in AllData
  BY DataKnown
<1>2. CASE word \in {Begin, End}
  BY <1>1, <1>2 DEF Placed, Data
<1>3. CASE word \notin {Begin, End}
  BY <1>1, <1>3, SignatureFound DEF Placed
<1> QED BY <1>2, <1>3

LEMMA SignatureNumber ==
  ASSUME NEW c \in Caches, NEW word
  PROVE  Signature(c, word) \in Int
<1>1. EndSignature \in Nat
  BY LimitsFit
<1> QED BY <1>1, SignatureRange DEF Signature, BeginSignature

\* A signature below EndSignature, or of a boundary, stands for its data.
LEMMA SignatureStands ==
  ASSUME NEW c \in Caches, NEW word, NEW data, Placed(c, word, data), data = Data(word),
         IsWord(word) => Signature(c, word) < EndSignature
  PROVE  Stands(c, Signature(c, word)) /\ DataOf(c, Signature(c, word)) = data
<1>1. EndSignature \in Nat /\ Boundary \in AllData
  BY LimitsFit DEF AllData, Data
<1>2. CASE word \in {Begin, End}
  <2>1. Signature(c, word) \in {BeginSignature, EndSignature}
    BY <1>2 DEF Signature
  <2> QED BY <1>1, <1>2, <2>1 DEF Stands, DataOf, Data
<1>3. CASE word \notin {Begin, End}
  <2>1. Signature(c, word) = SignatureOf(c, data)
    BY <1>3 DEF Signature
  <2>2. SignatureOf(c, data) < EndSignature /\ SignatureOf(c, data) \in Int
    BY <1>3, <2>1, SignatureRange DEF IsWord
  <2>3. SignatureOf(c, data) \notin {BeginSignature, EndSignature}
    BY <1>1, <2>2 DEF BeginSignature
  <2> QED BY <1>3, <2>1, <2>3 DEF Stands, DataOf, Placed
<1> QED BY <1>2, <1>3

-----------------------------------------------------------------------------
(***************************************************************************)
(* Prepared words.                                                         *)
(***************************************************************************)

\* The place is one of the data's, and holds it.
Fits(c, p, data) ==
  \/ p.bank = "none"
  \/ p.bank = "shared" /\ p.at \in DOMAIN c.base /\ c.base[p.at] = data
  \/ p.bank = "local" /\ p.at \in DOMAIN c.delta /\ c.delta[p.at] = data

Filled(c, p, data) ==
  /\ Fits(c, p, data)
  /\ p.bank = "shared" => c.shared[p.at] = <<PreparedWord(data)>>
  /\ p.bank = "local" => p.at \in DOMAIN c.local /\ c.local[p.at] = <<PreparedWord(data)>>

LEMMA PlaceFits ==
  ASSUME NEW c \in Caches, NEW word, NEW data, Placed(c, word, data), data = Data(word)
  PROVE  Fits(c, Place(c, Signature(c, word)), data)
<1>1. EndSignature \in Nat /\ BankLimit \in Nat /\ BankLimit < EndSignature
  BY LimitsFit
<1>2. CASE word \in {Begin, End}
  <2>1. Signature(c, word) > BankLimit
    BY <1>1, <1>2 DEF Signature, BeginSignature
  <2>2. Place(c, Signature(c, word)) = [bank |-> "none", at |-> 0]
    BY <1>1, <2>1, SignatureNumber DEF Place
  <2> QED BY <2>2 DEF Fits
<1>3. CASE word \notin {Begin, End}
  <2>1. PICK s : s = Signature(c, word)
    OBVIOUS
  <2>2. s \in 0..(Len(Signatures(c)) - 1) /\ Signatures(c)[s + 1] = data
    BY <1>3, <2>1 DEF Signature, Placed
  <2>3. PICK b, d : b = c.base /\ d = c.delta
    OBVIOUS
  <2>4. b \in Seq(ToSet(Base)) /\ d \in Seq(AllData)
    BY <2>3 DEF Caches
  <2>5. /\ Len(Signatures(c)) = Len(b) + Len(d)
        /\ \A i \in DOMAIN b : Signatures(c)[i] = b[i]
        /\ \A i \in DOMAIN d : Signatures(c)[Len(b) + i] = d[i]
    BY <2>3, SignaturesListed
  <2>6. Len(b) \in Nat /\ Len(d) \in Nat /\ DOMAIN b = 1..Len(b) /\ DOMAIN d = 1..Len(d) /\ s \in 0..(Len(b) + Len(d) - 1)
    BY <2>2, <2>4, <2>5
  <2>7. CASE s > BankLimit
    <3>1. Place(c, s) = [bank |-> "none", at |-> 0]
      BY <1>1, <2>6, <2>7 DEF Place
    <3> QED BY <2>1, <3>1 DEF Fits
  <2>8. CASE s <= BankLimit /\ s < Len(b)
    <3>1. s + 1 \in DOMAIN b
      BY <2>6, <2>8
    <3>2. b[s + 1] = data
      BY <2>2, <2>5, <3>1
    <3>3. Place(c, s) = [bank |-> "shared", at |-> s + 1]
      BY <1>1, <2>3, <2>6, <2>8 DEF Place
    <3> QED BY <2>1, <2>3, <3>1, <3>2, <3>3 DEF Fits
  <2>9. CASE s <= BankLimit /\ ~(s < Len(b))
    <3>1. PICK i : i = s - Len(b) + 1
      OBVIOUS
    <3>2. i \in DOMAIN d /\ Len(b) + i = s + 1
      BY <2>6, <2>9, <3>1
    <3>3. d[i] = data
      BY <2>2, <2>5, <3>2
    <3>4. Place(c, s) = [bank |-> "local", at |-> i]
      BY <1>1, <2>3, <2>6, <2>9, <3>1 DEF Place
    <3> QED BY <2>1, <2>3, <3>2, <3>3, <3>4 DEF Fits
  <2> QED BY <1>1, <2>6, <2>7, <2>8, <2>9
<1> QED BY <1>2, <1>3

LEMMA GrownBank ==
  ASSUME NEW bank \in Banks, NEW at \in Nat \ {0}
  PROVE  /\ Grown(bank, at) \in Banks
         /\ at \in DOMAIN Grown(bank, at) /\ DOMAIN bank \subseteq DOMAIN Grown(bank, at)
         /\ \A i \in DOMAIN Grown(bank, at) : Grown(bank, at)[i] = IF i \in DOMAIN bank THEN bank[i] ELSE <<>>
<1>0. bank \in Seq(Slots) /\ Len(bank) \in Nat
  BY DEF Banks
<1>1. PICK n : n = (IF at > Len(bank) THEN at - Len(bank) ELSE 0)
  OBVIOUS
<1>a. n \in Nat
  BY <1>0, <1>1
<1>2. PICK more : more = [k \in 1..n |-> <<>>]
  OBVIOUS
<1>3. more \in Seq(Slots) /\ Len(more) = n
  BY <1>2, <1>a DEF Slots
<1>4. Grown(bank, at) = bank \o more
  BY <1>1, <1>2 DEF Grown
<1>5. /\ bank \o more \in Seq(Slots) /\ Len(bank \o more) = Len(bank) + Len(more)
      /\ \A i \in 1..(Len(bank) + Len(more)) : (bank \o more)[i] = IF i <= Len(bank) THEN bank[i] ELSE more[i - Len(bank)]
  BY <1>3, ConcatProperties DEF Banks
<1>6. PICK l \in Nat : l = Len(bank) /\ DOMAIN bank = 1..l
  BY DEF Banks
<1>7. DOMAIN (bank \o more) = 1..(l + n) /\ at \in 1..(l + n)
  BY <1>1, <1>a, <1>3, <1>5, <1>6
<1>8. \A i \in 1..(l + n) : i \notin 1..l => (bank \o more)[i] = <<>>
  <2> SUFFICES ASSUME NEW i \in 1..(l + n), i \notin 1..l PROVE (bank \o more)[i] = <<>>
    OBVIOUS
  <2>1. ~(i <= l) /\ i - l \in 1..n
    BY <1>a, <1>6
  <2>2. (bank \o more)[i] = more[i - l]
    BY <1>3, <1>5, <1>6, <2>1
  <2> QED BY <1>2, <2>1, <2>2
<1>9. \A i \in 1..l : (bank \o more)[i] = bank[i]
  BY <1>a, <1>3, <1>5, <1>6
<1>10. \A i \in 1..(l + n) : (bank \o more)[i] = IF i \in DOMAIN bank THEN bank[i] ELSE <<>>
  BY <1>6, <1>8, <1>9
<1>11. DOMAIN bank \subseteq 1..(l + n)
  BY <1>a, <1>6
<1> QED BY <1>4, <1>5, <1>7, <1>10, <1>11 DEF Banks

\* What stays when words are prepared.
Preparing(c, d) == d.base = c.base /\ d.delta = c.delta /\ d.table = c.table

LEMMA PreparingKeeps ==
  ASSUME NEW c, Good(c), NEW d \in Caches, Preparing(c, d), SharedHolds(d), LocalHolds(d)
  PROVE  Good(d)
<1>1. TableFits(d.table)
  BY DEF Preparing, Good
<1>2. \A s : Stands(c, s) <=> Stands(d, s)
  BY DEF Stands, Preparing, DataOf, Signatures
<1>3. \A s : DataOf(c, s) = DataOf(d, s)
  BY DEF Preparing, DataOf, Signatures
<1>4. \A x, y, z, e : RightFor(c, x, y, z, e) => RightFor(d, x, y, z, e)
  BY <1>2, <1>3 DEF RightFor, Preparing
<1>5. RowsRight(d)
  BY <1>4 DEF RowsRight, Preparing, Good
<1>6. SpillsRight(d)
  BY <1>4 DEF SpillsRight, Preparing, Good
<1> QED BY <1>1, <1>5, <1>6 DEF Good

\* The shared bank and the worker's own gain the word and lose none.
LEMMA EnsureShared ==
  ASSUME NEW c, Good(c), NEW at \in DOMAIN c.base, NEW data \in AllData, c.base[at] = data,
         NEW sh, DOMAIN sh = DOMAIN c.shared, sh \in Seq(Slots), Len(sh) = Len(c.shared),
         \A i \in DOMAIN sh : sh[i] = IF i = at THEN <<PreparedWord(data)>> ELSE c.shared[i],
         NEW d, d = [base |-> c.base, delta |-> c.delta, table |-> c.table, local |-> c.local, shared |-> sh]
  PROVE  /\ Good(d) /\ Preparing(c, d) /\ d.local = c.local
         /\ d.shared[at] = <<PreparedWord(data)>>
         /\ \A i \in DOMAIN c.base : c.shared[i] # <<>> => d.shared[i] = c.shared[i]
<1>1. c \in Caches /\ SharedHolds(c) /\ LocalHolds(c)
  BY DEF Good
<1>2. c.shared \in Seq(Slots) /\ DOMAIN c.shared = DOMAIN c.base
  BY <1>1 DEF Caches, Banks, SharedHolds
<1>5. d \in Caches
  BY <1>1 DEF Caches, Banks
<1>6. Preparing(c, d)
  BY DEF Preparing
<1>7. SharedHolds(d)
  BY <1>1, <1>2 DEF SharedHolds
<1>8. LocalHolds(d)
  BY <1>1 DEF LocalHolds
<1>9. Good(d)
  BY <1>5, <1>6, <1>7, <1>8, PreparingKeeps
<1>10. \A i \in DOMAIN c.base : c.shared[i] # <<>> => sh[i] = c.shared[i]
  BY <1>1, <1>2 DEF SharedHolds
<1> QED BY <1>2, <1>6, <1>9, <1>10

LEMMA EnsureLocal ==
  ASSUME NEW c, Good(c), NEW at \in DOMAIN c.delta, NEW data \in AllData, c.delta[at] = data,
         NEW lo, lo = Replace(Grown(c.local, at), at, <<PreparedWord(data)>>),
         NEW d, d = [base |-> c.base, delta |-> c.delta, table |-> c.table, local |-> lo, shared |-> c.shared]
  PROVE  /\ Good(d) /\ Preparing(c, d) /\ d.shared = c.shared
         /\ at \in DOMAIN d.local /\ d.local[at] = <<PreparedWord(data)>>
         /\ \A i \in DOMAIN c.local : c.local[i] # <<>> => i \in DOMAIN d.local /\ d.local[i] = c.local[i]
<1>1. PICK g : g = Grown(c.local, at)
  OBVIOUS
<1>3. c \in Caches /\ SharedHolds(c) /\ LocalHolds(c)
  BY DEF Good
<1>5. at \in Nat \ {0}
  BY <1>3 DEF Caches
<1>6. /\ g \in Banks /\ at \in DOMAIN g /\ DOMAIN c.local \subseteq DOMAIN g
      /\ \A i \in DOMAIN g : g[i] = IF i \in DOMAIN c.local THEN c.local[i] ELSE <<>>
  BY <1>1, <1>3, <1>5, GrownBank DEF Caches
<1>7. <<PreparedWord(data)>> \in Slots
  BY DEF Slots, Known
<1>8. DOMAIN lo = DOMAIN g /\ \A i \in DOMAIN g : lo[i] = IF i = at THEN <<PreparedWord(data)>> ELSE g[i]
  BY <1>1 DEF Replace
<1>9. lo \in Banks
  BY <1>1, <1>6, <1>7, SMTT(60) DEF Banks, Replace
<1>10. d \in Caches /\ Preparing(c, d)
  BY <1>3, <1>9 DEF Caches, Preparing
<1>11. SharedHolds(d)
  BY <1>3 DEF SharedHolds
<1>12. LocalHolds(d)
  <2> SUFFICES ASSUME NEW i \in DOMAIN lo, lo[i] # <<>>
               PROVE  i \in DOMAIN c.delta /\ lo[i] = <<PreparedWord(c.delta[i])>>
    BY DEF LocalHolds
  <2>1. CASE i = at
    BY <1>8, <2>1
  <2>2. CASE i # at
    BY <1>3, <1>6, <1>8, <2>2 DEF LocalHolds
  <2> QED BY <2>1, <2>2
<1>13. Good(d)
  BY <1>10, <1>11, <1>12, PreparingKeeps
<1>14. \A i \in DOMAIN c.local : c.local[i] # <<>> => i \in DOMAIN lo /\ lo[i] = c.local[i]
  BY <1>3, <1>6, <1>8 DEF LocalHolds
<1> QED BY <1>6, <1>8, <1>10, <1>13, <1>14

\* What a cache has filled it keeps.
LEMMA EnsuredShared ==
  ASSUME NEW c, Good(c), NEW p, NEW data \in AllData, Fits(c, p, data), NEW d, d = Ensure(c, p, data),
         p.bank = "shared", c.shared[p.at] = <<>>
  PROVE  /\ Good(d) /\ Preparing(c, d) /\ Filled(d, p, data)
         /\ \A q, other : Filled(c, q, other) => Filled(d, q, other)
<1>1. PICK at, sh : at = p.at /\ sh = [c.shared EXCEPT ![at] = <<PreparedWord(data)>>]
  OBVIOUS
<1>2. c \in Caches
  BY DEF Good
<1>3. d = [c EXCEPT !.shared[at] = <<PreparedWord(data)>>]
  BY <1>1 DEF Ensure
<1>4. d = [base |-> c.base, delta |-> c.delta, table |-> c.table, local |-> c.local, shared |-> sh]
  BY <1>1, <1>2, <1>3 DEF Caches
<1>5. at \in DOMAIN c.base /\ c.base[at] = data
  BY <1>1 DEF Fits
<1>6. /\ Good(d) /\ Preparing(c, d) /\ d.local = c.local
      /\ d.shared[at] = <<PreparedWord(data)>>
      /\ \A i \in DOMAIN c.base : c.shared[i] # <<>> => d.shared[i] = c.shared[i]
  <2>1. c.shared \in Seq(Slots) /\ DOMAIN c.shared = DOMAIN c.base /\ <<PreparedWord(data)>> \in Slots
    BY <1>2 DEF Good, Caches, Banks, SharedHolds, Slots, Known
  <2>2. sh \in Seq(Slots) /\ Len(sh) = Len(c.shared) /\ DOMAIN sh = DOMAIN c.shared
    <3>1. at \in 1..Len(c.shared)
      BY <1>5, <2>1
    <3> QED BY <1>1, <2>1, <3>1, ExceptSeq
  <2>3. \A i \in DOMAIN sh : sh[i] = IF i = at THEN <<PreparedWord(data)>> ELSE c.shared[i]
    BY <1>1, <2>2
  <2> QED BY <1>4, <1>5, <2>2, <2>3, EnsureShared
<1>7. Filled(d, p, data)
  BY <1>1, <1>5, <1>6 DEF Filled, Fits, Preparing
<1>8. ASSUME NEW q, NEW other, Filled(c, q, other) PROVE Filled(d, q, other)
  <2>1. Fits(d, q, other)
    BY <1>6, <1>8 DEF Filled, Fits, Preparing
  <2>2. ASSUME q.bank = "shared" PROVE d.shared[q.at] = <<PreparedWord(other)>>
    <3>1. q.at \in DOMAIN c.base /\ c.shared[q.at] = <<PreparedWord(other)>>
      BY <1>8, <2>2 DEF Filled, Fits
    <3>2. <<PreparedWord(other)>> # <<>>
      OBVIOUS
    <3> QED BY <1>6, <3>1, <3>2
  <2>3. q.bank = "local" => q.at \in DOMAIN d.local /\ d.local[q.at] = <<PreparedWord(other)>>
    BY <1>6, <1>8 DEF Filled
  <2> QED BY <2>1, <2>2, <2>3 DEF Filled
<1> QED BY <1>6, <1>7, <1>8

LEMMA EnsuredLocal ==
  ASSUME NEW c, Good(c), NEW p, NEW data \in AllData, Fits(c, p, data), NEW d, d = Ensure(c, p, data),
         p.bank = "local", p.at > Len(c.local) \/ c.local[p.at] = <<>>
  PROVE  /\ Good(d) /\ Preparing(c, d) /\ Filled(d, p, data)
         /\ \A q, other : Filled(c, q, other) => Filled(d, q, other)
<1>1. PICK at, lo : at = p.at /\ lo = Replace(Grown(c.local, at), at, <<PreparedWord(data)>>)
  OBVIOUS
<1>2. c \in Caches
  BY DEF Good
<1>3. d = [c EXCEPT !.local = Replace(Grown(@, at), at, <<PreparedWord(data)>>)]
  BY <1>1 DEF Ensure
<1>4. d = [base |-> c.base, delta |-> c.delta, table |-> c.table, local |-> lo, shared |-> c.shared]
  BY <1>1, <1>2, <1>3 DEF Caches
<1>5. at \in DOMAIN c.delta /\ c.delta[at] = data
  BY <1>1 DEF Fits
<1>6. /\ Good(d) /\ Preparing(c, d) /\ d.shared = c.shared
      /\ at \in DOMAIN d.local /\ d.local[at] = <<PreparedWord(data)>>
      /\ \A i \in DOMAIN c.local : c.local[i] # <<>> => i \in DOMAIN d.local /\ d.local[i] = c.local[i]
  BY <1>1, <1>4, <1>5, EnsureLocal
<1>7. Filled(d, p, data)
  BY <1>1, <1>5, <1>6 DEF Filled, Fits, Preparing
<1>8. ASSUME NEW q, NEW other, Filled(c, q, other) PROVE Filled(d, q, other)
  <2>1. Fits(d, q, other)
    BY <1>6, <1>8 DEF Filled, Fits, Preparing
  <2>2. ASSUME q.bank = "local" PROVE q.at \in DOMAIN d.local /\ d.local[q.at] = <<PreparedWord(other)>>
    <3>1. q.at \in DOMAIN c.local /\ c.local[q.at] = <<PreparedWord(other)>>
      BY <1>8, <2>2 DEF Filled
    <3>2. <<PreparedWord(other)>> # <<>>
      OBVIOUS
    <3> QED BY <1>6, <3>1, <3>2
  <2>3. q.bank = "shared" => d.shared[q.at] = <<PreparedWord(other)>>
    BY <1>6, <1>8 DEF Filled
  <2> QED BY <2>1, <2>2, <2>3 DEF Filled
<1> QED BY <1>6, <1>7, <1>8

LEMMA Ensured ==
  ASSUME NEW c, Good(c), NEW p, NEW data \in AllData, Fits(c, p, data), NEW d, d = Ensure(c, p, data)
  PROVE  /\ Good(d) /\ Preparing(c, d) /\ Filled(d, p, data)
         /\ \A q, other : Filled(c, q, other) => Filled(d, q, other)
<1>1. CASE p.bank = "shared" /\ c.shared[p.at] = <<>>
  BY <1>1, EnsuredShared
<1>2. CASE p.bank = "local" /\ (p.at > Len(c.local) \/ c.local[p.at] = <<>>)
  BY <1>2, EnsuredLocal
<1>3. CASE /\ ~(p.bank = "shared" /\ c.shared[p.at] = <<>>)
           /\ ~(p.bank = "local" /\ (p.at > Len(c.local) \/ c.local[p.at] = <<>>))
  <2>1. d = c
    BY <1>3 DEF Ensure
  <2>2. c \in Caches /\ SharedHolds(c) /\ LocalHolds(c)
    BY DEF Good
  <2>3. ASSUME p.bank = "shared" PROVE c.shared[p.at] = <<PreparedWord(data)>>
    <3>1. p.at \in DOMAIN c.shared /\ c.shared[p.at] # <<>> /\ c.base[p.at] = data
      BY <1>3, <2>2, <2>3 DEF SharedHolds, Caches, Banks, Fits
    <3> QED BY <2>2, <3>1 DEF SharedHolds
  <2>4. ASSUME p.bank = "local" PROVE p.at \in DOMAIN c.local /\ c.local[p.at] = <<PreparedWord(data)>>
    <3>1. p.at \in DOMAIN c.delta /\ c.delta[p.at] = data
      BY <2>4 DEF Fits
    <3>2. p.at \in DOMAIN c.local /\ c.local[p.at] # <<>>
      BY <1>3, <2>2, <2>4, <3>1 DEF Caches, Banks
    <3> QED BY <2>2, <3>1, <3>2 DEF LocalHolds
  <2>5. Filled(c, p, data)
    BY <2>3, <2>4 DEF Filled
  <2> QED BY <2>1, <2>5 DEF Preparing
<1> QED BY <1>1, <1>2, <1>3

LEMMA PreparingOn == ASSUME NEW c, NEW d, NEW e, Preparing(c, d), Preparing(d, e) PROVE Preparing(c, e)
BY DEF Preparing

LEMMA FitsOn == ASSUME NEW c, NEW d, Preparing(c, d), NEW p, NEW data, Fits(c, p, data) PROVE Fits(d, p, data)
BY DEF Fits, Preparing

LEMMA EnsuredAll ==
  ASSUME NEW c, Good(c), NEW places, NEW data, \A i \in 1..3 : data[i] \in AllData /\ Fits(c, places[i], data[i]),
         NEW d, d = EnsureAll(c, places, data)
  PROVE  Good(d) /\ Preparing(c, d) /\ \A i \in 1..3 : Filled(d, places[i], data[i])
<1>1. PICK c1, c2 : c1 = Ensure(c, places[1], data[1]) /\ c2 = Ensure(c1, places[2], data[2])
  OBVIOUS
<1>2. d = Ensure(c2, places[3], data[3])
  BY <1>1 DEF EnsureAll
<1>3. \A i \in 1..3 : i = 1 \/ i = 2 \/ i = 3
  OBVIOUS
<1>4. /\ Good(c1) /\ Preparing(c, c1) /\ Filled(c1, places[1], data[1])
  BY <1>1, Ensured
<1>5. Fits(c1, places[2], data[2])
  BY <1>4, FitsOn
<1>6. /\ Good(c2) /\ Preparing(c1, c2) /\ Filled(c2, places[2], data[2])
      /\ \A q, other : Filled(c1, q, other) => Filled(c2, q, other)
  BY <1>1, <1>4, <1>5, Ensured
<1>7. Preparing(c, c2)
  BY <1>4, <1>6, PreparingOn
<1>8. Fits(c2, places[3], data[3])
  BY <1>7, FitsOn
<1>9. /\ Good(d) /\ Preparing(c2, d) /\ Filled(d, places[3], data[3])
      /\ \A q, other : Filled(c2, q, other) => Filled(d, q, other)
  BY <1>2, <1>6, <1>8, Ensured
<1>10. Preparing(c, d)
  BY <1>7, <1>9, PreparingOn
<1> QED BY <1>3, <1>4, <1>6, <1>9, <1>10

\* Prepared or not, the parts of a score are those of the three analyses.
LEMMA PartsScore ==
  ASSUME NEW data, NEW words, \A i \in 1..3 : words[i] = PreparedWord(data[i])
  PROVE  PreparedScore(data, words) = TrigramScore(data[1], data[2], data[3])
<1>1. words[1] = PreparedWord(data[1]) /\ words[2] = PreparedWord(data[2]) /\ words[3] = PreparedWord(data[3])
  OBVIOUS
<1>2. words[1].f10c = F10c(data[1]) /\ words[2].f10b = F10b(data[2])
  BY <1>1 DEF PreparedWord
<1>3. /\ words[3].f4 = F4(data[3]) /\ words[3].f10 = F10(data[3])
      /\ words[3].f20 = F20(data[3]) /\ words[3].f22 = F22(data[3])
  BY <1>1 DEF PreparedWord
<1> QED BY <1>2, <1>3 DEF PreparedScore, ScoreParts, PreparedPair, TrigramScore

LEMMA FilledScore ==
  ASSUME NEW c, NEW places, NEW data, \A i \in 1..3 : Filled(c, places[i], data[i])
  PROVE  ScoreFilled(c, places, data) = [cache |-> c, score |-> TrigramScore(data[1], data[2], data[3])]
<1>1. PICK words : words = [i \in 1..3 |-> IF \E k \in 1..3 : places[k].bank = "none" THEN PreparedWord(data[i])
                                          ELSE Prepared(c, places[i])]
  OBVIOUS
<1>2. ASSUME NEW i \in 1..3 PROVE words[i] = PreparedWord(data[i])
  <2>1. CASE \E k \in 1..3 : places[k].bank = "none"
    BY <1>1, <2>1
  <2>2. CASE ~ \E k \in 1..3 : places[k].bank = "none"
    <3>1. words[i] = Prepared(c, places[i])
      BY <1>1, <2>2
    <3>2. places[i].bank # "none" /\ Filled(c, places[i], data[i])
      BY <2>2
    <3>3. CASE places[i].bank = "shared"
      <4>1. c.shared[places[i].at] = <<PreparedWord(data[i])>>
        BY <3>2, <3>3 DEF Filled
      <4> QED BY <3>1, <3>3, <4>1 DEF Prepared
    <3>4. CASE places[i].bank = "local"
      <4>1. c.local[places[i].at] = <<PreparedWord(data[i])>>
        BY <3>2, <3>4 DEF Filled
      <4> QED BY <3>1, <3>4, <4>1 DEF Prepared
    <3> QED BY <3>2, <3>3, <3>4 DEF Filled, Fits
  <2> QED BY <2>1, <2>2
<1>3. PreparedScore(data, words) = TrigramScore(data[1], data[2], data[3])
  BY <1>2, PartsScore
<1> QED BY <1>1, <1>3 DEF ScoreFilled

\* Three words that are interned or boundaries, with their data and
\* signatures.
Three(c, words, data, signatures) ==
  /\ data = [i \in 1..3 |-> Data(words[i])]
  /\ signatures = [i \in 1..3 |-> Signature(c, words[i])]
  /\ \A i \in 1..3 : Placed(c, words[i], data[i])

LEMMA UncachedScore ==
  ASSUME NEW c, Good(c), NEW words, NEW data, NEW signatures, Three(c, words, data, signatures)
  PROVE  \E d : /\ ScoreUncached(c, signatures, data)
                     = [cache |-> d, score |-> TrigramScore(data[1], data[2], data[3])]
                /\ Good(d) /\ Preparing(c, d)
<1>1. PICK places : places = [i \in 1..3 |-> Place(c, signatures[i])]
  OBVIOUS
<1>2. c \in Caches
  BY DEF Good
<1>3. ASSUME NEW i \in 1..3 PROVE data[i] \in AllData /\ Fits(c, places[i], data[i])
  <2>1. data[i] = Data(words[i]) /\ Placed(c, words[i], data[i]) /\ places[i] = Place(c, Signature(c, words[i]))
    BY <1>1 DEF Three
  <2> QED BY <1>2, <2>1, PlaceFits DEF Placed
<1>4. PICK d : d = EnsureAll(c, places, data)
  OBVIOUS
<1>5. Good(d) /\ Preparing(c, d) /\ \A i \in 1..3 : Filled(d, places[i], data[i])
  BY <1>3, <1>4, EnsuredAll
<1>6. ScoreUncached(c, signatures, data) = ScoreFilled(d, places, data)
  BY <1>1, <1>4 DEF ScoreUncached, ScorePlaced
<1> QED BY <1>5, <1>6, FilledScore

-----------------------------------------------------------------------------
(***************************************************************************)
(* Transition rows.                                                        *)
(***************************************************************************)

WithTable(c, t) == [base |-> c.base, delta |-> c.delta, table |-> t, local |-> c.local, shared |-> c.shared]

\* What a later cache keeps of an earlier one: signatures, and rows by number.
After(c, d) ==
  /\ d.base = c.base /\ d.delta = c.delta
  /\ Len(c.table.pairs) <= Len(d.table.pairs)
  /\ \A i \in 1..Len(c.table.pairs) : d.table.pairs[i] = c.table.pairs[i]

LEMMA PairsListed ==
  ASSUME NEW c \in Caches
  PROVE  /\ c.table.pairs \in Seq(Pair) /\ Len(c.table.pairs) \in Nat
         /\ c.table.rows \in Seq(Rows) /\ c.table.overflow \in Seq(Spills) /\ c.table \in Tables
BY DEF Caches, Tables

LEMMA AfterPreparing == ASSUME NEW c \in Caches, NEW d, Preparing(c, d) PROVE After(c, d)
BY PairsListed DEF After, Preparing

LEMMA AfterOn ==
  ASSUME NEW c \in Caches, NEW d \in Caches, NEW e \in Caches, After(c, d), After(d, e)
  PROVE  After(c, e)
<1>1. PICK k, l, m : k = Len(c.table.pairs) /\ l = Len(d.table.pairs) /\ m = Len(e.table.pairs)
  OBVIOUS
<1>2. k \in Nat /\ l \in Nat /\ m \in Nat
  BY <1>1, PairsListed
<1>3. k <= l /\ l <= m /\ \A i \in 1..k : i \in 1..l
  BY <1>1, <1>2 DEF After
<1> QED BY <1>1, <1>2, <1>3, SMTT(60) DEF After

LEMMA AfterStands ==
  ASSUME NEW c, NEW d, After(c, d)
  PROVE  /\ \A s : DataOf(d, s) = DataOf(c, s) /\ (Stands(c, s) <=> Stands(d, s))
         /\ \A word : Signature(d, word) = Signature(c, word)
         /\ \A word, data : Placed(c, word, data) <=> Placed(d, word, data)
<1>1. Signatures(d) = Signatures(c)
  BY DEF Signatures, After
<1>2. \A s : DataOf(d, s) = DataOf(c, s)
  BY <1>1 DEF DataOf
<1>3. \A data : SignatureOf(d, data) = SignatureOf(c, data)
  BY <1>1 DEF SignatureOf
<1>4. \A s : Stands(c, s) <=> Stands(d, s)
  BY <1>1, <1>2 DEF Stands
<1>5. \A word : Signature(d, word) = Signature(c, word)
  BY <1>3 DEF Signature
<1> QED BY <1>1, <1>2, <1>3, <1>4, <1>5 DEF Placed

LEMMA AfterRight ==
  ASSUME NEW c \in Caches, NEW d \in Caches, After(c, d)
  PROVE  \A x, y, z, e : RightFor(c, x, y, z, e) => RightFor(d, x, y, z, e)
<1> SUFFICES ASSUME NEW x, NEW y, NEW z, NEW e, RightFor(c, x, y, z, e) PROVE RightFor(d, x, y, z, e)
  OBVIOUS
<1>1. Stands(d, x) /\ Stands(d, y) /\ Stands(d, z) /\ e.score = TrigramScore(DataOf(d, x), DataOf(d, y), DataOf(d, z))
  BY AfterStands DEF RightFor
<1>2. PICK k, l : k = Len(c.table.pairs) /\ l = Len(d.table.pairs)
  OBVIOUS
<1>3. k \in Nat /\ l \in Nat /\ k <= l
  BY <1>2, PairsListed DEF After
<1>4. e.next \in 0..k /\ (e.next # 0 => e.next \in 1..k /\ d.table.pairs[e.next] = c.table.pairs[e.next])
  BY <1>2, <1>3 DEF RightFor, After
<1>5. e.next \in 0..l
  BY <1>3, <1>4
<1> QED BY <1>1, <1>2, <1>4, <1>5 DEF RightFor, NoRow

\* A table that keeps the rows of the cache.
LEMMA TableChanged ==
  ASSUME NEW c, Good(c), NEW t \in Tables, TableFits(t), NEW d, d = WithTable(c, t),
         After(c, d), RowsRight(d), SpillsRight(d)
  PROVE  Good(d)
<1>1. d \in Caches
  BY DEF Good, Caches, WithTable
<1>2. SharedHolds(d) /\ LocalHolds(d)
  BY DEF Good, SharedHolds, LocalHolds, WithTable
<1> QED BY <1>1, <1>2 DEF Good, WithTable

LEMMA RowEntered ==
  ASSUME NEW c, Good(c), NEW pair \in Pair, NEW at, at = EnsureRow(c.table, pair),
         NEW d, d = WithTable(c, at.table)
  PROVE  /\ Good(d) /\ After(c, d)
         /\ at.row \in 0..Len(d.table.pairs)
         /\ at.row # NoRow => d.table.pairs[at.row] = pair
<1>1. PICK pairs, rows, overflow : pairs = c.table.pairs /\ rows = c.table.rows /\ overflow = c.table.overflow
  OBVIOUS
<1>2. c \in Caches /\ TableFits(c.table) /\ RowsRight(c) /\ SpillsRight(c)
  BY DEF Good
<1>3. /\ pairs \in Seq(Pair) /\ rows \in Seq(Rows) /\ overflow \in Seq(Spills)
      /\ Len(rows) = Len(pairs) /\ Len(rows) <= RowCapacity /\ c.table \in Tables
  BY <1>1, <1>2, PairsListed DEF TableFits
<1>4. WithTable(c, c.table) = c
  BY <1>2 DEF WithTable, Caches
<1>5. CASE pair \in ToSet(pairs)
  <2>1. PICK r : r = CHOOSE i \in DOMAIN pairs : pairs[i] = pair
    OBVIOUS
  <2>2. r \in DOMAIN pairs /\ pairs[r] = pair
    BY <1>5, <2>1 DEF ToSet
  <2>3. at = [row |-> r, table |-> c.table]
    BY <1>1, <1>5, <2>1 DEF EnsureRow
  <2>4. d = c
    BY <1>4, <2>3
  <2> QED BY <1>1, <1>3, <2>2, <2>3, <2>4 DEF After
<1>6. CASE pair \notin ToSet(pairs) /\ Len(rows) = RowCapacity
  <2>1. at = [row |-> NoRow, table |-> c.table]
    BY <1>1, <1>6 DEF EnsureRow
  <2>2. d = c
    BY <1>4, <2>1
  <2> QED BY <1>1, <1>3, <2>1, <2>2 DEF After, NoRow
<1>7. CASE pair \notin ToSet(pairs) /\ Len(rows) # RowCapacity
  <2>1. PICK new, row : new = [inline |-> <<>>, overflows |-> FALSE] /\ row = Len(rows) + 1
    OBVIOUS
  <2>2. PICK ps, rs : ps = Append(pairs, pair) /\ rs = Append(rows, new)
    OBVIOUS
  <2>3. PICK t : t = [pairs |-> ps, rows |-> rs, overflow |-> overflow]
    OBVIOUS
  <2>4. at = [row |-> row, table |-> t]
    BY <1>1, <1>7, <2>1, <2>2, <2>3 DEF EnsureRow
  <2>5. at.row = row /\ at.table = t
    BY <2>4
  <2>6. new \in Rows /\ DOMAIN new.inline = {} /\ Len(new.inline) = 0
    BY <2>1 DEF Rows
  <2>7. /\ ps \in Seq(Pair) /\ Len(ps) = Len(pairs) + 1 /\ ps[row] = pair
        /\ \A i \in 1..Len(pairs) : ps[i] = pairs[i]
    BY <1>3, <2>1, <2>2, AppendProperties
  <2>8. /\ rs \in Seq(Rows) /\ Len(rs) = Len(rows) + 1 /\ rs[row] = new
        /\ \A i \in 1..Len(rows) : rs[i] = rows[i]
    BY <1>3, <2>1, <2>2, <2>6, AppendProperties
  <2>9. /\ row \in 1..Len(ps) /\ DOMAIN rs = 1..row /\ DOMAIN rows = 1..Len(rows)
        /\ \A i \in 1..row : i = row \/ i \in 1..Len(rows)
    BY <1>3, <2>1, <2>7, <2>8
  <2>10. t \in Tables
    BY <1>3, <2>3, <2>7, <2>8 DEF Tables
  <2>11. After(c, d)
    BY <1>1, <1>3, <2>3, <2>5, <2>7 DEF After, WithTable
  <2>12. TableFits(t)
    <3>1. Len(rs) = Len(ps) /\ Len(rs) <= RowCapacity
      BY <1>3, <1>7, <2>7, <2>8, LimitsFit
    <3>2. Len(overflow) <= OverflowEntries
      BY <1>1, <1>2 DEF TableFits
    <3>3. ASSUME NEW r \in DOMAIN rs PROVE Len(rs[r].inline) <= InlineTransitions
      <4>1. CASE r = row
        BY <2>6, <2>8, <4>1, LimitsFit
      <4>2. CASE r # row
        BY <1>1, <1>2, <2>8, <2>9, <4>2 DEF TableFits
      <4> QED BY <4>1, <4>2
    <3> QED BY <2>3, <3>1, <3>2, <3>3 DEF TableFits
  <2>13. d = WithTable(c, t) /\ d.table = t /\ d.table.rows = rs /\ d.table.pairs = ps /\ d.table.overflow = overflow
    BY <2>3, <2>5 DEF WithTable
  <2>14. d \in Caches
    BY <1>2, <2>10, <2>13 DEF Caches, WithTable
  <2>15. \A x, y, z, e : RightFor(c, x, y, z, e) => RightFor(d, x, y, z, e)
    BY <1>2, <2>11, <2>14, AfterRight
  <2>16. ASSUME NEW r \in DOMAIN rs, NEW i \in DOMAIN rs[r].inline
         PROVE  RightFor(d, ps[r][1], ps[r][2], rs[r].inline[i].third, rs[r].inline[i])
    <3>1. r # row
      BY <2>6, <2>8, <2>16
    <3>2. r \in DOMAIN rows /\ rs[r] = rows[r] /\ ps[r] = pairs[r]
      BY <1>3, <2>7, <2>8, <2>9, <3>1
    <3>3. RightFor(c, pairs[r][1], pairs[r][2], rows[r].inline[i].third, rows[r].inline[i])
      BY <1>1, <1>2, <2>16, <3>2 DEF RowsRight
    <3> QED BY <2>15, <3>2, <3>3
  <2>17. RowsRight(d)
    BY <2>13, <2>16 DEF RowsRight
  <2>18. SpillsRight(d)
    BY <1>1, <1>2, <2>13, <2>15 DEF SpillsRight
  <2>19. Good(d)
    BY <2>10, <2>11, <2>12, <2>13, <2>17, <2>18, TableChanged
  <2> QED BY <2>5, <2>7, <2>9, <2>11, <2>13, <2>19
<1> QED BY <1>5, <1>6, <1>7

LEMMA SameEntry ==
  ASSUME NEW c, NEW x, NEW y, NEW z, NEW e, NEW f, f.score = e.score, f.next = e.next, RightFor(c, x, y, z, e)
  PROVE  RightFor(c, x, y, z, f)
BY DEF RightFor

\* What a row may have, and the overflow table.
RowOf(c, row, inline) ==
  /\ inline \in Seq(Entries) /\ Len(inline) <= InlineTransitions
  /\ \A i \in DOMAIN inline :
       RightFor(c, c.table.pairs[row][1], c.table.pairs[row][2], inline[i].third, inline[i])

OverflowOf(c, overflow) ==
  /\ overflow \in Seq(Spills) /\ Len(overflow) <= OverflowEntries
  /\ \A i \in DOMAIN overflow :
       RightFor(c, overflow[i].key[1], overflow[i].key[2], overflow[i].key[3], overflow[i])

LEMMA RowRefilled ==
  ASSUME NEW c, Good(c), NEW row \in DOMAIN c.table.rows, NEW inline, RowOf(c, row, inline),
         NEW overflows \in BOOLEAN, NEW overflow, OverflowOf(c, overflow),
         NEW d, d = WithTable(c, Refilled(c.table, row, inline, overflows, overflow))
  PROVE  Good(d) /\ After(c, d) /\ d.table.pairs = c.table.pairs
<1>1. PICK pairs, rows, new, rs :
        /\ pairs = c.table.pairs /\ rows = c.table.rows /\ new = [inline |-> inline, overflows |-> overflows]
        /\ rs = [rows EXCEPT ![row] = new]
  OBVIOUS
<1>a. /\ inline \in Seq(Entries) /\ Len(inline) <= InlineTransitions
      /\ \A i \in DOMAIN inline : RightFor(c, pairs[row][1], pairs[row][2], inline[i].third, inline[i])
  BY <1>1 DEF RowOf
<1>b. /\ overflow \in Seq(Spills) /\ Len(overflow) <= OverflowEntries
      /\ \A i \in DOMAIN overflow :
           RightFor(c, overflow[i].key[1], overflow[i].key[2], overflow[i].key[3], overflow[i])
  BY DEF OverflowOf
<1>2. c \in Caches /\ TableFits(c.table) /\ RowsRight(c) /\ SpillsRight(c)
  BY DEF Good
<1>3. /\ pairs \in Seq(Pair) /\ rows \in Seq(Rows) /\ Len(rows) = Len(pairs) /\ Len(rows) <= RowCapacity
      /\ row \in 1..Len(rows)
  BY <1>1, <1>2, PairsListed DEF TableFits
<1>4. new \in Rows
  BY <1>1, <1>a DEF Rows
<1>5. rs \in Seq(Rows) /\ Len(rs) = Len(rows) /\ \A r \in 1..Len(rows) : rs[r] = IF r = row THEN new ELSE rows[r]
  BY <1>1, <1>3, <1>4, ExceptSeq
<1>6. DOMAIN rs = 1..Len(rows) /\ DOMAIN rows = 1..Len(rows)
  BY <1>3, <1>5
<1>7. PICK t : t = [pairs |-> pairs, rows |-> rs, overflow |-> overflow]
  OBVIOUS
<1>8. d = WithTable(c, t)
  BY <1>1, <1>7 DEF Refilled
<1>9. d.table = t /\ t.rows = rs /\ t.pairs = pairs /\ t.overflow = overflow
  BY <1>7, <1>8 DEF WithTable
<1>10. t \in Tables
  BY <1>3, <1>5, <1>7, <1>b DEF Tables
<1>11. After(c, d)
  BY <1>1, <1>3, <1>8, <1>9 DEF After, WithTable
<1>12. TableFits(t)
  <2>1. ASSUME NEW r \in DOMAIN rs PROVE Len(rs[r].inline) <= InlineTransitions
    <3>1. CASE r = row
      BY <1>1, <1>a, <1>5, <1>6, <3>1
    <3>2. CASE r # row
      BY <1>1, <1>2, <1>5, <1>6, <3>2 DEF TableFits
    <3> QED BY <3>1, <3>2
  <2> QED BY <1>b, <1>3, <1>5, <1>7, <2>1 DEF TableFits
<1>13. d \in Caches
  BY <1>2, <1>8, <1>10 DEF Caches, WithTable
<1>14. \A x, y, z, e : RightFor(c, x, y, z, e) => RightFor(d, x, y, z, e)
  BY <1>2, <1>11, <1>13, AfterRight
<1>15. ASSUME NEW r \in DOMAIN rs, NEW i \in DOMAIN rs[r].inline
       PROVE  RightFor(d, pairs[r][1], pairs[r][2], rs[r].inline[i].third, rs[r].inline[i])
  <2>1. CASE r = row
    <3>1. rs[r].inline = inline
      BY <1>1, <1>5, <1>6, <2>1
    <3>2. RightFor(c, pairs[r][1], pairs[r][2], inline[i].third, inline[i])
      BY <1>a, <1>15, <2>1, <3>1
    <3> QED BY <1>14, <3>1, <3>2
  <2>2. CASE r # row
    <3>1. rs[r] = rows[r] /\ r \in DOMAIN rows
      BY <1>5, <1>6, <2>2
    <3>2. RightFor(c, pairs[r][1], pairs[r][2], rows[r].inline[i].third, rows[r].inline[i])
      BY <1>1, <1>2, <1>15, <3>1 DEF RowsRight
    <3> QED BY <1>14, <3>1, <3>2
  <2> QED BY <2>1, <2>2
<1>16. RowsRight(d)
  BY <1>9, <1>15 DEF RowsRight
<1>17. SpillsRight(d)
  BY <1>b, <1>9, <1>14 DEF SpillsRight
<1>18. Good(d)
  BY <1>8, <1>10, <1>11, <1>12, <1>16, <1>17, TableChanged
<1> QED BY <1>1, <1>9, <1>11, <1>18

\* What is spilled is right if it was and what is added is.
LEMMA SpillAdded ==
  ASSUME NEW c, NEW entries, OverflowOf(c, entries),
         NEW entry \in Spills, RightFor(c, entry.key[1], entry.key[2], entry.key[3], entry)
  PROVE  OverflowOf(c, Overflow(entries, entry))
<1> SUFFICES ASSUME NEW r, r = Overflow(entries, entry)
             PROVE  /\ r \in Seq(Spills) /\ Len(r) <= OverflowEntries
                    /\ \A i \in DOMAIN r : RightFor(c, r[i].key[1], r[i].key[2], r[i].key[3], r[i])
  BY DEF OverflowOf
<1>a. /\ entries \in Seq(Spills) /\ Len(entries) <= OverflowEntries
      /\ \A i \in DOMAIN entries :
           RightFor(c, entries[i].key[1], entries[i].key[2], entries[i].key[3], entries[i])
  BY DEF OverflowOf
<1>1. PICK I : I = {i \in 1..Len(entries) : entries[i].key = entry.key}
  OBVIOUS
<1>2. PICK known : known = IF I # {} THEN Min(I) ELSE 0
  OBVIOUS
<1>3. known = 0 \/ known \in 1..Len(entries)
  <2>1. I \in SUBSET Nat
    BY <1>1
  <2> QED BY <1>a, <1>1, <1>2, <2>1, LeastOf
<1>4. r = CASE Len(entries) >= OverflowEntries -> entries
            [] Len(entries) < OverflowEntries /\ known = 0 -> Append(entries, entry)
            [] OTHER -> Replace(entries, known, entry)
  BY <1>1, <1>2 DEF Overflow, SelectInSeq
<1>5. OverflowEntries \in Nat /\ Len(entries) \in Nat
  BY <1>a, LimitsFit
<1>6. CASE Len(entries) >= OverflowEntries
  <2>1. r = entries
    BY <1>4, <1>5, <1>6
  <2> QED BY <1>a, <2>1
<1>7. CASE Len(entries) < OverflowEntries /\ known = 0
  <2>1. r = Append(entries, entry)
    BY <1>4, <1>5, <1>7
  <2>2. r \in Seq(Spills) /\ Len(r) = Len(entries) + 1
    BY <1>a, <2>1
  <2>3. ASSUME NEW i \in DOMAIN r PROVE r[i] = entry \/ (i \in DOMAIN entries /\ r[i] = entries[i])
    BY <1>a, <2>1, <2>2
  <2>4. \A i \in DOMAIN r : RightFor(c, r[i].key[1], r[i].key[2], r[i].key[3], r[i])
    BY <1>a, <2>3
  <2> QED BY <1>5, <1>7, <2>2, <2>4
<1>8. CASE Len(entries) < OverflowEntries /\ known # 0
  <2>1. r = Replace(entries, known, entry)
    BY <1>4, <1>5, <1>8
  <2>2. /\ r \in Seq(Spills) /\ Len(r) = Len(entries)
        /\ \A i \in 1..Len(entries) : r[i] = IF i = known THEN entry ELSE entries[i]
    <3>1. known \in 1..Len(entries)
      BY <1>3, <1>8
    <3>2. r = [i \in 1..Len(entries) |-> IF i = known THEN entry ELSE entries[i]]
      BY <1>a, <2>1 DEF Replace
    <3>3. \A i \in 1..Len(entries) : r[i] \in Spills
      BY <1>a, <3>2
    <3> QED BY <1>a, <3>2, <3>3
  <2>3. DOMAIN r = 1..Len(entries) /\ DOMAIN entries = 1..Len(entries)
    BY <1>a, <2>2
  <2>4. \A i \in DOMAIN r : RightFor(c, r[i].key[1], r[i].key[2], r[i].key[3], r[i])
    BY <1>a, <2>2, <2>3
  <2> QED BY <1>a, <2>2, <2>4
<1> QED BY <1>5, <1>6, <1>7, <1>8

\* A row has nothing for the key, or an entry that is right.
LEMMA Found ==
  ASSUME NEW c, Good(c), NEW row \in 0..Len(c.table.pairs), NEW key \in Triple,
         row # NoRow => c.table.pairs[row][1] = key[1] /\ c.table.pairs[row][2] = key[2],
         NEW f, f = Find(c.table, row, key)
  PROVE  \/ f = <<>>
         \/ \E e : f = <<e>> /\ RightFor(c, key[1], key[2], key[3], e)
<1>1. PICK rows, pairs, overflow : rows = c.table.rows /\ pairs = c.table.pairs /\ overflow = c.table.overflow
  OBVIOUS
<1>2. c \in Caches /\ TableFits(c.table) /\ RowsRight(c) /\ SpillsRight(c)
  BY DEF Good
<1>3. /\ pairs \in Seq(Pair) /\ rows \in Seq(Rows) /\ overflow \in Seq(Spills) /\ Len(rows) = Len(pairs)
  BY <1>1, <1>2, PairsListed DEF TableFits
<1>4. CASE row = NoRow
  BY <1>4 DEF Find
<1>5. CASE row # NoRow
  <2>1. row \in DOMAIN rows
    BY <1>1, <1>3, <1>5 DEF NoRow
  <2>2. PICK content : content = rows[row].inline
    OBVIOUS
  <2>3. content \in Seq(Entries)
    <3>1. rows[row] \in Rows
      BY <1>3, <2>1
    <3> QED BY <2>2, <3>1 DEF Rows
  <2>4. PICK I, J : /\ I = {i \in 1..Len(content) : content[i].third = key[3]}
                    /\ J = {i \in 1..Len(overflow) : overflow[i].key = key}
    OBVIOUS
  <2>5. PICK inline, spilled : /\ inline = IF I # {} THEN Min(I) ELSE 0
                               /\ spilled = IF J # {} THEN Min(J) ELSE 0
    OBVIOUS
  <2>6. inline = 0 \/ inline \in I
    <3>1. I \in SUBSET Nat
      BY <2>4
    <3> QED BY <2>5, <3>1, LeastOf
  <2>7. spilled = 0 \/ spilled \in J
    <3>1. J \in SUBSET Nat
      BY <2>4, SMTT(60)
    <3> QED BY <2>5, <3>1, LeastOf
  <2>8. f = CASE inline # 0 -> <<content[inline]>>
              [] inline = 0 /\ rows[row].overflows /\ spilled # 0 -> <<overflow[spilled]>>
              [] OTHER -> <<>>
    BY <1>1, <1>5, <2>2, <2>4, <2>5, Zenon DEF Find, SelectInSeq
  <2>9. CASE inline # 0
    <3>1. f = <<content[inline]>>
      BY <2>8, <2>9
    <3>2. inline \in DOMAIN content /\ content[inline].third = key[3]
      BY <2>3, <2>4, <2>6, <2>9
    <3>3. RightFor(c, pairs[row][1], pairs[row][2], content[inline].third, content[inline])
      BY <1>1, <1>2, <2>1, <2>2, <3>2 DEF RowsRight
    <3> QED BY <1>1, <1>5, <3>1, <3>2, <3>3
  <2>10. CASE inline = 0 /\ rows[row].overflows /\ spilled # 0
    <3>1. f = <<overflow[spilled]>>
      BY <2>8, <2>10
    <3>2. spilled \in DOMAIN overflow /\ overflow[spilled].key = key
      BY <1>3, <2>4, <2>7, <2>10
    <3>3. RightFor(c, key[1], key[2], key[3], overflow[spilled])
      BY <1>1, <1>2, <3>2 DEF SpillsRight
    <3> QED BY <3>1, <3>3
  <2>11. CASE inline = 0 /\ ~(rows[row].overflows /\ spilled # 0)
    BY <2>8, <2>11
  <2> QED BY <2>9, <2>10, <2>11
<1> QED BY <1>4, <1>5

\* What is inserted is right if its score and the row it goes on to are.
LEMMA Inserted ==
  ASSUME NEW c, Good(c), NEW row \in 0..Len(c.table.pairs), NEW key \in Triple,
         row # NoRow => c.table.pairs[row][1] = key[1] /\ c.table.pairs[row][2] = key[2],
         NEW score \in Int, NEW next \in Nat, NEW e, e.score = score, e.next = next,
         RightFor(c, key[1], key[2], key[3], e),
         NEW d, d = WithTable(c, Insert(c.table, row, key, score, next))
  PROVE  Good(d) /\ After(c, d) /\ d.table.pairs = c.table.pairs
<1>1. PICK rows, pairs, overflow : rows = c.table.rows /\ pairs = c.table.pairs /\ overflow = c.table.overflow
  OBVIOUS
<1>2. c \in Caches /\ TableFits(c.table) /\ RowsRight(c) /\ SpillsRight(c)
  BY DEF Good
<1>3. /\ pairs \in Seq(Pair) /\ rows \in Seq(Rows) /\ overflow \in Seq(Spills) /\ Len(rows) = Len(pairs)
  BY <1>1, <1>2, PairsListed DEF TableFits
<1>4. CASE row = NoRow
  <2>1. Insert(c.table, row, key, score, next) = c.table
    BY <1>4 DEF Insert
  <2>2. d = c
    BY <1>2, <2>1 DEF WithTable, Caches
  <2> QED BY <1>1, <1>3, <2>2 DEF After
<1>5. CASE row # NoRow
  <2>1. row \in DOMAIN rows
    BY <1>1, <1>3, <1>5 DEF NoRow
  <2>2. PICK content, overflows : content = rows[row].inline /\ overflows = rows[row].overflows
    OBVIOUS
  <2>3. content \in Seq(Entries) /\ overflows \in BOOLEAN /\ Len(content) <= InlineTransitions
    <3>1. rows[row] \in Rows
      BY <1>3, <2>1
    <3> QED BY <1>1, <1>2, <2>1, <2>2, <3>1 DEF Rows, TableFits
  <2>4. PICK I : I = {i \in 1..Len(content) : content[i].third = key[3]}
    OBVIOUS
  <2>5. PICK known : known = IF I # {} THEN Min(I) ELSE 0
    OBVIOUS
  <2>6. known = 0 \/ known \in 1..Len(content)
    <3>1. I \in SUBSET Nat
      BY <2>4
    <3> QED BY <2>4, <2>5, <3>1, LeastOf
  <2>7. PICK entry, spill : /\ entry = [third |-> key[3], score |-> score, next |-> next]
                            /\ spill = [key |-> key, score |-> score, next |-> next]
    OBVIOUS
  <2>8. entry \in Entries /\ spill \in Spills
    BY <2>7 DEF Entries, Spills, Triple
  <2>9. RightFor(c, pairs[row][1], pairs[row][2], entry.third, entry)
    BY <1>1, <1>5, <2>7, SameEntry
  <2>10. RightFor(c, spill.key[1], spill.key[2], spill.key[3], spill)
    BY <2>7, SameEntry
  <2>11. RowOf(c, row, content)
    BY <1>1, <1>2, <2>1, <2>2, <2>3 DEF RowsRight, RowOf
  <2>12. OverflowOf(c, overflow)
    BY <1>1, <1>2, <1>3, SMTT(60) DEF SpillsRight, TableFits, OverflowOf
  <2>13. Insert(c.table, row, key, score, next) =
           CASE known # 0 -> Refilled(c.table, row, Replace(content, known, entry), overflows, overflow)
             [] known = 0 /\ Len(content) < InlineTransitions ->
                  Refilled(c.table, row, Append(content, entry), overflows, overflow)
             [] OTHER -> Refilled(c.table, row, content, TRUE, Overflow(overflow, spill))
    BY <1>1, <1>5, <2>2, <2>4, <2>5, <2>7, Zenon DEF Insert, SelectInSeq
  <2>14. CASE known # 0
    <3>1. PICK r : r = Replace(content, known, entry)
      OBVIOUS
    <3>2. known \in 1..Len(content)
      BY <2>6, <2>14
    <3>3. /\ r \in Seq(Entries) /\ Len(r) = Len(content)
          /\ \A i \in 1..Len(content) : r[i] = IF i = known THEN entry ELSE content[i]
      <4>1. r = [i \in 1..Len(content) |-> IF i = known THEN entry ELSE content[i]]
        BY <2>3, <3>1 DEF Replace
      <4>2. \A i \in 1..Len(content) : r[i] \in Entries
        BY <2>3, <2>8, <4>1
      <4> QED BY <2>3, <4>1, <4>2
    <3>4. DOMAIN r = DOMAIN content /\ DOMAIN content = 1..Len(content)
      BY <2>3, <3>3
    <3>5. RowOf(c, row, r)
      BY <1>1, <2>3, <2>9, <2>11, <3>3, <3>4 DEF RowOf
    <3>6. d = WithTable(c, Refilled(c.table, row, r, overflows, overflow))
      BY <2>13, <2>14, <3>1
    <3> QED BY <1>1, <2>1, <2>3, <2>12, <3>5, <3>6, RowRefilled
  <2>15. CASE known = 0 /\ Len(content) < InlineTransitions
    <3>1. PICK r : r = Append(content, entry)
      OBVIOUS
    <3>2. r \in Seq(Entries) /\ Len(r) = Len(content) + 1
      BY <2>3, <2>8, <3>1
    <3>3. ASSUME NEW i \in DOMAIN r PROVE r[i] = entry \/ (i \in DOMAIN content /\ r[i] = content[i])
      BY <2>3, <2>8, <3>1, <3>2
    <3>4. Len(r) <= InlineTransitions
      BY <2>3, <2>15, <3>2, LimitsFit, SMT
    <3>5. RowOf(c, row, r)
      BY <1>1, <2>9, <2>11, <3>2, <3>3, <3>4 DEF RowOf
    <3>6. d = WithTable(c, Refilled(c.table, row, r, overflows, overflow))
      BY <2>13, <2>15, <3>1
    <3> QED BY <1>1, <2>1, <2>3, <2>12, <3>5, <3>6, RowRefilled
  <2>16. CASE known = 0 /\ ~(Len(content) < InlineTransitions)
    <3>1. PICK r : r = Overflow(overflow, spill)
      OBVIOUS
    <3>2. OverflowOf(c, r)
      BY <2>8, <2>10, <2>12, <3>1, SpillAdded
    <3>3. PICK o \in BOOLEAN : o = TRUE
      OBVIOUS
    <3>4. d = WithTable(c, Refilled(c.table, row, content, o, r))
      BY <2>13, <2>16, <3>1, <3>3
    <3> QED BY <1>1, <2>1, <2>11, <3>2, <3>4, RowRefilled
  <2> QED BY <2>14, <2>15, <2>16
<1> QED BY <1>4, <1>5

-----------------------------------------------------------------------------
(***************************************************************************)
(* A transition.                                                           *)
(***************************************************************************)

KeyOf(signatures, words) == Key(signatures, [i \in 1..3 |-> IsWord(words[i])])

KeyRight(c, key, data) ==
  /\ key \in Triple
  /\ \A i \in 1..3 : Stands(c, key[i]) /\ DataOf(c, key[i]) = data[i]
  /\ Front(key) \in Pair /\ Front(key)[1] = key[1] /\ Front(key)[2] = key[2]
  /\ Tail(key) \in Pair /\ Tail(key)[1] = key[2] /\ Tail(key)[2] = key[3]

LEMMA KeyStands ==
  ASSUME NEW c \in Caches, NEW words, NEW data, NEW signatures, Three(c, words, data, signatures),
         NEW key, key = KeyOf(signatures, words), key # <<>>
  PROVE  key = signatures /\ KeyRight(c, key, data)
<1>1. DOMAIN signatures = 1..3 /\ \A i \in 1..3 : signatures[i] = Signature(c, words[i])
  BY DEF Three
<1>2. key = signatures /\ \A i \in 1..3 : IsWord(words[i]) => signatures[i] < EndSignature
  BY <1>1 DEF KeyOf, Key
<1>3. signatures = [i \in 1..3 |-> Signature(c, words[i])]
  BY DEF Three
<1>4. \A i \in 1..3 : Signature(c, words[i]) \in Int
  BY SignatureNumber
<1>5. key \in Triple
  BY <1>2, <1>3, <1>4 DEF Triple
<1>6. ASSUME NEW i \in 1..3 PROVE Stands(c, key[i]) /\ DataOf(c, key[i]) = data[i]
  <2>1. Placed(c, words[i], data[i]) /\ data[i] = Data(words[i])
    BY DEF Three
  <2>2. IsWord(words[i]) => Signature(c, words[i]) < EndSignature
    BY <1>1, <1>2
  <2> QED BY <1>1, <1>2, <2>1, <2>2, SignatureStands
<1>7. key \in Seq(Int) /\ Len(key) = 3
  BY <1>5 DEF Triple
<1>8. Front(key) \in Pair /\ Front(key)[1] = key[1] /\ Front(key)[2] = key[2]
  <2>1. Front(key) = SubSeq(key, 1, 2)
    BY <1>7 DEF Front
  <2>2. SubSeq(key, 1, 2) = [i \in 1..2 |-> key[i]]
    BY <1>7
  <2>3. key[1] \in Int /\ key[2] \in Int
    BY <1>5 DEF Triple
  <2>4. PICK f : f = [i \in 1..2 |-> key[i]]
    OBVIOUS
  <2>5. f \in Pair /\ f[1] = key[1] /\ f[2] = key[2]
    BY <2>3, <2>4 DEF Pair
  <2> QED BY <2>1, <2>2, <2>4, <2>5
<1>9. Tail(key) \in Pair /\ Tail(key)[1] = key[2] /\ Tail(key)[2] = key[3]
  <2>1. PICK t : t = Tail(key)
    OBVIOUS
  <2>2. t \in Seq(Int) /\ Len(t) = Len(key) - 1
    BY <1>7, <2>1, HeadTailProperties
  <2>3. \A i \in 1..Len(Tail(key)) : Tail(key)[i] = key[i + 1]
    BY <1>7, HeadTailProperties
  <2>4. Len(t) = 2 /\ DOMAIN t = 1..2
    BY <1>7, <2>2
  <2>5. 1 \in 1..2 /\ 2 \in 1..2 /\ 1 + 1 = 2 /\ 2 + 1 = 3
    OBVIOUS
  <2>6. t[1] = key[2] /\ t[2] = key[3]
    BY <2>1, <2>3, <2>4, <2>5
  <2>7. t \in Pair
    BY <2>2, <2>4, LenProperties DEF Pair
  <2> QED BY <2>1, <2>6, <2>7
<1> QED BY <1>2, <1>5, <1>6, <1>8, <1>9 DEF KeyRight

\* What a transition gives: the score of three analyses and a row of the last
\* two signatures, or none.
Result(c, r, data, y, z) ==
  /\ Good(r.cache) /\ After(c, r.cache)
  /\ r.score = TrigramScore(data[1], data[2], data[3]) /\ r.score \in Int
  /\ r.row \in 0..Len(r.cache.table.pairs)
  /\ r.row # NoRow => r.cache.table.pairs[r.row][1] = y /\ r.cache.table.pairs[r.row][2] = z

OnwardOf(c, needNext, pair) ==
  IF needNext THEN EnsureRow(c.table, pair) ELSE [row |-> NoRow, table |-> c.table]

LEMMA Onward ==
  ASSUME NEW c, Good(c), NEW d, Good(d), Preparing(c, d), NEW pair \in Pair, NEW needNext \in BOOLEAN,
         NEW onward, onward = OnwardOf(c, needNext, pair),
         NEW e, e = WithTable(d, onward.table)
  PROVE  /\ Good(e) /\ After(d, e) /\ onward.row \in 0..Len(e.table.pairs)
         /\ onward.row # NoRow => e.table.pairs[onward.row] = pair
<1>1. d.table = c.table /\ d \in Caches
  BY DEF Preparing, Good
<1>2. CASE needNext
  <2>1. onward = EnsureRow(d.table, pair)
    BY <1>1, <1>2 DEF OnwardOf
  <2> QED BY <2>1, RowEntered
<1>3. CASE ~needNext
  <2>1. onward = [row |-> NoRow, table |-> d.table]
    BY <1>1, <1>3 DEF OnwardOf
  <2>2. e = d
    BY <1>1, <2>1 DEF WithTable, Caches
  <2> QED BY <1>1, <2>1, <2>2, PairsListed DEF After, NoRow
<1> QED BY <1>2, <1>3

\* The row the key would be retained in.
KeyRow(c, row, key) ==
  /\ row \in 0..Len(c.table.pairs)
  /\ row # NoRow => c.table.pairs[row][1] = key[1] /\ c.table.pairs[row][2] = key[2]

LEMMA KeyRowOn ==
  ASSUME NEW c \in Caches, NEW d \in Caches, After(c, d), NEW row, NEW key, KeyRow(c, row, key)
  PROVE  KeyRow(d, row, key)
<1>1. PICK k, l : k = Len(c.table.pairs) /\ l = Len(d.table.pairs)
  OBVIOUS
<1>2. k \in Nat /\ l \in Nat /\ k <= l /\ row \in 0..k
  BY <1>1, PairsListed DEF After, KeyRow
<1>3. row # 0 => d.table.pairs[row] = c.table.pairs[row]
  BY <1>1, <1>2 DEF After
<1> QED BY <1>1, <1>2, <1>3, SMT DEF KeyRow, NoRow

LEMMA Scores ==
  ASSUME NEW d1 \in AllData, NEW d2 \in AllData, NEW d3 \in AllData
  PROVE  TrigramScore(d1, d2, d3) \in Int
BY ScoresAssumption

LEMMA RetainGives ==
  ASSUME NEW c, Good(c), NEW words, NEW data, NEW signatures, Three(c, words, data, signatures),
         NEW key, key = KeyOf(signatures, words), key # <<>>, NEW row, KeyRow(c, row, key), NEW needNext \in BOOLEAN,
         NEW onward, onward = OnwardOf(c, needNext, Tail(key)),
         NEW r, r = Retain(ScoreUncached(c, signatures, data), row, key, onward)
  PROVE  Result(c, r, data, key[2], key[3])
<1>1. c \in Caches
  BY DEF Good
<1>a. KeyRight(c, key, data)
  BY <1>1, KeyStands
<1>2. /\ key \in Triple
      /\ \A i \in 1..3 : Stands(c, key[i]) /\ DataOf(c, key[i]) = data[i]
      /\ Tail(key) \in Pair /\ Tail(key)[1] = key[2] /\ Tail(key)[2] = key[3]
  BY <1>a DEF KeyRight
<1>3. PICK score : score = TrigramScore(data[1], data[2], data[3])
  OBVIOUS
<1>4. data[1] \in AllData /\ data[2] \in AllData /\ data[3] \in AllData
  <2>1. \A i \in 1..3 : data[i] \in AllData
    BY DEF Three, Placed
  <2> QED BY <2>1
<1>5. score \in Int
  BY <1>3, <1>4, Scores
<1>6. PICK d : ScoreUncached(c, signatures, data) = [cache |-> d, score |-> score] /\ Good(d) /\ Preparing(c, d)
  BY <1>3, UncachedScore
<1>7. PICK e : e = WithTable(d, onward.table)
  OBVIOUS
<1>8. /\ Good(e) /\ After(d, e) /\ onward.row \in 0..Len(e.table.pairs)
      /\ onward.row # NoRow => e.table.pairs[onward.row] = Tail(key)
  <2>1. PICK tail \in Pair : tail = Tail(key)
    BY <1>2
  <2>2. Good(d) /\ Preparing(c, d)
    BY <1>6
  <2>3. onward = OnwardOf(c, needNext, tail)
    BY <2>1
  <2>4. /\ Good(e) /\ After(d, e) /\ onward.row \in 0..Len(e.table.pairs)
        /\ onward.row # NoRow => e.table.pairs[onward.row] = tail
    BY <1>7, <2>2, <2>3, Onward
  <2> QED BY <2>1, <2>4
<1>9. d \in Caches /\ e \in Caches
  BY <1>6, <1>8 DEF Good
<1>10. After(c, e)
  BY <1>1, <1>6, <1>8, <1>9, AfterPreparing, AfterOn
<1>11. KeyRow(e, row, key)
  BY <1>1, <1>9, <1>10, KeyRowOn
<1>12. PICK entry : entry = [score |-> score, next |-> onward.row]
  OBVIOUS
<1>13. RightFor(e, key[1], key[2], key[3], entry)
  <2>1. \A i \in 1..3 : Stands(e, key[i]) /\ DataOf(e, key[i]) = data[i]
    BY <1>2, <1>10, AfterStands
  <2>2. /\ Stands(e, key[1]) /\ Stands(e, key[2]) /\ Stands(e, key[3])
        /\ DataOf(e, key[1]) = data[1] /\ DataOf(e, key[2]) = data[2] /\ DataOf(e, key[3]) = data[3]
    BY <2>1
  <2>3. entry.score = score /\ entry.next = onward.row
    BY <1>12
  <2> QED BY <1>2, <1>3, <1>8, <2>2, <2>3 DEF RightFor
<1>14. PICK f : f = WithTable(e, Insert(e.table, row, key, score, onward.row))
  OBVIOUS
<1>15. Good(f) /\ After(e, f) /\ f.table.pairs = e.table.pairs
  <2>1. entry.score = score /\ entry.next = onward.row
    BY <1>12
  <2>2. onward.row \in Nat
    BY <1>8, <1>9, PairsListed
  <2>3. /\ row \in 0..Len(e.table.pairs)
        /\ row # NoRow => e.table.pairs[row][1] = key[1] /\ e.table.pairs[row][2] = key[2]
    BY <1>11 DEF KeyRow
  <2> QED BY <1>2, <1>5, <1>8, <1>13, <1>14, <2>1, <2>2, <2>3, Inserted
<1>16. r = [score |-> score, row |-> onward.row, cache |-> f]
  <2>1. e.table = onward.table /\ f = WithTable(d, Insert(onward.table, row, key, score, onward.row))
    BY <1>7, <1>14 DEF WithTable
  <2>2. PICK t : t = Insert(onward.table, row, key, score, onward.row)
    OBVIOUS
  <2>3. PICK x : x = [d EXCEPT !.table = t]
    OBVIOUS
  <2>4. x = WithTable(d, t)
    BY <1>9, <2>3 DEF WithTable, Caches
  <2> QED BY <1>6, <2>1, <2>2, <2>3, <2>4 DEF Retain
<1>17. f \in Caches /\ After(c, f)
  BY <1>1, <1>9, <1>10, <1>15, AfterOn DEF Good
<1>18. onward.row # NoRow => f.table.pairs[onward.row][1] = key[2] /\ f.table.pairs[onward.row][2] = key[3]
  BY <1>2, <1>8, <1>15
<1>19. onward.row \in 0..Len(f.table.pairs)
  BY <1>8, <1>15
<1>20. r.score = score /\ r.row = onward.row /\ r.cache = f
  BY <1>16
<1> QED BY <1>3, <1>5, <1>15, <1>17, <1>18, <1>19, <1>20 DEF Result

LEMMA ResultOn ==
  ASSUME NEW c, Good(c), NEW d, Good(d), After(c, d), NEW r, NEW data, NEW y, NEW z, Result(d, r, data, y, z)
  PROVE  Result(c, r, data, y, z)
<1>1. c \in Caches /\ d \in Caches /\ r.cache \in Caches
  BY DEF Good, Result
<1>2. After(c, r.cache)
  BY <1>1, AfterOn DEF Result
<1> QED BY <1>2 DEF Result

LEMMA FromRowGives ==
  ASSUME NEW c, Good(c), NEW words, NEW data, NEW signatures, Three(c, words, data, signatures),
         NEW key, key = KeyOf(signatures, words), key # <<>>, NEW row, KeyRow(c, row, key),
         NEW needNext \in BOOLEAN,
         NEW r, r = FromRow(c, row, key, signatures, data, needNext, Find(c.table, row, key))
  PROVE  Result(c, r, data, key[2], key[3])
<1>1. PICK found : found = Find(c.table, row, key)
  OBVIOUS
<1>2. c \in Caches
  BY DEF Good
<1>3. KeyRight(c, key, data)
  BY <1>2, KeyStands
<1>4. /\ key \in Triple /\ row \in 0..Len(c.table.pairs)
      /\ row # NoRow => c.table.pairs[row][1] = key[1] /\ c.table.pairs[row][2] = key[2]
  BY <1>3 DEF KeyRight, KeyRow
<1>5. found = <<>> \/ \E e : found = <<e>> /\ RightFor(c, key[1], key[2], key[3], e)
  BY <1>1, <1>4, Found
<1>6. CASE found # <<>> /\ (needNext => found[1].next # NoRow)
  <2>1. PICK e : found = <<e>> /\ RightFor(c, key[1], key[2], key[3], e)
    BY <1>5, <1>6
  <2>2. r = [score |-> e.score, row |-> e.next, cache |-> c]
    BY <1>1, <1>6, <2>1 DEF FromRow
  <2>3. \A i \in 1..3 : DataOf(c, key[i]) = data[i] /\ data[i] \in AllData
    BY <1>3 DEF KeyRight, Three, Placed
  <2>4. e.score = TrigramScore(data[1], data[2], data[3])
    <3>1. DataOf(c, key[1]) = data[1] /\ DataOf(c, key[2]) = data[2] /\ DataOf(c, key[3]) = data[3]
      BY <2>3
    <3> QED BY <2>1, <3>1 DEF RightFor
  <2>5. e.score \in Int
    <3>1. data[1] \in AllData /\ data[2] \in AllData /\ data[3] \in AllData
      BY <2>3
    <3> QED BY <2>4, <3>1, Scores
  <2>6. After(c, c)
    BY <1>2, PairsListed DEF After
  <2>7. /\ e.next \in 0..Len(c.table.pairs)
        /\ e.next # NoRow => c.table.pairs[e.next][1] = key[2] /\ c.table.pairs[e.next][2] = key[3]
    BY <2>1 DEF RightFor
  <2>8. r.score = e.score /\ r.row = e.next /\ r.cache = c
    BY <2>2
  <2> QED BY <2>4, <2>5, <2>6, <2>7, <2>8 DEF Result
<1>7. CASE ~(found # <<>> /\ (needNext => found[1].next # NoRow))
  <2>1. PICK onward : onward = OnwardOf(c, needNext, Tail(key))
    OBVIOUS
  <2>2. r = Retain(ScoreUncached(c, signatures, data), row, key, onward)
    BY <1>1, <1>7, <2>1 DEF FromRow, OnwardOf
  <2> QED BY <2>1, <2>2, RetainGives
<1> QED BY <1>6, <1>7

LEMMA EnteredGives ==
  ASSUME NEW c, Good(c), NEW words, NEW data, NEW signatures, Three(c, words, data, signatures),
         NEW key, key = KeyOf(signatures, words), key # <<>>, NEW row, KeyRow(c, row, key),
         NEW needNext \in BOOLEAN,
         NEW at, at = IF row = NoRow THEN EnsureRow(c.table, Front(key)) ELSE [row |-> row, table |-> c.table],
         NEW r, r = Entered(c, key, signatures, data, needNext, at)
  PROVE  Result(c, r, data, key[2], key[3])
<1>1. c \in Caches
  BY DEF Good
<1>2. KeyRight(c, key, data)
  BY <1>1, KeyStands
<1>3. PICK front \in Pair : front = Front(key) /\ front[1] = key[1] /\ front[2] = key[2]
  BY <1>2 DEF KeyRight
<1>4. PICK d : d = WithTable(c, at.table)
  OBVIOUS
<1>5. Good(d) /\ After(c, d) /\ KeyRow(d, at.row, key)
  <2>1. CASE row = NoRow
    <3>1. at = EnsureRow(c.table, front)
      BY <1>3, <2>1
    <3>2. /\ Good(d) /\ After(c, d) /\ at.row \in 0..Len(d.table.pairs)
          /\ at.row # NoRow => d.table.pairs[at.row] = front
      BY <1>4, <3>1, RowEntered
    <3> QED BY <1>3, <3>2 DEF KeyRow
  <2>2. CASE row # NoRow
    <3>1. at.row = row /\ at.table = c.table
      BY <2>2
    <3>2. d = c
      BY <1>1, <1>4, <3>1 DEF WithTable, Caches
    <3> QED BY <1>1, <3>1, <3>2, PairsListed DEF After
  <2> QED BY <2>1, <2>2
<1>6. d.table = at.table
  BY <1>4 DEF WithTable
<1>7. r = FromRow(d, at.row, key, signatures, data, needNext, Find(d.table, at.row, key))
  <2>1. PICK x : x = [c EXCEPT !.table = at.table]
    OBVIOUS
  <2>2. x = d
    BY <1>1, <1>4, <2>1 DEF WithTable, Caches
  <2> QED BY <1>6, <2>1, <2>2 DEF Entered
<1>8. Three(d, words, data, signatures)
  BY <1>5, AfterStands DEF Three
<1>9. Result(d, r, data, key[2], key[3])
  BY <1>5, <1>7, <1>8, FromRowGives
<1> QED BY <1>5, <1>9, ResultOn

\* What a call knows of three words in a row and the row it carries.
Prior(c, call, w1, w2, w3, row) ==
  /\ Data(w1) \in AllData /\ Data(w2) \in AllData /\ Data(w3) \in AllData
  /\ call \in Scored => Placed(c, w1, Data(w1)) /\ Placed(c, w2, Data(w2)) /\ Placed(c, w3, Data(w3))
  /\ row \in 0..Len(c.table.pairs)
  /\ row # NoRow => c.table.pairs[row][1] = Signature(c, w1) /\ c.table.pairs[row][2] = Signature(c, w2)

DataOfThree(w1, w2, w3) == <<Data(w1), Data(w2), Data(w3)>>

LEMMA TransitionGives ==
  ASSUME NEW c, Good(c), NEW call, NEW w1, NEW w2, NEW w3, NEW row, Prior(c, call, w1, w2, w3, row),
         NEW needNext \in BOOLEAN,
         NEW r, r = Transition(call, c, <<w1, w2>>, w3, row, needNext)
  PROVE  Result(c, r, DataOfThree(w1, w2, w3), Signature(c, w2), Signature(c, w3))
<1>1. PICK words, data, signatures :
        /\ words = Append(<<w1, w2>>, w3)
        /\ data = [i \in 1..3 |-> Data(words[i])] /\ signatures = [i \in 1..3 |-> Signature(c, words[i])]
  OBVIOUS
<1>2. words[1] = w1 /\ words[2] = w2 /\ words[3] = w3
  <2>1. PICK S, before : S = {w1, w2, w3} /\ before = <<w1, w2>>
    OBVIOUS
  <2>2. before \in Seq(S) /\ Len(before) = 2 /\ w3 \in S
    BY <2>1
  <2>3. words = Append(before, w3) /\ before[1] = w1 /\ before[2] = w2
    BY <1>1, <2>1
  <2>4. \A i \in 1..2 : words[i] = before[i]
    BY <2>2, <2>3
  <2>5. words[Len(before) + 1] = w3
    BY <2>2, <2>3, AppendProperties, ZenonT(60)
  <2>6. Len(before) + 1 = 3 /\ 1 \in 1..2 /\ 2 \in 1..2
    BY <2>2
  <2>7. words[3] = w3
    BY <2>5, <2>6
  <2>8. words[1] = w1 /\ words[2] = w2
    BY <2>3, <2>4, <2>6
  <2> QED BY <2>7, <2>8
<1>3. data[1] = Data(w1) /\ data[2] = Data(w2) /\ data[3] = Data(w3)
  BY <1>1, <1>2
<1>4. c \in Caches
  BY DEF Good
<1>5. After(c, c)
  BY <1>4, PairsListed DEF After
<1>6. PICK score : score = TrigramScore(Data(w1), Data(w2), Data(w3))
  OBVIOUS
<1>7. score \in Int
  BY <1>6, Scores DEF Prior
<1>8. 0 \in 0..Len(c.table.pairs)
  BY <1>4, PairsListed
<1>9. CASE call \notin Scored
  <2>1. PICK prepared : prepared = [i \in 1..3 |-> PreparedWord(data[i])]
    OBVIOUS
  <2>2. PreparedScore(data, prepared) = score
    <3>1. \A i \in 1..3 : prepared[i] = PreparedWord(data[i])
      BY <2>1
    <3> QED BY <1>3, <1>6, <3>1, PartsScore
  <2>3. r = [score |-> score, row |-> NoRow, cache |-> c]
    BY <1>1, <1>9, <2>1, <2>2 DEF Transition
  <2>4. r.score = score /\ r.row = 0 /\ r.cache = c
    BY <2>3 DEF NoRow
  <2> QED BY <1>5, <1>6, <1>7, <1>8, <2>4 DEF Result, DataOfThree, NoRow
<1>10. CASE call \in Scored
  <2>1. PICK key : key = KeyOf(signatures, words)
    OBVIOUS
  <2>2. Three(c, words, data, signatures)
    <3>1. \A i \in 1..3 : i = 1 \/ i = 2 \/ i = 3
      OBVIOUS
    <3>3. \A i \in 1..3 : Placed(c, words[i], data[i])
      BY <1>2, <1>3, <1>10, <3>1 DEF Prior
    <3> QED BY <1>1, <3>3 DEF Three
  <2>3. CASE key = <<>>
    <3>1. PICK d : ScoreUncached(c, signatures, data) = [cache |-> d, score |-> score] /\ Good(d) /\ Preparing(c, d)
      BY <1>3, <1>6, <2>2, UncachedScore
    <3>2. r = Unretained(ScoreUncached(c, signatures, data))
      BY <1>1, <1>10, <2>1, <2>3 DEF Transition, KeyOf
    <3>3. r.score = score /\ r.row = 0 /\ r.cache = d
      BY <3>1, <3>2 DEF Unretained, NoRow
    <3>4. After(c, d) /\ 0 \in 0..Len(d.table.pairs)
      BY <1>4, <1>8, <3>1, AfterPreparing, SMTT(60) DEF Preparing
    <3> QED BY <1>6, <1>7, <3>1, <3>3, <3>4 DEF Result, DataOfThree, NoRow
  <2>4. CASE key # <<>>
    <3>1. PICK at : at = IF row = NoRow THEN EnsureRow(c.table, Front(key)) ELSE [row |-> row, table |-> c.table]
      OBVIOUS
    <3>2. r = Entered(c, key, signatures, data, needNext, at)
      BY <1>1, <1>10, <2>1, <2>4, <3>1 DEF Transition, KeyOf
    <3>3. key = signatures
      BY <1>4, <2>1, <2>2, <2>4, KeyStands
    <3>4. key[1] = Signature(c, w1) /\ key[2] = Signature(c, w2) /\ key[3] = Signature(c, w3)
      BY <1>1, <1>2, <3>3
    <3>5. KeyRow(c, row, key)
      BY <3>4 DEF Prior, KeyRow
    <3>6. Result(c, r, data, key[2], key[3])
      BY <2>1, <2>2, <2>4, <3>1, <3>2, <3>5, EnteredGives
    <3> QED BY <1>3, <3>4, <3>6 DEF Result, DataOfThree
  <2> QED BY <2>3, <2>4
<1> QED BY <1>9, <1>10

LEMMA ScoreGives ==
  ASSUME NEW c, Good(c), NEW call, NEW w1, NEW w2, NEW w3, NEW row, Prior(c, call, w1, w2, w3, row),
         NEW r, r = Score(call, c, <<w1, w2>>, w3, row)
  PROVE  Result(c, r, DataOfThree(w1, w2, w3), Signature(c, w2), Signature(c, w3))
<1>1. CASE call = "disambiguate"
  <2>1. PICK score : score = TrigramScore(Data(w1), Data(w2), Data(w3))
    OBVIOUS
  <2>2. score \in Int
    BY <2>1, Scores DEF Prior
  <2>3. c \in Caches
    BY DEF Good
  <2>4. After(c, c) /\ 0 \in 0..Len(c.table.pairs)
    BY <2>3, PairsListed DEF After
  <2>5. r.score = score /\ r.row = 0 /\ r.cache = c
    BY <1>1, <2>1 DEF Score, NoRow
  <2> QED BY <2>1, <2>2, <2>4, <2>5 DEF Result, DataOfThree, NoRow
<1>2. CASE call # "disambiguate"
  <2>1. PICK needNext \in BOOLEAN : needNext = TRUE
    OBVIOUS
  <2>2. r = Transition(call, c, <<w1, w2>>, w3, row, needNext)
    BY <1>2, <2>1 DEF Score
  <2> QED BY <2>2, TransitionGives
<1> QED BY <1>1, <1>2

-----------------------------------------------------------------------------
(***************************************************************************)
(* A hypothesis and its successors.                                        *)
(***************************************************************************)

\* What a call needs of the worker's cache.
Ready(c, call, sentence) ==
  /\ Good(c)
  /\ sentence \in Seq(Seq(Words))
  /\ call \in Scored => Interned(c, sentence)

LEMMA ReadyOn ==
  ASSUME NEW c, NEW call, NEW sentence, Ready(c, call, sentence), NEW d, Good(d), After(c, d)
  PROVE  Ready(d, call, sentence)
<1>1. Signatures(d) = Signatures(c)
  BY DEF After, Signatures
<1> QED BY <1>1 DEF Ready, Interned

LEMMA FollowsOn ==
  ASSUME NEW c, Good(c), NEW d, Good(d), After(c, d), NEW sentence, NEW done, NEW h, Follows(c, sentence, done, h)
  PROVE  Follows(d, sentence, done, h)
<1>1. PICK k, l : k = Len(c.table.pairs) /\ l = Len(d.table.pairs)
  OBVIOUS
<1>2. c \in Caches /\ d \in Caches
  BY DEF Good
<1>3. k \in Nat /\ l \in Nat /\ k <= l /\ h.row \in 0..k
  BY <1>1, <1>2, PairsListed DEF After, Follows
<1>4. h.row \in 0..l /\ (h.row # 0 => d.table.pairs[h.row] = c.table.pairs[h.row])
  BY <1>1, <1>3 DEF After
<1>5. \A word : Signature(d, word) = Signature(c, word)
  BY AfterStands
<1> QED BY <1>1, <1>4, <1>5 DEF Follows, NoRow

\* A word of the sentence, or a boundary.
LEMMA WordReady ==
  ASSUME NEW c, NEW call, NEW sentence, Ready(c, call, sentence), NEW w,
         \/ w \in {Begin, End}
         \/ \E i \in DOMAIN sentence : \E k \in DOMAIN sentence[i] : w = sentence[i][k]
  PROVE  Data(w) \in AllData /\ (call \in Scored => Placed(c, w, Data(w)))
<1>1. c \in Caches /\ sentence \in Seq(Seq(Words))
  BY DEF Ready, Good
<1>2. CASE w \in {Begin, End}
  BY <1>1, <1>2, WordPlaced, DataKnown
<1>3. CASE \E i \in DOMAIN sentence : \E k \in DOMAIN sentence[i] : w = sentence[i][k]
  <2>a. PICK i \in DOMAIN sentence : \E k \in DOMAIN sentence[i] : w = sentence[i][k]
    BY <1>3
  <2>1. PICK k \in DOMAIN sentence[i] : w = sentence[i][k]
    BY <2>a
  <2>2. sentence[i] \in Seq(Words)
    BY <1>1
  <2>3. w \in Words
    BY <2>1, <2>2
  <2>4. call \in Scored => Data(w) \in ToSet(Signatures(c))
    BY <2>1 DEF Ready, Interned
  <2> QED BY <1>1, <2>3, <2>4, WordPlaced, DataKnown
<1> QED BY <1>2, <1>3

\* A path of candidates of the first tokens.
PathOf(sentence, path) ==
  /\ path \in Seq(Nat) /\ Len(path) <= Len(sentence)
  /\ \A i \in 1..Len(path) : path[i] \in 1..Len(sentence[i])

LEMMA PathWord ==
  ASSUME NEW sentence \in Seq(Seq(Words)), NEW path, PathOf(sentence, path), NEW i \in Int, i <= Len(path),
         NEW w, w = WordAt(sentence, path, i)
  PROVE  \/ w \in {Begin, End}
         \/ \E n \in DOMAIN sentence : \E k \in DOMAIN sentence[n] : w = sentence[n][k]
<1>1. CASE i <= 0
  BY <1>1 DEF WordAt
<1>2. CASE ~(i <= 0)
  <2>1. w = sentence[i][path[i]]
    BY <1>2 DEF WordAt
  <2>2. Len(path) \in Nat /\ Len(path) <= Len(sentence) /\ \A n \in 1..Len(path) : path[n] \in 1..Len(sentence[n])
    BY DEF PathOf
  <2>3. i \in 1..Len(path)
    BY <1>2, <2>2
  <2>4. i \in DOMAIN sentence
    BY <2>2, <2>3
  <2>5. sentence[i] \in Seq(Words)
    BY <2>4
  <2>6. path[i] \in DOMAIN sentence[i]
    BY <2>2, <2>3, <2>5, SMT
  <2> QED BY <2>1, <2>4, <2>6
<1> QED BY <1>1, <1>2

LEMMA LastTwoReady ==
  ASSUME NEW c, NEW call, NEW sentence, Ready(c, call, sentence), NEW path, PathOf(sentence, path)
  PROVE  \E w1, w2 :
           /\ LastTwo(sentence, path) = <<w1, w2>>
           /\ w2 = WordAt(sentence, path, Len(path))
           /\ Data(w1) \in AllData /\ (call \in Scored => Placed(c, w1, Data(w1)))
           /\ Data(w2) \in AllData /\ (call \in Scored => Placed(c, w2, Data(w2)))
<1>1. PICK n \in Nat : n = Len(path)
  BY DEF PathOf
<1>2. PICK w1, w2 : w1 = WordAt(sentence, path, n - 1) /\ w2 = WordAt(sentence, path, n)
  OBVIOUS
<1>3. LastTwo(sentence, path) = <<w1, w2>>
  BY <1>1, <1>2 DEF LastTwo
<1>4. sentence \in Seq(Seq(Words))
  BY DEF Ready
<1>5. n - 1 \in Int /\ n - 1 <= Len(path) /\ n \in Int /\ n <= Len(path)
  BY <1>1
<1>6. \/ w1 \in {Begin, End}
      \/ \E i \in DOMAIN sentence : \E k \in DOMAIN sentence[i] : w1 = sentence[i][k]
  BY <1>2, <1>4, <1>5, PathWord
<1>7. \/ w2 \in {Begin, End}
      \/ \E i \in DOMAIN sentence : \E k \in DOMAIN sentence[i] : w2 = sentence[i][k]
  BY <1>2, <1>4, <1>5, PathWord
<1>8. Data(w1) \in AllData /\ (call \in Scored => Placed(c, w1, Data(w1)))
  BY <1>6, WordReady
<1>9. Data(w2) \in AllData /\ (call \in Scored => Placed(c, w2, Data(w2)))
  BY <1>7, WordReady
<1> QED BY <1>1, <1>2, <1>3, <1>8, <1>9

LEMMA PathLonger ==
  ASSUME NEW sentence \in Seq(Seq(Words)), NEW path, PathOf(sentence, path), Len(path) < Len(sentence),
         NEW a \in 1..Len(sentence[Len(path) + 1]), NEW p, p = Append(path, a)
  PROVE  /\ PathOf(sentence, p) /\ Len(p) = Len(path) + 1
         /\ LastTwo(sentence, p) = <<WordAt(sentence, path, Len(path)), sentence[Len(path) + 1][a]>>
<1>1. PICK n \in Nat : n = Len(path)
  BY DEF PathOf
<1>2. path \in Seq(Nat) /\ a \in Nat
  BY <1>1 DEF PathOf
<1>3. /\ p \in Seq(Nat) /\ Len(p) = n + 1 /\ p[n + 1] = a
      /\ \A i \in 1..n : p[i] = path[i]
  BY <1>1, <1>2, AppendProperties
<1>4. \A i \in 1..(n + 1) : i = n + 1 \/ i \in 1..n
  OBVIOUS
<1>5. \A i \in 1..(n + 1) : p[i] \in 1..Len(sentence[i])
  BY <1>1, <1>3, <1>4 DEF PathOf
<1>6. n + 1 <= Len(sentence)
  BY <1>1
<1>7. WordAt(sentence, p, n + 1) = sentence[n + 1][a]
  BY <1>3 DEF WordAt
<1>8. WordAt(sentence, p, n) = WordAt(sentence, path, n)
  <2>1. n <= 0 \/ n \in 1..n
    OBVIOUS
  <2> QED BY <1>3, <2>1 DEF WordAt
<1>9. LastTwo(sentence, p) = <<WordAt(sentence, p, n), WordAt(sentence, p, n + 1)>>
  BY <1>3 DEF LastTwo
<1> QED BY <1>1, <1>3, <1>5, <1>6, <1>7, <1>8, <1>9 DEF PathOf

LEMMA FollowedPath ==
  ASSUME NEW c, NEW sentence, NEW done \in Nat, NEW h, Follows(c, sentence, done, h), done <= Len(sentence)
  PROVE  PathOf(sentence, h.path) /\ Len(h.path) = done
BY DEF Follows, PathOf, Hypotheses

\* What a candidate of the next token scores behind a path.
NextScore(sentence, path, a) ==
  TrigramScore(Data(WordAt(sentence, path, Len(path) - 1)), Data(WordAt(sentence, path, Len(path))),
               Data(sentence[Len(path) + 1][a]))

\* The end of the sentence behind a path.
EndScore(sentence, path) ==
  TrigramScore(Data(WordAt(sentence, path, Len(path) - 1)), Data(WordAt(sentence, path, Len(path))), Data(End))

\* A hypothesis with one more candidate.
Extends(sentence, h, a, g) == g.path = Append(h.path, a) /\ g.score = h.score + NextScore(sentence, h.path, a)

LEMMA SuccessorGives ==
  ASSUME NEW c, NEW call, NEW sentence, Ready(c, call, sentence), NEW done \in Nat, done < Len(sentence),
         NEW h, Follows(c, sentence, done, h), NEW a \in 1..Len(sentence[done + 1]),
         NEW s, s = Successor(call, c, sentence, h, a)
  PROVE  /\ Good(s.cache) /\ After(c, s.cache) /\ Follows(s.cache, sentence, done + 1, s.h)
         /\ Extends(sentence, h, a, s.h)
<1>1. sentence \in Seq(Seq(Words)) /\ Good(c) /\ Len(sentence) \in Nat
  BY DEF Ready
<1>2. PICK path : path = h.path
  OBVIOUS
<1>3. PathOf(sentence, path) /\ Len(path) = done
  BY <1>1, <1>2, FollowedPath
<1>4. PICK w1, w2 :
        /\ LastTwo(sentence, path) = <<w1, w2>>
        /\ w2 = WordAt(sentence, path, done)
        /\ Data(w1) \in AllData /\ (call \in Scored => Placed(c, w1, Data(w1)))
        /\ Data(w2) \in AllData /\ (call \in Scored => Placed(c, w2, Data(w2)))
  BY <1>3, LastTwoReady
<1>5. PICK w3 : w3 = sentence[done + 1][a]
  OBVIOUS
<1>6. Data(w3) \in AllData /\ (call \in Scored => Placed(c, w3, Data(w3)))
  <2>1. done + 1 \in DOMAIN sentence
    BY <1>1
  <2>2. sentence[done + 1] \in Seq(Words)
    BY <1>1, <2>1
  <2>3. a \in DOMAIN sentence[done + 1]
    BY <2>2
  <2> QED BY <1>5, <2>1, <2>3, WordReady
<1>7. Prior(c, call, w1, w2, w3, h.row)
  <2>1. LastTwo(sentence, path)[1] = w1 /\ LastTwo(sentence, path)[2] = w2
    BY <1>4
  <2> QED BY <1>2, <1>4, <1>6, <2>1 DEF Prior, Follows
<1>8. PICK r : r = Score(call, c, <<w1, w2>>, w3, h.row)
  OBVIOUS
<1>9. Result(c, r, DataOfThree(w1, w2, w3), Signature(c, w2), Signature(c, w3))
  BY <1>1, <1>7, <1>8, ScoreGives
<1>10. PICK p : p = Append(path, a)
  OBVIOUS
<1>11. s = [cache |-> r.cache, h |-> [path |-> p, row |-> r.row, score |-> h.score + r.score]]
  BY <1>2, <1>3, <1>4, <1>5, <1>8, <1>10 DEF Successor, Extended
<1>12. PathOf(sentence, p) /\ Len(p) = done + 1 /\ LastTwo(sentence, p) = <<w2, w3>>
  BY <1>1, <1>3, <1>4, <1>5, <1>10, PathLonger
<1>13. PICK d : d = r.cache
  OBVIOUS
<1>14. Good(d) /\ After(c, d)
  BY <1>9, <1>13 DEF Result
<1>15. \A word : Signature(d, word) = Signature(c, word)
  BY <1>14, AfterStands
<1>16. PICK g : g = s.h
  OBVIOUS
<1>17. g.path = p /\ g.row = r.row /\ g.score = h.score + r.score
  BY <1>11, <1>16
<1>18. g \in Hypotheses
  <2>1. h.score \in Int /\ r.score \in Int /\ r.row \in Nat /\ p \in Seq(Nat)
    BY <1>9, <1>12, <1>14, PairsListed DEF Follows, Hypotheses, Result, PathOf, Good
  <2>2. g = [path |-> p, row |-> r.row, score |-> h.score + r.score]
    BY <1>11, <1>16
  <2> QED BY <2>1, <2>2 DEF Hypotheses
<1>19. g.row \in 0..Len(d.table.pairs)
  BY <1>9, <1>13, <1>17 DEF Result
<1>20. g.row # NoRow => d.table.pairs[g.row][1] = Signature(d, w2) /\ d.table.pairs[g.row][2] = Signature(d, w3)
  BY <1>9, <1>13, <1>15, <1>17 DEF Result
<1>21. LastTwo(sentence, g.path)[1] = w2 /\ LastTwo(sentence, g.path)[2] = w3
  BY <1>12, <1>17
<1>22. Len(g.path) = done + 1 /\ \A i \in 1..(done + 1) : g.path[i] \in 1..Len(sentence[i])
  BY <1>12, <1>17 DEF PathOf
<1>23. Follows(d, sentence, done + 1, g)
  BY <1>18, <1>19, <1>20, <1>21, <1>22 DEF Follows
<1>24. Extends(sentence, h, a, g)
  <2>1. r.score = TrigramScore(Data(w1), Data(w2), Data(w3))
    BY <1>9 DEF Result, DataOfThree
  <2>2. w1 = WordAt(sentence, path, Len(path) - 1) /\ w2 = WordAt(sentence, path, Len(path))
    <3>1. LastTwo(sentence, path)[1] = w1 /\ LastTwo(sentence, path)[2] = w2
      BY <1>4
    <3> QED BY <3>1 DEF LastTwo
  <2>3. r.score = NextScore(sentence, path, a)
    BY <1>3, <1>5, <2>1, <2>2 DEF NextScore
  <2> QED BY <1>2, <1>10, <1>17, <2>3 DEF Extends
<1> QED BY <1>11, <1>13, <1>14, <1>16, <1>23, <1>24

-----------------------------------------------------------------------------
(***************************************************************************)
(* Recursions: they are defined, and keep what every step keeps.           *)
(***************************************************************************)

Iterated(f, n, S, a, g) ==
  f \in [0..n -> S] /\ f[0] = a /\ \A k \in 1..n : f[k] = g[<<k, f[k - 1]>>]

LEMMA Defined ==
  ASSUME NEW n, NEW S, NEW a, NEW g, Numbers!Iterates(n, S, a, g)
  PROVE  \E f : Iterated(f, n, S, a, g)
BY Numbers!Iteration DEF Iterated

LEMMA Reached ==
  ASSUME NEW n \in Nat, NEW S, NEW f, f[0] \in S, \A k \in 1..n : f[k - 1] \in S => f[k] \in S
  PROVE  \A k \in 0..n : f[k] \in S
<1> DEFINE T == {k \in Nat : k <= n => f[k] \in S}
<1>1. 0 \in T
  OBVIOUS
<1>2. ASSUME NEW k \in Nat, k \in T PROVE k + 1 \in T
  <2> SUFFICES ASSUME k + 1 <= n PROVE f[k + 1] \in S
    OBVIOUS
  <2>1. PICK j \in 1..n : j = k + 1 /\ j - 1 = k
    OBVIOUS
  <2> QED BY <1>2, <2>1
<1>3. Nat \subseteq T
  <2> HIDE DEF T
  <2> QED BY <1>1, <1>2, Numbers!Induct
<1> QED BY <1>3

\* What sequences strung together hold.
LEMMA Flattened ==
  ASSUME NEW S, NEW seqs \in Seq(Seq(S))
  PROVE  FlattenSeq(seqs) \in Seq(S) /\ \A i \in 1..Len(seqs) : ToSet(seqs[i]) \subseteq ToSet(FlattenSeq(seqs))
<1>1. PICK l \in Nat : l = Len(seqs)
  OBVIOUS
<1>2. CASE l = 0
  <2>1. FlattenSeq(seqs) = seqs /\ seqs = <<>>
    <3>1. FlattenSeq(seqs) = seqs
      BY <1>1, <1>2 DEF FlattenSeq
    <3>2. seqs = <<>>
      BY <1>1, <1>2, EmptySeq
    <3> QED BY <3>1, <3>2
  <2>2. <<>> \in Seq(S)
    OBVIOUS
  <2> QED BY <1>1, <1>2, <2>1, <2>2
<1>3. CASE l # 0
  <2> DEFINE G(k, x) == IF k = 1 THEN seqs[k] ELSE x \o seqs[k]
             g == [p \in (1..l) \X Seq(S) |-> G(p[1], p[2])]
             Right(f) == f = [i \in 1..l |-> IF i = 1 THEN seqs[i] ELSE f[i - 1] \o seqs[i]]
             flatten == CHOOSE f : Right(f)
  <2>1. \A k \in 1..l : seqs[k] \in Seq(S)
    BY <1>1
  <2>2. \A k \in 1..l, x \in Seq(S) : G(k, x) \in Seq(S)
    BY <2>1, ConcatProperties
  <2>3. g \in [(1..l) \X Seq(S) -> Seq(S)]
    <3> HIDE DEF G
    <3> QED BY <2>2
  <2>4. <<>> \in Seq(S)
    OBVIOUS
  <2>5. PICK p \in [0..l -> Seq(S)] : \A k \in 1..l : p[k] = g[<<k, p[k - 1]>>]
    <3> HIDE DEF g
    <3>1. Numbers!Iterates(l, Seq(S), <<>>, g)
      BY <2>3, <2>4 DEF Numbers!Iterates
    <3>2. PICK p : Iterated(p, l, Seq(S), <<>>, g)
      BY <3>1, Defined
    <3> QED BY <3>2 DEF Iterated
  <2>6. \A k \in 1..l : p[k] = G(k, p[k - 1])
    <3> SUFFICES ASSUME NEW k \in 1..l PROVE p[k] = G(k, p[k - 1])
      OBVIOUS
    <3>1. p[k - 1] \in Seq(S)
      OBVIOUS
    <3>2. <<k, p[k - 1]>> \in (1..l) \X Seq(S)
      BY <3>1
    <3> HIDE DEF G
    <3> QED BY <2>5, <3>2
  <2>7. PICK q : q = [i \in 1..l |-> p[i]]
    OBVIOUS
  <2>8. Right(q)
    <3>1. \A i \in 1..l : q[i] = IF i = 1 THEN seqs[i] ELSE q[i - 1] \o seqs[i]
      <4> SUFFICES ASSUME NEW i \in 1..l PROVE q[i] = IF i = 1 THEN seqs[i] ELSE q[i - 1] \o seqs[i]
        OBVIOUS
      <4>1. i # 1 => q[i - 1] = p[i - 1]
        BY <2>7
      <4> QED BY <2>6, <2>7, <4>1
    <3> QED BY <2>7, <3>1
  <2>9. Right(flatten)
    <3> HIDE DEF Right
    <3> QED BY <2>8
  <2>10. FlattenSeq(seqs) = flatten[l]
    BY <1>1, <1>3 DEF FlattenSeq
  <2> HIDE DEF flatten
  <2>11. \A i \in 1..l : flatten[i] = IF i = 1 THEN seqs[i] ELSE flatten[i - 1] \o seqs[i]
    BY <2>9, ZenonT(30)
  <2> DEFINE Holds(k) == flatten[k] \in Seq(S) /\ \A i \in 1..k : ToSet(seqs[i]) \subseteq ToSet(flatten[k])
             T == {k \in Nat : k + 1 <= l => Holds(k + 1)}
  <2>12. 0 \in T
    <3>0. 1 \in 1..l
      BY <1>3
    <3>1. flatten[1] = seqs[1]
      BY <2>11, <3>0
    <3>2. \A i \in 1..1 : i = 1
      OBVIOUS
    <3> QED BY <2>1, <3>0, <3>1, <3>2
  <2>13. ASSUME NEW k \in Nat, k \in T PROVE k + 1 \in T
    <3> SUFFICES ASSUME (k + 1) + 1 <= l PROVE Holds((k + 1) + 1)
      OBVIOUS
    <3>0. (k + 1) + 1 = k + 2
      OBVIOUS
    <3>1. PICK j : j = k + 2
      OBVIOUS
    <3>a. j \in 1..l /\ j - 1 = k + 1 /\ j # 1 /\ k + 1 <= l
      BY <3>1
    <3>b. PICK s : s = flatten[k + 1]
      OBVIOUS
    <3>2. s \in Seq(S) /\ \A i \in 1..(k + 1) : ToSet(seqs[i]) \subseteq ToSet(s)
      BY <2>13, <3>a, <3>b
    <3>3. flatten[j] = s \o seqs[j]
      BY <2>11, <3>a, <3>b
    <3>c. PICK t : t = seqs[j]
      OBVIOUS
    <3>4. t \in Seq(S)
      BY <2>1, <3>a, <3>c
    <3>d. PICK st : st = s \o t
      OBVIOUS
    <3>5. /\ st \in Seq(S) /\ Len(st) = Len(s) + Len(t)
          /\ \A i \in 1..(Len(s) + Len(t)) : st[i] = IF i <= Len(s) THEN s[i] ELSE t[i - Len(s)]
      BY <3>2, <3>4, <3>d, ConcatProperties
    <3>e. /\ Len(s) \in Nat /\ Len(t) \in Nat /\ DOMAIN s = 1..Len(s) /\ DOMAIN t = 1..Len(t)
          /\ DOMAIN st = 1..(Len(s) + Len(t))
      BY <3>2, <3>4, <3>5
    <3>6. ToSet(s) \subseteq ToSet(st)
      <4> SUFFICES ASSUME NEW i \in DOMAIN s PROVE \E m \in DOMAIN st : st[m] = s[i]
        BY DEF ToSet
      <4>1. i \in 1..(Len(s) + Len(t)) /\ i <= Len(s)
        BY <3>e
      <4>2. st[i] = s[i] /\ i \in DOMAIN st
        BY <3>5, <3>e, <4>1
      <4> QED BY <4>2
    <3>7. ToSet(t) \subseteq ToSet(st)
      <4> SUFFICES ASSUME NEW i \in DOMAIN t PROVE \E m \in DOMAIN st : st[m] = t[i]
        BY DEF ToSet
      <4>1. PICK m : m = Len(s) + i
        OBVIOUS
      <4>2. m \in 1..(Len(s) + Len(t)) /\ ~(m <= Len(s)) /\ m - Len(s) = i
        BY <3>e, <4>1, SMT
      <4>3. st[m] = t[i] /\ m \in DOMAIN st
        BY <3>5, <3>e, <4>2
      <4> QED BY <4>3
    <3>8. ASSUME NEW i \in 1..(k + 2) PROVE ToSet(seqs[i]) \subseteq ToSet(st)
      <4>1. i = j \/ i \in 1..(k + 1)
        BY <3>1
      <4> QED BY <3>2, <3>c, <3>6, <3>7, <4>1
    <3>9. Holds(k + 2)
      BY <3>1, <3>3, <3>c, <3>d, <3>5, <3>8
    <3> QED BY <3>0, <3>9
  <2>14. Nat \subseteq T
    <3> HIDE DEF T
    <3> QED BY <2>12, <2>13, Numbers!Induct
  <2>15. Holds(l)
    <3>1. l - 1 \in Nat /\ (l - 1) + 1 = l
      BY <1>3
    <3>2. l - 1 \in T
      BY <2>14, <3>1
    <3> QED BY <3>1, <3>2
  <2> QED BY <1>1, <2>10, <2>15
<1> QED BY <1>2, <1>3

-----------------------------------------------------------------------------
(***************************************************************************)
(* The table of active hypotheses, and the pairs of a layer.               *)
(***************************************************************************)

Cells(H) == {<<>>} \cup {<<h>> : h \in H}
Actives(H) == {active \in UNION {[0..(n - 1) -> Cells(H)] : n \in Nat} : TRUE}

LEMMA ActiveSized ==
  ASSUME NEW H, NEW active \in Actives(H)
  PROVE  \E n \in Nat : active \in [0..(n - 1) -> Cells(H)]
BY DEF Actives

LEMMA SizedActive ==
  ASSUME NEW H, NEW n \in Nat, NEW active \in [0..(n - 1) -> Cells(H)]
  PROVE  active \in Actives(H)
BY DEF Actives

LEMMA WiderActive ==
  ASSUME NEW H, NEW K, H \subseteq K, NEW active \in Actives(H)
  PROVE  active \in Actives(K)
<1>1. PICK n \in Nat : active \in [0..(n - 1) -> Cells(H)]
  BY ActiveSized
<1>2. Cells(H) \subseteq Cells(K)
  BY DEF Cells
<1>3. active \in [0..(n - 1) -> Cells(K)]
  BY <1>1, <1>2
<1> QED BY <1>3, SizedActive

LEMMA SlotTaken ==
  ASSUME NEW H, NEW active \in Actives(H), NEW h \in H, NEW slot, NEW taken, taken = [active EXCEPT ![slot] = <<h>>]
  PROVE  taken \in Actives(H)
<1>1. PICK n \in Nat : active \in [0..(n - 1) -> Cells(H)]
  BY ActiveSized
<1>2. <<h>> \in Cells(H)
  BY DEF Cells
<1>3. taken \in [0..(n - 1) -> Cells(H)]
  BY <1>1, <1>2
<1> QED BY <1>3, SizedActive

LEMMA ActiveListed ==
  ASSUME NEW H, NEW active \in Actives(H)
  PROVE  Listed(active) \in Seq(H)
<1>1. PICK n \in Nat : active \in [0..(n - 1) -> Cells(H)]
  BY ActiveSized
<1>2. Cardinality(DOMAIN active) = n
  <2>1. Cardinality(0..(n - 1)) = IF 0 > n - 1 THEN 0 ELSE (n - 1) - 0 + 1
    BY FS_Interval
  <2> QED BY <1>1, <2>1
<1>3. Cells(H) \subseteq Seq(H)
  <2>1. <<>> \in Seq(H)
    OBVIOUS
  <2>2. \A h \in H : <<h>> \in Seq(H)
    OBVIOUS
  <2> QED BY <2>1, <2>2 DEF Cells
<1>4. PICK seqs : seqs = [k \in 1..n |-> active[k - 1]]
  OBVIOUS
<1>5. \A k \in 1..n : active[k - 1] \in Seq(H)
  BY <1>1, <1>3
<1>6. seqs \in Seq(Seq(H))
  BY <1>4, <1>5
<1>7. Listed(active) = FlattenSeq(seqs)
  BY <1>2, <1>4 DEF Listed
<1> QED BY <1>6, <1>7, Flattened

LEMMA ActiveExpanded ==
  ASSUME NEW H, NEW active \in Actives(H), NEW sentence
  PROVE  Expand(active, sentence) \in Actives(H)
<1>1. PICK size \in Nat : active \in [0..(size - 1) -> Cells(H)] /\ Cardinality(DOMAIN active) = size
  <2>1. PICK n \in Nat : active \in [0..(n - 1) -> Cells(H)]
    BY ActiveSized
  <2>2. Cardinality(0..(n - 1)) = IF 0 > n - 1 THEN 0 ELSE (n - 1) - 0 + 1
    BY FS_Interval
  <2> QED BY <2>1, <2>2
<1>2. PICK held : held = Listed(active) /\ held \in Seq(H)
  BY ActiveListed
<1>3. PICK n \in Nat : n = Len(held)
  BY <1>2
<1>4. PICK S : S = Actives(H)
  OBVIOUS
<1>5. PICK a : a = [s \in 0..(2 * size - 1) |-> <<>>]
  OBVIOUS
<1>6. a \in S
  <2>1. <<>> \in Cells(H) /\ 2 * size \in Nat
    BY DEF Cells
  <2>2. a \in [0..(2 * size - 1) -> Cells(H)]
    BY <1>5, <2>1
  <2> QED BY <1>4, <2>1, <2>2, SizedActive
<1> DEFINE G(k, x) == Settle(x, held[k], size, sentence)
           g == [p \in (1..n) \X S |-> G(p[1], p[2])]
           Right(f) == f = [k \in 0..n |-> IF k = 0 THEN a ELSE Settle(f[k - 1], held[k], size, sentence)]
           grown == CHOOSE f : Right(f)
<1>7. ASSUME NEW k \in 1..n, NEW x \in S PROVE G(k, x) \in S
  <2>1. PICK y : y = G(k, x)
    OBVIOUS
  <2>2. PICK h, slot : h = held[k] /\ slot = Probe(x, LastTwo(sentence, h.path), size, {})
    OBVIOUS
  <2>3. y = [x EXCEPT ![slot] = <<h>>]
    BY <2>1, <2>2 DEF Settle
  <2>4. h \in H
    BY <1>2, <1>3, <2>2
  <2> QED BY <1>4, <2>1, <2>3, <2>4, SlotTaken
<1>8. PICK f : Iterated(f, n, S, a, g)
  <2>1. g \in [(1..n) \X S -> S]
    <3> HIDE DEF G
    <3> QED BY <1>7
  <2>2. Numbers!Iterates(n, S, a, g)
    <3> HIDE DEF g
    <3> QED BY <1>6, <2>1 DEF Numbers!Iterates
  <2> HIDE DEF g
  <2> QED BY <2>2, Defined
<1>9. Right(f)
  <2>1. f \in [0..n -> S] /\ f[0] = a /\ \A k \in 1..n : f[k] = g[<<k, f[k - 1]>>]
    <3> HIDE DEF g
    <3> QED BY <1>8 DEF Iterated
  <2>2. \A k \in 1..n : f[k] = G(k, f[k - 1])
    <3> SUFFICES ASSUME NEW k \in 1..n PROVE f[k] = G(k, f[k - 1])
      OBVIOUS
    <3>1. <<k, f[k - 1]>> \in (1..n) \X S
      BY <2>1
    <3> HIDE DEF G
    <3> QED BY <2>1, <3>1
  <2> QED BY <2>1, <2>2
<1>10. Right(grown)
  <2> HIDE DEF Right
  <2> QED BY <1>9
<1>11. Expand(active, sentence) = grown[n]
  BY <1>1, <1>2, <1>3, <1>5 DEF Expand
<1> HIDE DEF grown
<1>12. \A k \in 0..n : grown[k] = IF k = 0 THEN a ELSE Settle(grown[k - 1], held[k], size, sentence)
  BY <1>10, ZenonT(30)
<1>13. \A k \in 1..n : grown[k - 1] \in S => grown[k] \in S
  <2> SUFFICES ASSUME NEW k \in 1..n, grown[k - 1] \in S PROVE grown[k] \in S
    OBVIOUS
  <2>1. k \in 0..n /\ k # 0
    OBVIOUS
  <2>2. grown[k] = G(k, grown[k - 1])
    BY <1>12, <2>1
  <2> HIDE DEF G
  <2> QED BY <1>7, <2>2
<1>14. grown[0] \in S
  BY <1>6, <1>12
<1>15. grown[n] \in S
  BY <1>13, <1>14, Reached
<1> QED BY <1>4, <1>11, <1>15

LEMMA ActiveAdded ==
  ASSUME NEW H, NEW active \in Actives(H), NEW h \in H, NEW sentence
  PROVE  Add(active, h, sentence) \in Actives(H)
<1>1. PICK slot :
        slot = Probe(active, LastTwo(sentence, h.path), Cardinality(DOMAIN active),
                     {other \in ToSet(Listed(active)) : LastTwo(sentence, other.path) = LastTwo(sentence, h.path)})
  OBVIOUS
<1>2. PICK added : added = [active EXCEPT ![slot] = <<h>>]
  OBVIOUS
<1>3. added \in Actives(H)
  BY <1>2, SlotTaken
<1>4. Add(active, h, sentence) \in {active, added, Expand(added, sentence)}
  BY <1>1, <1>2 DEF Add
<1> QED BY <1>3, <1>4, ActiveExpanded

LEMMA NewTable == ASSUME NEW H PROVE NewActive \in Actives(H)
<1>1. NewActive \in [0..(8 - 1) -> Cells(H)]
  BY DEF NewActive, Cells
<1> QED BY <1>1, SizedActive

LEMMA PairsOf ==
  ASSUME NEW H, NEW active \in Seq(H), NEW n \in Nat
  PROVE  Pairs(active, n) \in Seq((1..n) \X H)
<1>1. PICK S : S = (1..n) \X H
  OBVIOUS
<1>2. PICK seqs : seqs = [a \in 1..n |-> [k \in DOMAIN active |-> <<a, active[k]>>]]
  OBVIOUS
<1>3. ASSUME NEW a \in 1..n PROVE [k \in DOMAIN active |-> <<a, active[k]>>] \in Seq(S)
  <2>1. DOMAIN active = 1..Len(active) /\ Len(active) \in Nat
    OBVIOUS
  <2>2. \A k \in DOMAIN active : <<a, active[k]>> \in S
    BY <1>1
  <2> QED BY <2>1, <2>2
<1>4. seqs \in Seq(Seq(S))
  BY <1>2, <1>3
<1> QED BY <1>1, <1>2, <1>4, Flattened DEF Pairs

-----------------------------------------------------------------------------
(***************************************************************************)
(* The layers of the hash decoder and of the dense one.                    *)
(***************************************************************************)

Followers(c, sentence, done) == {h \in Hypotheses : Follows(c, sentence, done, h)}

HashLayers(c, sentence, done) ==
  {l \in [cache : Caches, table : Actives(Hypotheses)] :
     Good(l.cache) /\ After(c, l.cache) /\ l.table \in Actives(Followers(l.cache, sentence, done))}

DenseLayers(c, sentence, done) ==
  {l \in [cache : Caches, active : Seq(Hypotheses), tied : BOOLEAN] :
     Good(l.cache) /\ After(c, l.cache) /\ l.active \in Seq(Followers(l.cache, sentence, done))}

LEMMA FollowersOn ==
  ASSUME NEW c, Good(c), NEW d, Good(d), After(c, d), NEW sentence, NEW done
  PROVE  Followers(c, sentence, done) \subseteq Followers(d, sentence, done)
BY FollowsOn DEF Followers

\* What is asked of a layer and of a pair of it.
Extending(c, call, sentence, done) ==
  Ready(c, call, sentence) /\ done \in Nat /\ done < Len(sentence)

PairOf(c, sentence, done) == (1..Len(sentence[done + 1])) \X Followers(c, sentence, done)

LEMMA PairSuccessor ==
  ASSUME NEW c, NEW call, NEW sentence, NEW done, Extending(c, call, sentence, done),
         NEW d, Good(d), After(c, d), NEW pair \in PairOf(c, sentence, done),
         NEW s, s = Successor(call, d, sentence, pair[2], pair[1])
  PROVE  /\ Good(s.cache) /\ After(c, s.cache) /\ After(d, s.cache)
         /\ s.h \in Followers(s.cache, sentence, done + 1) /\ Extends(sentence, pair[2], pair[1], s.h)
<1>1. PICK a, h : a = pair[1] /\ h = pair[2]
  OBVIOUS
<1>2. a \in 1..Len(sentence[done + 1]) /\ h \in Followers(c, sentence, done)
  BY <1>1 DEF PairOf
<1>3. Good(c) /\ Ready(d, call, sentence) /\ done \in Nat /\ done < Len(sentence)
  BY ReadyOn DEF Extending, Ready
<1>4. h \in Followers(d, sentence, done)
  BY <1>2, <1>3, FollowersOn
<1>5. Follows(d, sentence, done, h)
  BY <1>4 DEF Followers
<1>6. s = Successor(call, d, sentence, h, a)
  BY <1>1
<1>7. Good(s.cache) /\ After(d, s.cache) /\ Follows(s.cache, sentence, done + 1, s.h) /\ Extends(sentence, h, a, s.h)
  BY <1>2, <1>3, <1>5, <1>6, SuccessorGives
<1>8. c \in Caches /\ d \in Caches /\ s.cache \in Caches
  BY <1>3, <1>7 DEF Good
<1>9. After(c, s.cache)
  BY <1>7, <1>8, AfterOn, SMTT(60)
<1>10. s.h \in Hypotheses
  BY <1>7 DEF Follows
<1> QED BY <1>1, <1>7, <1>9, <1>10 DEF Followers

\* What a pair adds: an extension of its hypothesis by its candidate.
HashAdds(sentence, done, layer, pair, next) ==
  \E g \in Hypotheses : /\ Extends(sentence, pair[2], pair[1], g)
                        /\ PathOf(sentence, g.path) /\ Len(g.path) = done
                        /\ next.table = Add(layer.table, g, sentence)

LEMMA FollowerPath ==
  ASSUME NEW c, NEW sentence, NEW done \in Nat, done <= Len(sentence), NEW h \in Followers(c, sentence, done)
  PROVE  h \in Hypotheses /\ PathOf(sentence, h.path) /\ Len(h.path) = done
BY FollowedPath DEF Followers

LEMMA HashNextGives ==
  ASSUME NEW c, NEW call, NEW sentence, NEW done, Extending(c, call, sentence, done),
         NEW layer \in HashLayers(c, sentence, done + 1), NEW pair \in PairOf(c, sentence, done),
         NEW next, next = HashNext(call, sentence, layer, pair)
  PROVE  next \in HashLayers(c, sentence, done + 1) /\ HashAdds(sentence, done + 1, layer, pair, next)
<1>1. PICK d, table : d = layer.cache /\ table = layer.table
  OBVIOUS
<1>2. /\ Good(d) /\ After(c, d) /\ table \in Actives(Followers(d, sentence, done + 1))
      /\ d \in Caches
  BY <1>1 DEF HashLayers
<1>3. PICK s : s = Successor(call, d, sentence, pair[2], pair[1])
  OBVIOUS
<1>4. /\ Good(s.cache) /\ After(c, s.cache) /\ After(d, s.cache)
      /\ s.h \in Followers(s.cache, sentence, done + 1) /\ Extends(sentence, pair[2], pair[1], s.h)
  BY <1>2, <1>3, PairSuccessor
<1>5. PICK H : H = Followers(s.cache, sentence, done + 1)
  OBVIOUS
<1>6. table \in Actives(H)
  BY <1>2, <1>4, <1>5, FollowersOn, WiderActive
<1>7. PICK t : t = Add(table, s.h, sentence)
  OBVIOUS
<1>8. t \in Actives(H) /\ t \in Actives(Hypotheses)
  <2>1. t \in Actives(H)
    BY <1>4, <1>5, <1>6, <1>7, ActiveAdded
  <2>2. H \subseteq Hypotheses
    BY <1>5 DEF Followers
  <2> QED BY <2>1, <2>2, WiderActive
<1>9. next = [cache |-> s.cache, table |-> t]
  BY <1>1, <1>3, <1>7 DEF HashNext, HashStep
<1>10. s.cache \in Caches
  BY <1>4 DEF Good
<1>11. next \in HashLayers(c, sentence, done + 1)
  BY <1>4, <1>5, <1>8, <1>9, <1>10 DEF HashLayers
<1>12. HashAdds(sentence, done + 1, layer, pair, next)
  <2>1. done + 1 \in Nat /\ done + 1 <= Len(sentence)
    BY DEF Extending, Ready
  <2>2. s.h \in Hypotheses /\ PathOf(sentence, s.h.path) /\ Len(s.h.path) = done + 1
    BY <1>4, <2>1, FollowerPath
  <2>3. next.table = Add(layer.table, s.h, sentence)
    BY <1>1, <1>7, <1>9
  <2> QED BY <1>4, <2>2, <2>3 DEF HashAdds
<1> QED BY <1>11, <1>12

\* The layers, one for every pair.
HashRun(c, sentence, done, pairs, n, layers) ==
  /\ layers[0] = [cache |-> c, table |-> NewActive]
  /\ \A k \in 0..n : layers[k] \in HashLayers(c, sentence, done)
  /\ \A k \in 1..n : HashAdds(sentence, done, layers[k - 1], pairs[k], layers[k])

LEMMA HashRuns ==
  ASSUME NEW c, NEW call, NEW sentence, NEW done, Extending(c, call, sentence, done),
         NEW pairs \in Seq(PairOf(c, sentence, done)), NEW n \in Nat, n = Len(pairs)
  PROVE  \E layers : HashRun(c, sentence, done + 1, pairs, n, layers) /\ HashAll(call, c, sentence, pairs) = layers[n]
<1>2. PICK S : S = HashLayers(c, sentence, done + 1)
  OBVIOUS
<1>3. PICK a : a = [cache |-> c, table |-> NewActive]
  OBVIOUS
<1>4. a \in S
  <2>1. Good(c) /\ c \in Caches
    BY DEF Extending, Ready, Good
  <2>2. After(c, c)
    BY <2>1, PairsListed DEF After
  <2> QED BY <1>2, <1>3, <2>1, <2>2, NewTable DEF HashLayers
<1> DEFINE G(k, x) == HashNext(call, sentence, x, pairs[k])
           g == [p \in (1..n) \X S |-> G(p[1], p[2])]
           Right(f) == f = [k \in 0..n |-> IF k = 0 THEN a ELSE HashNext(call, sentence, f[k - 1], pairs[k])]
           layers == CHOOSE f : Right(f)
<1>5. ASSUME NEW k \in 1..n, NEW x \in S PROVE G(k, x) \in S
  <2>1. pairs[k] \in PairOf(c, sentence, done)
    OBVIOUS
  <2> QED BY <1>2, <2>1, HashNextGives
<1>6. PICK f : Iterated(f, n, S, a, g)
  <2>1. g \in [(1..n) \X S -> S]
    <3> HIDE DEF G
    <3> QED BY <1>5
  <2>2. Numbers!Iterates(n, S, a, g)
    <3> HIDE DEF g
    <3> QED BY <1>4, <2>1 DEF Numbers!Iterates
  <2> HIDE DEF g
  <2> QED BY <2>2, Defined
<1>7. Right(f)
  <2>1. f \in [0..n -> S] /\ f[0] = a /\ \A k \in 1..n : f[k] = g[<<k, f[k - 1]>>]
    <3> HIDE DEF g
    <3> QED BY <1>6 DEF Iterated
  <2>2. \A k \in 1..n : f[k] = G(k, f[k - 1])
    <3> SUFFICES ASSUME NEW k \in 1..n PROVE f[k] = G(k, f[k - 1])
      OBVIOUS
    <3>1. <<k, f[k - 1]>> \in (1..n) \X S
      BY <2>1
    <3> HIDE DEF G
    <3> QED BY <2>1, <3>1
  <2> QED BY <2>1, <2>2
<1>8. Right(layers)
  <2> HIDE DEF Right
  <2> QED BY <1>7
<1>9. HashAll(call, c, sentence, pairs) = layers[n]
  BY <1>3 DEF HashAll
<1> HIDE DEF layers
<1>10. \A k \in 0..n : layers[k] = IF k = 0 THEN a ELSE HashNext(call, sentence, layers[k - 1], pairs[k])
  BY <1>8, ZenonT(30)
<1>11. \A k \in 1..n : layers[k - 1] \in S => layers[k] \in S
  <2> SUFFICES ASSUME NEW k \in 1..n, layers[k - 1] \in S PROVE layers[k] \in S
    OBVIOUS
  <2>1. k \in 0..n /\ k # 0
    OBVIOUS
  <2>2. layers[k] = G(k, layers[k - 1])
    BY <1>10, <2>1
  <2> HIDE DEF G
  <2> QED BY <1>5, <2>2
<1>12. layers[0] \in S
  BY <1>4, <1>10
<1>13. \A k \in 0..n : layers[k] \in S
  BY <1>11, <1>12, Reached
<1>14. ASSUME NEW k \in 1..n PROVE HashAdds(sentence, done + 1, layers[k - 1], pairs[k], layers[k])
  <2>1. k \in 0..n /\ k # 0 /\ k - 1 \in 0..n
    OBVIOUS
  <2>2. layers[k] = HashNext(call, sentence, layers[k - 1], pairs[k])
    BY <1>10, <2>1
  <2>3. pairs[k] \in PairOf(c, sentence, done)
    OBVIOUS
  <2>4. layers[k - 1] \in HashLayers(c, sentence, done + 1)
    BY <1>2, <1>13, <2>1
  <2> QED BY <2>2, <2>3, <2>4, HashNextGives
<1>15. layers[0] = a
  BY <1>10
<1>16. HashRun(c, sentence, done + 1, pairs, n, layers)
  BY <1>2, <1>3, <1>13, <1>14, <1>15 DEF HashRun
<1> QED BY <1>9, <1>16

LEMMA HashGives ==
  ASSUME NEW c, NEW call, NEW sentence, NEW done, Extending(c, call, sentence, done),
         NEW pairs \in Seq(PairOf(c, sentence, done))
  PROVE  HashAll(call, c, sentence, pairs) \in HashLayers(c, sentence, done + 1)
<1>1. PICK n \in Nat : n = Len(pairs)
  OBVIOUS
<1>2. PICK layers :
        HashRun(c, sentence, done + 1, pairs, n, layers) /\ HashAll(call, c, sentence, pairs) = layers[n]
  BY <1>1, HashRuns
<1>3. n \in 0..n
  OBVIOUS
<1> QED BY <1>2, <1>3 DEF HashRun

\* The hypothesis that is merged stands in the place of one of its state, is
\* the last, or leaves all as it is.
MergedInto(d, H, m) == \E more \in Seq(H), t \in BOOLEAN : m = [cache |-> d, active |-> more, tied |-> t]

LEMMA MergeGives ==
  ASSUME NEW layer, NEW d, NEW H, NEW active \in Seq(H), NEW tied \in BOOLEAN, NEW h \in H,
         layer = [cache |-> d, active |-> active, tied |-> tied]
  PROVE  MergedInto(d, H, DenseMerge(layer, h))
<1> DEFINE LastPair(path) == SubSeq(path, Max({1, Len(path) - 1}), Len(path))
           Same(e) == LastPair(e.path) = LastPair(h.path)
<1>1. PICK at : at = SelectInSeq(active, Same)
  OBVIOUS
<1> HIDE DEF LastPair, Same
<1>2. PICK longer : longer = Append(active, h)
  OBVIOUS
<1>3. PICK other : other = Replace(active, at, h)
  OBVIOUS
<1>4. longer \in Seq(H)
  BY <1>2, AppendProperties
<1>5. other \in Seq(H)
  <2>1. PICK l \in Nat : l = Len(active) /\ active \in [1..l -> H]
    OBVIOUS
  <2>2. other \in [1..l -> H]
    BY <1>3, <2>1, SMTT(60) DEF Replace
  <2> QED BY <2>1, <2>2
<1>6. DenseMerge(layer, h) =
        CASE at = 0 -> Merged(layer, Append(layer.active, h), FALSE)
          [] at # 0 /\ layer.active[at].score = h.score -> Merged(layer, layer.active, TRUE)
          [] at # 0 /\ layer.active[at].score < h.score -> Merged(layer, Replace(layer.active, at, h), FALSE)
          [] OTHER -> layer
  <2>1. layer.active = active
    OBVIOUS
  <2> QED BY <1>1, <2>1, Zenon DEF DenseMerge, LastPair, Same
<1>7. layer.cache = d /\ layer.active = active
  OBVIOUS
<1>8. PICK no, yes \in BOOLEAN : no = FALSE /\ yes = TRUE
  OBVIOUS
<1>9. PICK m : m = DenseMerge(layer, h)
  OBVIOUS
<1>10. \/ m = Merged(layer, longer, no)
       \/ m = Merged(layer, active, yes)
       \/ m = Merged(layer, other, no)
       \/ m = layer
  BY <1>2, <1>3, <1>6, <1>7, <1>8, <1>9
<1>11. \/ m = [cache |-> d, active |-> longer, tied |-> no]
       \/ m = [cache |-> d, active |-> active, tied |-> yes]
       \/ m = [cache |-> d, active |-> other, tied |-> no]
       \/ m = [cache |-> d, active |-> active, tied |-> tied]
  BY <1>7, <1>10 DEF Merged
<1> QED BY <1>4, <1>5, <1>8, <1>9, <1>11 DEF MergedInto

\* What a pair adds, unless the layer is tied already.
DenseAdds(sentence, done, layer, pair, next) ==
  IF layer.tied THEN next = layer
  ELSE \E d : \E g \in Hypotheses :
         /\ Extends(sentence, pair[2], pair[1], g)
         /\ PathOf(sentence, g.path) /\ Len(g.path) = done
         /\ next = DenseMerge([cache |-> d, active |-> layer.active, tied |-> FALSE], g)

LEMMA DenseNextGives ==
  ASSUME NEW c, NEW call, NEW sentence, NEW done, Extending(c, call, sentence, done),
         NEW layer \in DenseLayers(c, sentence, done + 1), NEW pair \in PairOf(c, sentence, done),
         NEW next, next = DenseNext(call, sentence, layer, pair)
  PROVE  next \in DenseLayers(c, sentence, done + 1) /\ DenseAdds(sentence, done + 1, layer, pair, next)
<1>1. CASE layer.tied
  BY <1>1 DEF DenseNext, DenseAdds
<1>2. CASE ~layer.tied
  <2>1. PICK d, active : d = layer.cache /\ active = layer.active
    OBVIOUS
  <2>2. /\ Good(d) /\ After(c, d) /\ active \in Seq(Followers(d, sentence, done + 1))
        /\ d \in Caches
    BY <2>1 DEF DenseLayers
  <2>3. PICK s : s = Successor(call, d, sentence, pair[2], pair[1])
    OBVIOUS
  <2>4. /\ Good(s.cache) /\ After(c, s.cache) /\ After(d, s.cache)
        /\ s.h \in Followers(s.cache, sentence, done + 1) /\ Extends(sentence, pair[2], pair[1], s.h)
    BY <2>2, <2>3, PairSuccessor
  <2>5. PICK H : H = Followers(s.cache, sentence, done + 1)
    OBVIOUS
  <2>6. active \in Seq(H)
    <3>1. Followers(d, sentence, done + 1) \subseteq H
      BY <2>2, <2>4, <2>5, FollowersOn
    <3> QED BY <2>2, <3>1
  <2>7. PICK no \in BOOLEAN : no = FALSE
    OBVIOUS
  <2>8. PICK moved : moved = [cache |-> s.cache, active |-> active, tied |-> no]
    OBVIOUS
  <2>9. next = DenseMerge(moved, s.h)
    BY <1>2, <2>1, <2>3, <2>7, <2>8 DEF DenseNext, DenseStep
  <2>10. PICK more \in Seq(H), t \in BOOLEAN : DenseMerge(moved, s.h) = [cache |-> s.cache, active |-> more, tied |-> t]
    <3>1. s.h \in H
      BY <2>4, <2>5
    <3>2. MergedInto(s.cache, H, DenseMerge(moved, s.h))
      BY <2>6, <2>7, <2>8, <3>1, MergeGives
    <3> QED BY <3>2 DEF MergedInto
  <2>11. more \in Seq(Hypotheses)
    <3>1. H \subseteq Hypotheses
      BY <2>5 DEF Followers
    <3> QED BY <2>10, <3>1
  <2>12. s.cache \in Caches
    BY <2>4 DEF Good
  <2>13. next = [cache |-> s.cache, active |-> more, tied |-> t]
    BY <2>9, <2>10
  <2>14. next \in DenseLayers(c, sentence, done + 1)
    BY <2>4, <2>5, <2>10, <2>11, <2>12, <2>13 DEF DenseLayers
  <2>15. DenseAdds(sentence, done + 1, layer, pair, next)
    <3>1. done + 1 \in Nat /\ done + 1 <= Len(sentence)
      BY DEF Extending, Ready
    <3>2. s.h \in Hypotheses /\ PathOf(sentence, s.h.path) /\ Len(s.h.path) = done + 1
      BY <2>4, <3>1, FollowerPath
    <3>3. next = DenseMerge([cache |-> s.cache, active |-> layer.active, tied |-> FALSE], s.h)
      BY <2>1, <2>7, <2>8, <2>9
    <3> QED BY <1>2, <2>4, <3>2, <3>3 DEF DenseAdds
  <2> QED BY <2>14, <2>15
<1> QED BY <1>1, <1>2

\* The layers, one for every pair.
DenseRun(c, sentence, done, pairs, n, layers) ==
  /\ layers[0] = [cache |-> c, active |-> <<>>, tied |-> FALSE]
  /\ \A k \in 0..n : layers[k] \in DenseLayers(c, sentence, done)
  /\ \A k \in 1..n : DenseAdds(sentence, done, layers[k - 1], pairs[k], layers[k])

LEMMA DenseRuns ==
  ASSUME NEW c, NEW call, NEW sentence, NEW done, Extending(c, call, sentence, done),
         NEW pairs \in Seq(PairOf(c, sentence, done)), NEW n \in Nat, n = Len(pairs)
  PROVE  \E layers : DenseRun(c, sentence, done + 1, pairs, n, layers) /\ DenseAll(call, c, sentence, pairs) = layers[n]
<1>2. PICK S : S = DenseLayers(c, sentence, done + 1)
  OBVIOUS
<1>3. PICK a : a = [cache |-> c, active |-> <<>>, tied |-> FALSE]
  OBVIOUS
<1>4. a \in S
  <2>1. Good(c) /\ c \in Caches
    BY DEF Extending, Ready, Good
  <2>2. After(c, c)
    BY <2>1, PairsListed DEF After
  <2>3. PICK no \in BOOLEAN : no = FALSE
    OBVIOUS
  <2>4. a = [cache |-> c, active |-> <<>>, tied |-> no]
    BY <1>3, <2>3
  <2>5. <<>> \in Seq(Hypotheses) /\ <<>> \in Seq(Followers(c, sentence, done + 1))
    OBVIOUS
  <2> QED BY <1>2, <2>1, <2>2, <2>4, <2>5 DEF DenseLayers
<1> DEFINE G(k, x) == DenseNext(call, sentence, x, pairs[k])
           g == [p \in (1..n) \X S |-> G(p[1], p[2])]
           Right(f) == f = [k \in 0..n |-> IF k = 0 THEN a ELSE DenseNext(call, sentence, f[k - 1], pairs[k])]
           layers == CHOOSE f : Right(f)
<1>5. ASSUME NEW k \in 1..n, NEW x \in S PROVE G(k, x) \in S
  <2>1. pairs[k] \in PairOf(c, sentence, done)
    OBVIOUS
  <2> QED BY <1>2, <2>1, DenseNextGives
<1>6. PICK f : Iterated(f, n, S, a, g)
  <2>1. g \in [(1..n) \X S -> S]
    <3> HIDE DEF G
    <3> QED BY <1>5
  <2>2. Numbers!Iterates(n, S, a, g)
    <3> HIDE DEF g
    <3> QED BY <1>4, <2>1 DEF Numbers!Iterates
  <2> HIDE DEF g
  <2> QED BY <2>2, Defined
<1>7. Right(f)
  <2>1. f \in [0..n -> S] /\ f[0] = a /\ \A k \in 1..n : f[k] = g[<<k, f[k - 1]>>]
    <3> HIDE DEF g
    <3> QED BY <1>6 DEF Iterated
  <2>2. \A k \in 1..n : f[k] = G(k, f[k - 1])
    <3> SUFFICES ASSUME NEW k \in 1..n PROVE f[k] = G(k, f[k - 1])
      OBVIOUS
    <3>1. <<k, f[k - 1]>> \in (1..n) \X S
      BY <2>1
    <3> HIDE DEF G
    <3> QED BY <2>1, <3>1
  <2> QED BY <2>1, <2>2
<1>8. Right(layers)
  <2> HIDE DEF Right
  <2> QED BY <1>7
<1>9. DenseAll(call, c, sentence, pairs) = layers[n]
  BY <1>3 DEF DenseAll
<1> HIDE DEF layers
<1>10. \A k \in 0..n : layers[k] = IF k = 0 THEN a ELSE DenseNext(call, sentence, layers[k - 1], pairs[k])
  BY <1>8, ZenonT(30)
<1>11. \A k \in 1..n : layers[k - 1] \in S => layers[k] \in S
  <2> SUFFICES ASSUME NEW k \in 1..n, layers[k - 1] \in S PROVE layers[k] \in S
    OBVIOUS
  <2>1. k \in 0..n /\ k # 0
    OBVIOUS
  <2>2. layers[k] = G(k, layers[k - 1])
    BY <1>10, <2>1
  <2> HIDE DEF G
  <2> QED BY <1>5, <2>2
<1>12. layers[0] \in S
  BY <1>4, <1>10
<1>13. \A k \in 0..n : layers[k] \in S
  BY <1>11, <1>12, Reached
<1>14. ASSUME NEW k \in 1..n PROVE DenseAdds(sentence, done + 1, layers[k - 1], pairs[k], layers[k])
  <2>1. k \in 0..n /\ k # 0 /\ k - 1 \in 0..n
    OBVIOUS
  <2>2. layers[k] = DenseNext(call, sentence, layers[k - 1], pairs[k])
    BY <1>10, <2>1
  <2>3. pairs[k] \in PairOf(c, sentence, done)
    OBVIOUS
  <2>4. layers[k - 1] \in DenseLayers(c, sentence, done + 1)
    BY <1>2, <1>13, <2>1
  <2> QED BY <2>2, <2>3, <2>4, DenseNextGives
<1>15. layers[0] = a
  BY <1>10
<1>16. DenseRun(c, sentence, done + 1, pairs, n, layers)
  BY <1>2, <1>3, <1>13, <1>14, <1>15 DEF DenseRun
<1> QED BY <1>9, <1>16

LEMMA DenseGives ==
  ASSUME NEW c, NEW call, NEW sentence, NEW done, Extending(c, call, sentence, done),
         NEW pairs \in Seq(PairOf(c, sentence, done))
  PROVE  DenseAll(call, c, sentence, pairs) \in DenseLayers(c, sentence, done + 1)
<1>1. PICK n \in Nat : n = Len(pairs)
  OBVIOUS
<1>2. PICK layers :
        DenseRun(c, sentence, done + 1, pairs, n, layers) /\ DenseAll(call, c, sentence, pairs) = layers[n]
  BY <1>1, DenseRuns
<1>3. n \in 0..n
  OBVIOUS
<1> QED BY <1>2, <1>3 DEF DenseRun

-----------------------------------------------------------------------------
(***************************************************************************)
(* The layers of the causal decoder.                                       *)
(***************************************************************************)

\* What it goes on with: a path that carries no row.
Unrowed(sentence, done) ==
  {h \in Hypotheses : Len(h.path) = done /\ h.row = NoRow /\ \A i \in 1..done : h.path[i] \in 1..Len(sentence[i])}

CausalLayers(c, sentence, done) ==
  {l \in [cache : Caches, rows : Seq(Unrowed(sentence, done))] : Good(l.cache) /\ After(c, l.cache)}

LEMMA UnrowedFollows ==
  ASSUME NEW c, Good(c), NEW sentence, NEW done, NEW h \in Unrowed(sentence, done)
  PROVE  h \in Followers(c, sentence, done)
<1>1. 0 \in 0..Len(c.table.pairs)
  BY PairsListed DEF Good
<1> QED BY <1>1 DEF Unrowed, Followers, Follows, NoRow

LEMMA UnrowedLonger ==
  ASSUME NEW sentence \in Seq(Seq(Words)), NEW done \in Nat, done < Len(sentence), NEW h \in Unrowed(sentence, done),
         NEW a \in 1..Len(sentence[done + 1]), NEW score \in Int
  PROVE  [path |-> Append(h.path, a), row |-> NoRow, score |-> score] \in Unrowed(sentence, done + 1)
<1>1. PathOf(sentence, h.path) /\ Len(h.path) = done
  BY DEF PathOf, Unrowed, Hypotheses
<1>2. PICK p : p = Append(h.path, a)
  OBVIOUS
<1>3. PathOf(sentence, p) /\ Len(p) = done + 1
  BY <1>1, <1>2, PathLonger
<1>4. [path |-> p, row |-> NoRow, score |-> score] \in Hypotheses
  BY <1>3 DEF PathOf, Hypotheses, NoRow
<1> QED BY <1>2, <1>3, <1>4 DEF Unrowed, PathOf

\* The best of some hypotheses is the first that no other one beats.
FirstGreatest(f, n, b) == b \in 1..n /\ \A k \in 1..n : f[k] <= f[b] /\ (k < b => f[k] < f[b])

\* What the candidates of the next token score behind a path.
NextScores(sentence, path) == [a \in 1..Len(sentence[Len(path) + 1]) |-> NextScore(sentence, path, a)]

\* The candidate a path goes on with is the first of the best.
Picks(sentence, path, p) ==
  \E b : /\ FirstGreatest(NextScores(sentence, path), Len(sentence[Len(path) + 1]), b)
         /\ p = Append(path, b)

\* The rows of the first candidates, and one more.
RowsOf(sentence, path, rows, k) ==
  /\ Len(rows) = k
  /\ \A j \in 1..k : rows[j].path = Append(path, j) /\ rows[j].score = NextScore(sentence, path, j)
RowAdded(sentence, path, rows, more, a) ==
  \E o : more = Append(rows, o) /\ o.path = Append(path, a) /\ o.score = NextScore(sentence, path, a)

ScoresOf(hypotheses) == [k \in DOMAIN hypotheses |-> hypotheses[k].score]

LEMMA BestIsFirst ==
  ASSUME NEW hypotheses \in Seq(Hypotheses), hypotheses # <<>>, NEW n, n = Len(hypotheses),
         NEW scores, scores = ScoresOf(hypotheses)
  PROVE  \E b : FirstGreatest(scores, n, b) /\ Best(hypotheses) = hypotheses[b]
<1>1. n \in Nat \ {0}
  BY EmptySeq
<1>2. PICK S : S = 0..n
  OBVIOUS
<1>a. \A k \in 1..n : scores[k] = hypotheses[k].score /\ scores[k] \in Int
  <2> SUFFICES ASSUME NEW k \in 1..n PROVE scores[k] = hypotheses[k].score /\ scores[k] \in Int
    OBVIOUS
  <2>1. hypotheses[k] \in Hypotheses /\ k \in DOMAIN hypotheses
    BY <1>1, ElementOfSeq
  <2>2. hypotheses[k].score \in Int
    BY <2>1 DEF Hypotheses
  <2>3. scores[k] = hypotheses[k].score
    BY <2>1 DEF ScoresOf
  <2> QED BY <2>2, <2>3
<1> DEFINE Better(i, k) == IF hypotheses[i].score < hypotheses[k].score THEN k ELSE i
           G(k, x) == IF k <= 1 THEN k ELSE Better(x, k)
           g == [p \in (1..n) \X S |-> G(p[1], p[2])]
           Right(f) == f = [k \in 0..n |-> IF k <= 1 THEN k ELSE Better(f[k - 1], k)]
           best == CHOOSE f : Right(f)
<1>3. ASSUME NEW k \in 1..n, NEW x PROVE G(k, x) \in {k, x} /\ (k = 1 => G(k, x) = 1)
  OBVIOUS
<1>4. PICK f : Iterated(f, n, S, 0, g)
  <2>1. g \in [(1..n) \X S -> S]
    <3>1. \A k \in 1..n, x \in S : G(k, x) \in S
      BY <1>2, <1>3
    <3> HIDE DEF G
    <3> QED BY <3>1
  <2>2. Numbers!Iterates(n, S, 0, g)
    <3> HIDE DEF g
    <3> QED BY <1>1, <1>2, <2>1 DEF Numbers!Iterates
  <2> HIDE DEF g
  <2> QED BY <2>2, Defined
<1>5. Right(f)
  <2>1. f \in [0..n -> S] /\ f[0] = 0 /\ \A k \in 1..n : f[k] = g[<<k, f[k - 1]>>]
    <3> HIDE DEF g
    <3> QED BY <1>4 DEF Iterated
  <2>2. \A k \in 1..n : f[k] = G(k, f[k - 1])
    <3> SUFFICES ASSUME NEW k \in 1..n PROVE f[k] = G(k, f[k - 1])
      OBVIOUS
    <3>1. <<k, f[k - 1]>> \in (1..n) \X S
      BY <1>1, <2>1
    <3> HIDE DEF G
    <3> QED BY <2>1, <3>1
  <2>3. \A k \in 0..n : f[k] = IF k <= 1 THEN k ELSE Better(f[k - 1], k)
    <3> SUFFICES ASSUME NEW k \in 0..n PROVE f[k] = IF k <= 1 THEN k ELSE Better(f[k - 1], k)
      OBVIOUS
    <3>1. k = 0 \/ k \in 1..n
      BY <1>1
    <3> HIDE DEF Better
    <3> QED BY <2>1, <2>2, <3>1
  <2> HIDE DEF Better
  <2> QED BY <2>1, <2>3
<1>6. Right(best)
  <2> HIDE DEF Right
  <2> QED BY <1>5
<1>7. Best(hypotheses) = hypotheses[best[n]]
  BY DEF Best
<1> HIDE DEF best
<1>8. \A k \in 0..n : best[k] = IF k <= 1 THEN k ELSE Better(best[k - 1], k)
  BY <1>6, ZenonT(30)
<1> DEFINE T == {k \in Nat : k + 1 <= n => FirstGreatest(scores, k + 1, best[k + 1])}
<1>9. 0 \in T
  <2>1. best[1] = 1
    BY <1>1, <1>8
  <2>2. FirstGreatest(scores, 1, 1)
    BY <1>1, <1>a DEF FirstGreatest
  <2> QED BY <2>1, <2>2
<1>10. ASSUME NEW k \in Nat, k \in T PROVE k + 1 \in T
  <2> SUFFICES ASSUME (k + 1) + 1 <= n PROVE FirstGreatest(scores, (k + 1) + 1, best[(k + 1) + 1])
    OBVIOUS
  <2>1. PICK j : j = (k + 1) + 1
    OBVIOUS
  <2>2. j \in 0..n /\ ~(j <= 1) /\ j - 1 = k + 1 /\ j \in 1..n /\ k + 1 <= n
    BY <1>1, <2>1
  <2>3. PICK b : b = best[k + 1]
    OBVIOUS
  <2>4. FirstGreatest(scores, k + 1, b)
    BY <1>10, <2>2, <2>3
  <2>5. b \in 1..(k + 1) /\ b \in 1..n
    BY <1>1, <2>2, <2>4 DEF FirstGreatest
  <2>6. best[j] = IF scores[b] < scores[j] THEN j ELSE b
    <3>1. best[j] = IF j <= 1 THEN j ELSE Better(best[j - 1], j)
      BY <1>8, <2>2
    <3>2. best[j] = Better(b, j)
      BY <2>2, <2>3, <3>1
    <3>3. scores[b] = hypotheses[b].score /\ scores[j] = hypotheses[j].score
      BY <1>a, <2>2, <2>5
    <3> QED BY <3>2, <3>3
  <2>7. \A i \in 1..j : i = j \/ i \in 1..(k + 1)
    BY <2>2
  <2>8. \A i \in 1..j : scores[i] \in Int
    BY <1>a, <2>2
  <2>a. \A i \in 1..(k + 1) : scores[i] <= scores[b] /\ (i < b => scores[i] < scores[b])
    BY <2>4 DEF FirstGreatest
  <2>b. k + 1 < j /\ j \in Nat /\ k + 1 \in Nat /\ j \in 1..j /\ b \in 1..j
    BY <2>1, <2>5
  <2>c. PICK v : v = scores
    OBVIOUS
  <2>d. ASSUME v[b] < v[j] PROVE FirstGreatest(scores, j, best[j])
    <3>1. best[j] = j
      BY <2>6, <2>c, <2>d
    <3>2. ASSUME NEW i \in 1..j PROVE v[i] <= v[j] /\ (i < j => v[i] < v[j])
      <4>1. v[i] \in Int /\ v[b] \in Int /\ v[j] \in Int
        BY <2>8, <2>b, <2>c
      <4>2. CASE i = j
        BY <4>1, <4>2
      <4>3. CASE i \in 1..(k + 1)
        BY <2>a, <2>c, <2>d, <4>1, <4>3
      <4> QED BY <2>7, <4>2, <4>3
    <3>3. FirstGreatest(v, j, j)
      BY <2>b, <3>2 DEF FirstGreatest
    <3> QED BY <2>c, <3>1, <3>3
  <2>e. ASSUME ~(v[b] < v[j]) PROVE FirstGreatest(scores, j, best[j])
    <3>1. best[j] = b
      BY <2>6, <2>c, <2>e
    <3>2. ASSUME NEW i \in 1..j PROVE v[i] <= v[b] /\ (i < b => v[i] < v[b])
      <4>1. v[i] \in Int /\ v[b] \in Int /\ v[j] \in Int
        BY <2>8, <2>b, <2>c
      <4>2. CASE i = j
        BY <2>5, <2>b, <2>e, <4>1, <4>2
      <4>3. CASE i \in 1..(k + 1)
        BY <2>a, <2>c, <4>3
      <4> QED BY <2>7, <4>2, <4>3
    <3>3. FirstGreatest(v, j, b)
      BY <2>b, <3>2 DEF FirstGreatest
    <3> QED BY <2>c, <3>1, <3>3
  <2>9. FirstGreatest(scores, j, best[j])
    BY <2>d, <2>e
  <2> QED BY <2>1, <2>9
<1>11. Nat \subseteq T
  <2> HIDE DEF T
  <2> QED BY <1>9, <1>10, Numbers!Induct
<1>12. FirstGreatest(scores, n, best[n])
  <2>1. PICK k \in Nat : k = n - 1
    BY <1>1
  <2>2. k \in T
    <3> HIDE DEF T
    <3> QED BY <1>11
  <2>3. k + 1 = n /\ k + 1 <= n
    BY <1>1, <2>1
  <2> QED BY <2>2, <2>3
<1> QED BY <1>7, <1>12

LEMMA CausalNextGives ==
  ASSUME NEW c, NEW call, NEW sentence, NEW done, Extending(c, call, sentence, done),
         NEW h \in Unrowed(sentence, done),
         NEW layer \in CausalLayers(c, sentence, done + 1), NEW a \in 1..Len(sentence[done + 1]),
         NEW next, next = CausalNext(call, sentence, h.path, layer, a)
  PROVE  next \in CausalLayers(c, sentence, done + 1) /\ RowAdded(sentence, h.path, layer.rows, next.rows, a)
<1>1. PICK d, rows : d = layer.cache /\ rows = layer.rows
  OBVIOUS
<1>2. /\ Good(d) /\ After(c, d) /\ rows \in Seq(Unrowed(sentence, done + 1))
      /\ d \in Caches
  BY <1>1 DEF CausalLayers
<1>3. /\ Good(c) /\ c \in Caches /\ Ready(d, call, sentence) /\ sentence \in Seq(Seq(Words))
      /\ done \in Nat /\ done < Len(sentence)
  BY <1>2, ReadyOn DEF Extending, Ready, Good
<1>4. PICK path : path = h.path
  OBVIOUS
<1>5. PathOf(sentence, path) /\ Len(path) = done
  BY <1>3, <1>4, SMTT(60) DEF PathOf, Unrowed, Hypotheses
<1>6. PICK w1, w2 :
        /\ LastTwo(sentence, path) = <<w1, w2>>
        /\ Data(w1) \in AllData /\ (call \in Scored => Placed(d, w1, Data(w1)))
        /\ Data(w2) \in AllData /\ (call \in Scored => Placed(d, w2, Data(w2)))
  BY <1>3, <1>5, LastTwoReady
<1>7. PICK w3 : w3 = sentence[done + 1][a]
  OBVIOUS
<1>8. Data(w3) \in AllData /\ (call \in Scored => Placed(d, w3, Data(w3)))
  <2>1. done + 1 \in DOMAIN sentence
    BY <1>3
  <2>2. sentence[done + 1] \in Seq(Words)
    BY <1>3, <2>1
  <2>3. a \in DOMAIN sentence[done + 1]
    BY <2>2
  <2> QED BY <1>3, <1>7, <2>1, <2>3, WordReady
<1>9. PICK row : row = NoRow
  OBVIOUS
<1>10. Prior(d, call, w1, w2, w3, row)
  <2>1. 0 \in 0..Len(d.table.pairs)
    BY <1>2, PairsListed
  <2> QED BY <1>6, <1>8, <1>9, <2>1 DEF Prior, NoRow
<1>11. PICK needNext \in BOOLEAN : needNext = FALSE
  OBVIOUS
<1>12. PICK r : r = Transition(call, d, <<w1, w2>>, w3, row, needNext)
  OBVIOUS
<1>13. Result(d, r, DataOfThree(w1, w2, w3), Signature(d, w2), Signature(d, w3))
  BY <1>2, <1>10, <1>12, TransitionGives
<1>14. Good(r.cache) /\ After(d, r.cache) /\ r.score \in Int
  BY <1>13 DEF Result
<1>15. After(c, r.cache) /\ r.cache \in Caches
  <2>1. r.cache \in Caches
    BY <1>14 DEF Good
  <2> QED BY <1>2, <1>3, <1>14, <2>1, AfterOn
<1>16. PICK o : o = [path |-> Append(path, a), row |-> NoRow, score |-> r.score]
  OBVIOUS
<1>17. o \in Unrowed(sentence, done + 1)
  BY <1>3, <1>4, <1>14, <1>16, UnrowedLonger
<1>18. PICK more : more = Append(rows, o)
  OBVIOUS
<1>19. more \in Seq(Unrowed(sentence, done + 1))
  BY <1>2, <1>17, <1>18, AppendProperties
<1>20. RowAdded(sentence, path, rows, more, a)
  <2>1. r.score = TrigramScore(Data(w1), Data(w2), Data(w3))
    BY <1>13 DEF Result, DataOfThree
  <2>2. w1 = WordAt(sentence, path, Len(path) - 1) /\ w2 = WordAt(sentence, path, Len(path))
    <3>1. LastTwo(sentence, path)[1] = w1 /\ LastTwo(sentence, path)[2] = w2
      BY <1>6
    <3> QED BY <3>1 DEF LastTwo
  <2>3. r.score = NextScore(sentence, path, a)
    BY <1>5, <1>7, <2>1, <2>2 DEF NextScore
  <2>4. o.path = Append(path, a) /\ o.score = r.score
    BY <1>16
  <2> QED BY <1>18, <2>3, <2>4 DEF RowAdded
<1>21. next = [cache |-> r.cache, rows |-> more]
  BY <1>1, <1>4, <1>5, <1>6, <1>7, <1>9, <1>11, <1>12, <1>16, <1>18 DEF CausalNext, CausalStep
<1>22. next.cache = r.cache /\ next.rows = more
  BY <1>21
<1>23. next \in CausalLayers(c, sentence, done + 1)
  BY <1>14, <1>15, <1>19, <1>21, <1>22 DEF CausalLayers
<1> QED BY <1>1, <1>4, <1>20, <1>22, <1>23

LEMMA CausalGives ==
  ASSUME NEW c, NEW call, NEW sentence, NEW done, Extending(c, call, sentence, done),
         NEW h \in Unrowed(sentence, done), NEW n \in Nat \ {0}, n = Len(sentence[done + 1])
  PROVE  /\ CausalRows(call, c, sentence, h.path, n) \in CausalLayers(c, sentence, done + 1)
         /\ RowsOf(sentence, h.path, CausalRows(call, c, sentence, h.path, n).rows, n)
<1>1. PICK path : path = h.path
  OBVIOUS
<1>2. PICK S : S = CausalLayers(c, sentence, done + 1)
  OBVIOUS
<1>3. PICK a : a = [cache |-> c, rows |-> <<>>]
  OBVIOUS
<1>4. a \in S
  <2>1. Good(c) /\ c \in Caches
    BY DEF Extending, Ready, Good
  <2>2. After(c, c)
    BY <2>1, PairsListed DEF After
  <2>3. <<>> \in Seq(Unrowed(sentence, done + 1))
    OBVIOUS
  <2> QED BY <1>2, <1>3, <2>1, <2>2, <2>3 DEF CausalLayers
<1> DEFINE G(k, x) == CausalNext(call, sentence, path, x, k)
           g == [p \in (1..n) \X S |-> G(p[1], p[2])]
           Right(f) == f = [k \in 0..n |-> IF k = 0 THEN a ELSE CausalNext(call, sentence, path, f[k - 1], k)]
           layers == CHOOSE f : Right(f)
<1>5. ASSUME NEW k \in 1..n, NEW x \in S PROVE G(k, x) \in S /\ RowAdded(sentence, path, x.rows, G(k, x).rows, k)
  BY <1>1, <1>2, CausalNextGives
<1>6. PICK f : Iterated(f, n, S, a, g)
  <2>1. g \in [(1..n) \X S -> S]
    <3> HIDE DEF G
    <3> QED BY <1>5
  <2>2. Numbers!Iterates(n, S, a, g)
    <3> HIDE DEF g
    <3> QED BY <1>4, <2>1 DEF Numbers!Iterates
  <2> HIDE DEF g
  <2> QED BY <2>2, Defined
<1>7. Right(f)
  <2>1. f \in [0..n -> S] /\ f[0] = a /\ \A k \in 1..n : f[k] = g[<<k, f[k - 1]>>]
    <3> HIDE DEF g
    <3> QED BY <1>6 DEF Iterated
  <2>2. \A k \in 1..n : f[k] = G(k, f[k - 1])
    <3> SUFFICES ASSUME NEW k \in 1..n PROVE f[k] = G(k, f[k - 1])
      OBVIOUS
    <3>1. <<k, f[k - 1]>> \in (1..n) \X S
      BY <2>1
    <3> HIDE DEF G
    <3> QED BY <2>1, <3>1
  <2> QED BY <2>1, <2>2
<1>8. Right(layers)
  <2> HIDE DEF Right
  <2> QED BY <1>7
<1>9. CausalRows(call, c, sentence, h.path, n) = layers[n]
  BY <1>1, <1>3 DEF CausalRows
<1> HIDE DEF layers
<1>10. \A k \in 0..n : layers[k] = IF k = 0 THEN a ELSE CausalNext(call, sentence, path, layers[k - 1], k)
  BY <1>8, ZenonT(30)
<1>11. ASSUME NEW k \in 1..n, layers[k - 1] \in S
       PROVE  layers[k] \in S /\ RowAdded(sentence, path, layers[k - 1].rows, layers[k].rows, k)
  <2>1. k \in 0..n /\ k # 0
    OBVIOUS
  <2>2. layers[k] = G(k, layers[k - 1])
    BY <1>10, <2>1
  <2> HIDE DEF G
  <2> QED BY <1>5, <1>11, <2>2
<1>12. layers[0] = a
  BY <1>10
<1>13. \A k \in 0..n : layers[k] \in S
  BY <1>4, <1>11, <1>12, Reached
<1> DEFINE T == {k \in Nat : k <= n => RowsOf(sentence, path, layers[k].rows, k)}
<1>14. 0 \in T
  <2>1. layers[0].rows = <<>>
    BY <1>3, <1>12
  <2> QED BY <2>1 DEF RowsOf
<1>15. ASSUME NEW k \in Nat, k \in T PROVE k + 1 \in T
  <2> SUFFICES ASSUME k + 1 <= n PROVE RowsOf(sentence, path, layers[k + 1].rows, k + 1)
    OBVIOUS
  <2>1. k + 1 \in 1..n /\ (k + 1) - 1 = k /\ k \in 0..n
    OBVIOUS
  <2>2. PICK rows, more : rows = layers[k].rows /\ more = layers[k + 1].rows
    OBVIOUS
  <2>3. RowAdded(sentence, path, rows, more, k + 1)
    BY <1>11, <1>13, <2>1, <2>2
  <2>4. PICK o : more = Append(rows, o) /\ o.path = Append(path, k + 1) /\ o.score = NextScore(sentence, path, k + 1)
    BY <2>3 DEF RowAdded
  <2>5. RowsOf(sentence, path, rows, k)
    BY <1>15, <2>1, <2>2
  <2>6. PICK R : rows \in Seq(R)
    BY <1>2, <1>13, <2>1, <2>2 DEF CausalLayers
  <2>7. PICK Q : Q = R \cup {o}
    OBVIOUS
  <2>8. rows \in Seq(Q) /\ o \in Q
    BY <2>6, <2>7
  <2>9. Len(more) = k + 1 /\ more[k + 1] = o /\ \A j \in 1..k : more[j] = rows[j]
    BY <2>4, <2>5, <2>8, AppendProperties DEF RowsOf
  <2>10. \A j \in 1..(k + 1) : j = k + 1 \/ j \in 1..k
    OBVIOUS
  <2>11. RowsOf(sentence, path, more, k + 1)
    BY <2>4, <2>5, <2>9, <2>10 DEF RowsOf
  <2> QED BY <2>2, <2>11
<1>16. Nat \subseteq T
  <2> HIDE DEF T
  <2> QED BY <1>14, <1>15, Numbers!Induct
<1>17. layers[n] \in S /\ RowsOf(sentence, path, layers[n].rows, n)
  <2>1. n \in T
    BY <1>16
  <2> QED BY <1>13, <2>1
<1> QED BY <1>1, <1>2, <1>9, <1>17

-----------------------------------------------------------------------------
(***************************************************************************)
(* A token of a call, and the end of its sentence.                         *)
(***************************************************************************)

LEMMA UnderWayReady ==
  ASSUME NEW c, Good(c), NEW k, UnderWay(c, k)
  PROVE  /\ Ready(c, k.call, k.sentence) /\ k.done \in Nat /\ k.done <= Len(k.sentence)
         /\ k.active \in Seq(Followers(c, k.sentence, k.done))
<1>1. k.active \in Seq(Hypotheses) /\ k.done \in Nat /\ k.sentence \in Seq(Seq(Words))
  BY DEF UnderWay, CallRecords
<1>2. PICK active, n : active = k.active /\ n = Len(active)
  OBVIOUS
<1>3. active \in [1..n -> Hypotheses] /\ n \in Nat /\ DOMAIN active = 1..n
  BY <1>1, <1>2
<1>4. \A i \in 1..n : Follows(c, k.sentence, k.done, active[i])
  BY <1>2, <1>3 DEF UnderWay
<1>5. \A i \in 1..n : active[i] \in Followers(c, k.sentence, k.done)
  BY <1>3, <1>4 DEF Followers
<1>6. active \in Seq(Followers(c, k.sentence, k.done))
  BY <1>3, <1>5
<1> QED BY <1>1, <1>2, <1>6 DEF UnderWay, Ready

\* What a layer leaves: a cache to keep and hypotheses of one more token.
LayerOf(c, sentence, done, l) ==
  Good(l.cache) /\ After(c, l.cache) /\ l.active \in Seq(Followers(l.cache, sentence, done))

LEMMA HashLayerGives ==
  ASSUME NEW c, NEW call, NEW sentence, NEW done, Extending(c, call, sentence, done),
         NEW active \in Seq(Followers(c, sentence, done)), NEW n, n = Len(sentence[done + 1]),
         NEW l, l = HashLayer(call, c, sentence, active, n)
  PROVE  LayerOf(c, sentence, done + 1, l)
<1>1. n \in Nat
  BY DEF Extending, Ready
<1>2. PICK pairs : pairs = Pairs(active, n)
  OBVIOUS
<1>3. pairs \in Seq(PairOf(c, sentence, done))
  BY <1>1, <1>2, PairsOf DEF PairOf
<1>4. PICK all : all = HashAll(call, c, sentence, pairs)
  OBVIOUS
<1>5. all \in HashLayers(c, sentence, done + 1)
  BY <1>3, <1>4, HashGives
<1>6. /\ Good(all.cache) /\ After(c, all.cache)
      /\ all.table \in Actives(Followers(all.cache, sentence, done + 1))
  BY <1>5 DEF HashLayers
<1>7. l.cache = all.cache /\ l.active = Listed(all.table)
  BY <1>2, <1>4 DEF HashLayer, HashEnded
<1> QED BY <1>6, <1>7, ActiveListed DEF LayerOf

LEMMA DenseLayerGives ==
  ASSUME NEW c, NEW call, NEW sentence, NEW done, Extending(c, call, sentence, done),
         NEW active \in Seq(Followers(c, sentence, done)), NEW n, n = Len(sentence[done + 1]),
         NEW l, l = DenseLayer(call, c, sentence, active, n)
  PROVE  LayerOf(c, sentence, done + 1, l)
<1>1. n \in Nat
  BY DEF Extending, Ready
<1>2. PICK pairs : pairs = Pairs(active, n)
  OBVIOUS
<1>3. pairs \in Seq(PairOf(c, sentence, done))
  BY <1>1, <1>2, PairsOf DEF PairOf
<1>4. l = DenseAll(call, c, sentence, pairs)
  BY <1>2 DEF DenseLayer
<1>5. l \in DenseLayers(c, sentence, done + 1)
  BY <1>3, <1>4, DenseGives
<1> QED BY <1>5 DEF DenseLayers, LayerOf

LEMMA NextScored ==
  ASSUME NEW c, NEW call, NEW sentence, NEW done, Extending(c, call, sentence, done),
         NEW h \in Unrowed(sentence, done), NEW a \in 1..Len(sentence[done + 1])
  PROVE  NextScore(sentence, h.path, a) \in Int
<1>1. PICK path : path = h.path
  OBVIOUS
<1>2. Ready(c, call, sentence) /\ sentence \in Seq(Seq(Words)) /\ done \in Nat /\ done < Len(sentence)
  BY DEF Extending, Ready
<1>3. PathOf(sentence, path) /\ Len(path) = done
  BY <1>1, <1>2, SMTT(60) DEF PathOf, Unrowed, Hypotheses
<1>4. PICK w1, w2 : LastTwo(sentence, path) = <<w1, w2>> /\ Data(w1) \in AllData /\ Data(w2) \in AllData
  BY <1>2, <1>3, LastTwoReady
<1>5. w1 = WordAt(sentence, path, done - 1) /\ w2 = WordAt(sentence, path, done)
  <2>1. LastTwo(sentence, path)[1] = w1 /\ LastTwo(sentence, path)[2] = w2
    BY <1>4
  <2> QED BY <1>3, <2>1 DEF LastTwo
<1>6. Data(sentence[done + 1][a]) \in AllData
  <2>1. done + 1 \in DOMAIN sentence
    BY <1>2
  <2>2. sentence[done + 1] \in Seq(Words)
    BY <1>2, <2>1
  <2>3. a \in DOMAIN sentence[done + 1]
    BY <2>2
  <2> QED BY <1>2, <2>1, <2>3, WordReady
<1> QED BY <1>1, <1>3, <1>4, <1>5, <1>6, Scores DEF NextScore

\* What it goes on with is one hypothesis again.
LEMMA CausalLayerGives ==
  ASSUME NEW c, NEW call, NEW sentence, NEW done, Extending(c, call, sentence, done),
         NEW active \in Seq(Followers(c, sentence, done)), Len(active) = 1, active[1].row = NoRow,
         sentence[done + 1] # <<>>, NEW n, n = Len(sentence[done + 1]),
         NEW l, l = CausalLayer(call, c, sentence, active, n)
  PROVE  /\ LayerOf(c, sentence, done + 1, l) /\ Len(l.active) = 1 /\ l.active[1].row = NoRow /\ ~l.tied
         /\ Picks(sentence, active[1].path, l.active[1].path)
<1>1. /\ Good(c) /\ c \in Caches /\ sentence \in Seq(Seq(Words)) /\ done \in Nat /\ done < Len(sentence)
  BY DEF Extending, Ready, Good
<1>2. n \in Nat \ {0}
  <2>1. sentence[done + 1] \in Seq(Words)
    BY <1>1
  <2> QED BY <2>1, EmptySeq
<1>3. PICK h : h = active[1]
  OBVIOUS
<1>4. h \in Unrowed(sentence, done)
  <2>1. h \in Followers(c, sentence, done)
    <3>1. PICK H : H = Followers(c, sentence, done)
      OBVIOUS
    <3>2. active \in Seq(H) /\ 1 \in 1..Len(active)
      BY <3>1
    <3>3. active[1] \in H
      BY <3>2, ElementOfSeq
    <3> QED BY <1>3, <3>1, <3>3
  <2> QED BY <1>3, <2>1 DEF Unrowed, Followers, Follows
<1>5. CASE n = 1
  <2>1. PICK o : o = [h EXCEPT !.path = Append(@, 1)]
    OBVIOUS
  <2>2. h \in Hypotheses /\ h.score \in Int /\ h.row = NoRow
    BY <1>4 DEF Unrowed, Hypotheses
  <2>3. o = [path |-> Append(h.path, 1), row |-> NoRow, score |-> h.score]
    BY <2>1, <2>2 DEF Hypotheses
  <2>4. 1 \in 1..Len(sentence[done + 1])
    BY <1>5
  <2>5. o \in Unrowed(sentence, done + 1)
    BY <1>1, <1>4, <2>2, <2>3, <2>4, UnrowedLonger
  <2>6. o.row = NoRow
    BY <2>3
  <2>7. l.cache = c /\ l.active = <<o>> /\ ~l.tied
    BY <1>3, <1>5, <2>1 DEF CausalLayer
  <2>8. After(c, c)
    BY <1>1, PairsListed DEF After
  <2>9. <<o>> \in Seq(Followers(c, sentence, done + 1))
    <3>1. o \in Followers(c, sentence, done + 1)
      BY <1>1, <2>5, UnrowedFollows
    <3> QED BY <3>1
  <2>10. Picks(sentence, h.path, o.path)
    <3>1. o.path = Append(h.path, 1)
      BY <2>3
    <3>2. Len(h.path) + 1 = done + 1
      BY <1>4 DEF Unrowed
    <3>3. NextScore(sentence, h.path, 1) \in Int
      BY <1>4, <2>4, NextScored
    <3>4. NextScores(sentence, h.path)[1] \in Int
      BY <1>5, <3>2, <3>3 DEF NextScores
    <3>5. FirstGreatest(NextScores(sentence, h.path), 1, 1)
      BY <3>4 DEF FirstGreatest
    <3> QED BY <1>5, <3>1, <3>2, <3>5 DEF Picks
  <2> QED BY <1>1, <1>3, <2>6, <2>7, <2>8, <2>9, <2>10 DEF LayerOf
<1>6. CASE n # 1
  <2>1. PICK all : all = CausalRows(call, c, sentence, h.path, n)
    OBVIOUS
  <2>2. all \in CausalLayers(c, sentence, done + 1) /\ RowsOf(sentence, h.path, all.rows, n)
    BY <1>2, <1>4, <2>1, CausalGives
  <2>3. /\ Good(all.cache) /\ After(c, all.cache) /\ all.rows \in Seq(Unrowed(sentence, done + 1))
    BY <2>2 DEF CausalLayers
  <2>4. PICK o : o = Best(all.rows)
    OBVIOUS
  <2>a. PICK rows, scores : rows = all.rows /\ scores = ScoresOf(rows)
    OBVIOUS
  <2>b. rows \in Seq(Hypotheses) /\ rows \in Seq(Unrowed(sentence, done + 1)) /\ Len(rows) = n /\ rows # <<>>
    <3>1. Unrowed(sentence, done + 1) \subseteq Hypotheses
      BY DEF Unrowed
    <3> QED BY <1>2, <2>2, <2>3, <2>a, <3>1 DEF RowsOf
  <2>c. PICK b : FirstGreatest(scores, n, b) /\ o = rows[b]
    <3>1. n = Len(rows) /\ o = Best(rows)
      BY <2>4, <2>a, <2>b
    <3> QED BY <2>a, <2>b, <3>1, BestIsFirst
  <2>d. b \in 1..n
    BY <2>c DEF FirstGreatest
  <2>e. Len(h.path) + 1 = done + 1
    BY <1>4 DEF Unrowed
  <2>f. scores = NextScores(sentence, h.path)
    <3>1. DOMAIN rows = 1..n /\ \A j \in 1..n : rows[j].score = NextScore(sentence, h.path, j)
      BY <2>2, <2>a, <2>b DEF RowsOf
    <3>2. scores = [j \in 1..n |-> NextScore(sentence, h.path, j)]
      BY <2>a, <3>1 DEF ScoresOf
    <3> QED BY <2>e, <3>2 DEF NextScores
  <2>g. o.path = Append(h.path, b)
    BY <2>2, <2>a, <2>c, <2>d DEF RowsOf
  <2>h. Picks(sentence, h.path, o.path)
    BY <2>c, <2>e, <2>f, <2>g DEF Picks
  <2>5. o \in Unrowed(sentence, done + 1)
    BY <2>b, <2>c, <2>d
  <2>6. o.row = NoRow
    BY <2>5 DEF Unrowed
  <2>7. l.cache = all.cache /\ l.active = <<o>> /\ ~l.tied
    BY <1>3, <1>6, <2>1, <2>4 DEF CausalLayer, CausalEnded
  <2>8. <<o>> \in Seq(Followers(all.cache, sentence, done + 1))
    <3>1. o \in Followers(all.cache, sentence, done + 1)
      BY <2>3, <2>5, UnrowedFollows
    <3> QED BY <3>1
  <2> QED BY <1>3, <2>3, <2>6, <2>7, <2>8, <2>h DEF LayerOf
<1> QED BY <1>5, <1>6

LEMMA LayerGives ==
  ASSUME NEW c, Good(c), NEW k, UnderWay(c, k), k.done < Len(k.sentence), NEW l, l = Layer(k, c)
  PROVE  /\ LayerOf(c, k.sentence, k.done + 1, l)
         /\ k.decoder = "causal" => /\ Len(l.active) = 1 /\ l.active[1].row = NoRow /\ ~l.tied
                                    /\ Picks(k.sentence, k.active[1].path, l.active[1].path)
<1>1. PICK call, sentence, done, active :
        call = k.call /\ sentence = k.sentence /\ done = k.done /\ active = k.active
  OBVIOUS
<1>2. PICK n : n = Len(sentence[done + 1])
  OBVIOUS
<1>3. Extending(c, call, sentence, done) /\ active \in Seq(Followers(c, sentence, done))
  BY <1>1, UnderWayReady DEF Extending
<1>4. k.decoder \in {"hash", "dense", "causal"}
  BY DEF UnderWay, CallRecords
<1>5. CASE k.decoder = "hash"
  <2>1. l = HashLayer(call, c, sentence, active, n)
    BY <1>1, <1>2, <1>5 DEF Layer
  <2> QED BY <1>1, <1>2, <1>3, <1>5, <2>1, HashLayerGives
<1>6. CASE k.decoder = "dense"
  <2>1. l = DenseLayer(call, c, sentence, active, n)
    BY <1>1, <1>2, <1>6 DEF Layer
  <2> QED BY <1>1, <1>2, <1>3, <1>6, <2>1, DenseLayerGives
<1>7. CASE k.decoder = "causal"
  <2>1. l = CausalLayer(call, c, sentence, active, n)
    BY <1>1, <1>2, <1>7 DEF Layer
  <2>2. Len(active) = 1 /\ active[1].row = NoRow
    BY <1>1, <1>7 DEF UnderWay
  <2>3. sentence[done + 1] # <<>>
    <3>1. done + 1 \in DOMAIN sentence
      BY <1>1, <1>3 DEF Extending, Ready
    <3> QED BY <1>1, <3>1 DEF UnderWay
  <2> QED BY <1>1, <1>2, <1>3, <2>1, <2>2, <2>3, CausalLayerGives
<1> QED BY <1>4, <1>5, <1>6, <1>7

EndLayers(c) ==
  {l \in [cache : Caches, active : Seq(Hypotheses), tied : BOOLEAN] : Good(l.cache) /\ After(c, l.cache)}

\* What the end adds of a hypothesis, unless there is a tie already.
EndAdds(sentence, so, h, next) ==
  IF so.tied THEN next = so
  ELSE \E g \in Hypotheses : /\ g.path = h.path /\ g.score = h.score + EndScore(sentence, h.path)
                            /\ next.active = Append(so.active, g)

LEMMA EndNextGives ==
  ASSUME NEW c, Good(c), NEW k, UnderWay(c, k), NEW h \in Followers(c, k.sentence, k.done),
         NEW so \in EndLayers(c), NEW next, next = EndNext(k, so, h)
  PROVE  next \in EndLayers(c) /\ EndAdds(k.sentence, so, h, next)
<1>1. CASE so.tied
  BY <1>1 DEF EndNext, EndAdds
<1>2. CASE ~so.tied
  <2>1. PICK d, active : d = so.cache /\ active = so.active
    OBVIOUS
  <2>2. Good(d) /\ After(c, d) /\ active \in Seq(Hypotheses) /\ d \in Caches /\ c \in Caches
    BY <2>1 DEF EndLayers, Good
  <2>3. PICK call, sentence, path : call = k.call /\ sentence = k.sentence /\ path = h.path
    OBVIOUS
  <2>4. Ready(d, call, sentence) /\ k.done \in Nat /\ k.done <= Len(sentence)
    BY <2>2, <2>3, UnderWayReady, ReadyOn
  <2>5. Follows(d, sentence, k.done, h) /\ h \in Hypotheses
    BY <2>2, <2>3, FollowsOn DEF Followers
  <2>6. PathOf(sentence, path)
    BY <2>3, <2>4, <2>5, FollowedPath
  <2>7. PICK w1, w2 :
          /\ LastTwo(sentence, path) = <<w1, w2>>
          /\ Data(w1) \in AllData /\ (call \in Scored => Placed(d, w1, Data(w1)))
          /\ Data(w2) \in AllData /\ (call \in Scored => Placed(d, w2, Data(w2)))
    BY <2>4, <2>6, LastTwoReady
  <2>8. Data(End) \in AllData /\ (call \in Scored => Placed(d, End, Data(End)))
    BY <2>4, WordReady
  <2>9. Prior(d, call, w1, w2, End, h.row)
    <3>1. LastTwo(sentence, path)[1] = w1 /\ LastTwo(sentence, path)[2] = w2
      BY <2>7
    <3> QED BY <2>3, <2>5, <2>7, <2>8, <3>1 DEF Prior, Follows
  <2>10. PICK r : r = Score(call, d, <<w1, w2>>, End, h.row)
    OBVIOUS
  <2>11. Result(d, r, DataOfThree(w1, w2, End), Signature(d, w2), Signature(d, End))
    BY <2>2, <2>9, <2>10, ScoreGives
  <2>12. Good(r.cache) /\ After(d, r.cache) /\ r.score \in Int
    BY <2>11 DEF Result
  <2>13. r.cache \in Caches /\ After(c, r.cache)
    <3>1. r.cache \in Caches
      BY <2>12 DEF Good
    <3> QED BY <2>2, <2>12, <3>1, AfterOn
  <2>14. PICK ended : ended = [h EXCEPT !.score = @ + r.score]
    OBVIOUS
  <2>15. ended \in Hypotheses
    BY <2>5, <2>12, <2>14 DEF Hypotheses
  <2>16. PICK more : more = Append(active, ended)
    OBVIOUS
  <2>17. more \in Seq(Hypotheses)
    BY <2>2, <2>15, <2>16, AppendProperties
  <2>18. PICK tied \in BOOLEAN : tied <=> (k.decoder = "dense" /\ active # <<>> /\ Best(active).score = ended.score)
    OBVIOUS
  <2>19. next = EndStep(so, k.decoder, h, r)
    BY <1>2, <2>1, <2>3, <2>7, <2>10 DEF EndNext
  <2>20. next = [cache |-> r.cache, active |-> more, tied |-> tied]
    BY <2>1, <2>14, <2>16, <2>18, <2>19 DEF EndStep
  <2>21. next \in EndLayers(c)
    BY <2>12, <2>13, <2>17, <2>18, <2>20 DEF EndLayers
  <2>22. EndAdds(k.sentence, so, h, next)
    <3>1. r.score = TrigramScore(Data(w1), Data(w2), Data(End))
      BY <2>11 DEF Result, DataOfThree
    <3>2. w1 = WordAt(sentence, path, Len(path) - 1) /\ w2 = WordAt(sentence, path, Len(path))
      <4>1. LastTwo(sentence, path)[1] = w1 /\ LastTwo(sentence, path)[2] = w2
        BY <2>7
      <4> QED BY <4>1 DEF LastTwo
    <3>3. r.score = EndScore(sentence, path)
      BY <3>1, <3>2 DEF EndScore
    <3>4. ended.path = path /\ ended.score = h.score + r.score
      BY <2>3, <2>5, <2>14 DEF Hypotheses
    <3>5. next.active = Append(so.active, ended)
      BY <2>1, <2>16, <2>20
    <3> QED BY <1>2, <2>3, <2>15, <3>3, <3>4, <3>5 DEF EndAdds
  <2> QED BY <2>21, <2>22
<1> QED BY <1>1, <1>2

EndRun(c, sentence, active, n, ended) ==
  /\ ended[0] = [cache |-> c, active |-> <<>>, tied |-> FALSE]
  /\ \A i \in 0..n : ended[i] \in EndLayers(c)
  /\ \A i \in 1..n : EndAdds(sentence, ended[i - 1], active[i], ended[i])

LEMMA EndRuns ==
  ASSUME NEW c, Good(c), NEW k, UnderWay(c, k), NEW active, NEW n, active = k.active, n = Len(active)
  PROVE  \E ended : EndRun(c, k.sentence, active, n, ended) /\ EndAll(k, c) = ended[n]
<1>2. active \in Seq(Followers(c, k.sentence, k.done)) /\ n \in Nat
  BY UnderWayReady, Length
<1>3. PICK S : S = EndLayers(c)
  OBVIOUS
<1>4. PICK a : a = [cache |-> c, active |-> <<>>, tied |-> FALSE]
  OBVIOUS
<1>5. a \in S
  <2>1. c \in Caches
    BY DEF Good
  <2>2. After(c, c)
    BY <2>1, PairsListed DEF After
  <2>3. PICK no \in BOOLEAN : no = FALSE
    OBVIOUS
  <2>4. a = [cache |-> c, active |-> <<>>, tied |-> no]
    BY <1>4, <2>3
  <2>5. <<>> \in Seq(Hypotheses)
    OBVIOUS
  <2> QED BY <1>3, <2>1, <2>2, <2>4, <2>5 DEF EndLayers
<1> DEFINE G(i, x) == EndNext(k, x, active[i])
           g == [p \in (1..n) \X S |-> G(p[1], p[2])]
           Right(f) == f = [i \in 0..n |-> IF i = 0 THEN a ELSE EndNext(k, f[i - 1], active[i])]
           ended == CHOOSE f : Right(f)
<1>6. ASSUME NEW i \in 1..n, NEW x \in S PROVE G(i, x) \in S
  <2>1. active[i] \in Followers(c, k.sentence, k.done)
    BY <1>2
  <2> QED BY <1>3, <2>1, EndNextGives
<1>7. PICK f : Iterated(f, n, S, a, g)
  <2>1. g \in [(1..n) \X S -> S]
    <3> HIDE DEF G
    <3> QED BY <1>6
  <2>2. Numbers!Iterates(n, S, a, g)
    <3> HIDE DEF g
    <3> QED BY <1>2, <1>5, <2>1 DEF Numbers!Iterates
  <2> HIDE DEF g
  <2> QED BY <2>2, Defined
<1>8. Right(f)
  <2>1. f \in [0..n -> S] /\ f[0] = a /\ \A i \in 1..n : f[i] = g[<<i, f[i - 1]>>]
    <3> HIDE DEF g
    <3> QED BY <1>7 DEF Iterated
  <2>2. \A i \in 1..n : f[i] = G(i, f[i - 1])
    <3> SUFFICES ASSUME NEW i \in 1..n PROVE f[i] = G(i, f[i - 1])
      OBVIOUS
    <3>1. <<i, f[i - 1]>> \in (1..n) \X S
      BY <1>2, <2>1, SMTT(60)
    <3> HIDE DEF G
    <3> QED BY <2>1, <3>1
  <2> QED BY <1>2, <2>1, <2>2
<1>9. Right(ended)
  <2> HIDE DEF Right
  <2> QED BY <1>8
<1>10. EndAll(k, c) = ended[n]
  BY <1>4 DEF EndAll
<1> HIDE DEF ended
<1>11. \A i \in 0..n : ended[i] = IF i = 0 THEN a ELSE EndNext(k, ended[i - 1], active[i])
  BY <1>9, ZenonT(30)
<1>12. \A i \in 1..n : ended[i - 1] \in S => ended[i] \in S
  <2> SUFFICES ASSUME NEW i \in 1..n, ended[i - 1] \in S PROVE ended[i] \in S
    OBVIOUS
  <2>1. i \in 0..n /\ i # 0
    BY <1>2
  <2>2. ended[i] = G(i, ended[i - 1])
    BY <1>11, <2>1
  <2> HIDE DEF G
  <2> QED BY <1>6, <2>2
<1>13. ended[0] \in S
  BY <1>2, <1>5, <1>11
<1>14. \A i \in 0..n : ended[i] \in S
  BY <1>2, <1>12, <1>13, Reached
<1>15. ASSUME NEW i \in 1..n PROVE EndAdds(k.sentence, ended[i - 1], active[i], ended[i])
  <2>1. i \in 0..n /\ i # 0 /\ i - 1 \in 0..n
    BY <1>2
  <2>2. ended[i] = EndNext(k, ended[i - 1], active[i])
    BY <1>11, <2>1
  <2>3. active[i] \in Followers(c, k.sentence, k.done)
    BY <1>2
  <2>4. ended[i - 1] \in EndLayers(c)
    BY <1>3, <1>14, <2>1
  <2> QED BY <2>2, <2>3, <2>4, EndNextGives
<1>16. ended[0] = a
  BY <1>2, <1>11
<1>17. EndRun(c, k.sentence, active, n, ended)
  BY <1>3, <1>4, <1>14, <1>15, <1>16 DEF EndRun
<1> QED BY <1>10, <1>17

LEMMA EndGives ==
  ASSUME NEW c, Good(c), NEW k, UnderWay(c, k)
  PROVE  EndAll(k, c) \in EndLayers(c)
<1>1. PICK active, n : active = k.active /\ n = Len(active)
  OBVIOUS
<1>2. n \in Nat
  BY <1>1, UnderWayReady, Length
<1>3. PICK ended :
        EndRun(c, k.sentence, active, n, ended) /\ EndAll(k, c) = ended[n]
  BY <1>1, EndRuns
<1>4. n \in 0..n
  BY <1>2
<1> QED BY <1>3, <1>4 DEF EndRun

LEMMA TerminalGives ==
  ASSUME NEW c, Good(c), NEW k, UnderWay(c, k), NEW l, l = Terminal(k, c)
  PROVE  Good(l.cache) /\ After(c, l.cache) /\ (k.decoder = "causal" => ~l.tied)
<1>1. CASE k.decoder = "causal"
  <2>1. c \in Caches
    BY DEF Good
  <2>2. After(c, c)
    BY <2>1, PairsListed DEF After
  <2> QED BY <1>1, <2>2 DEF Terminal
<1>2. CASE k.decoder # "causal"
  <2>1. l = EndAll(k, c)
    BY <1>2 DEF Terminal
  <2> QED BY <1>2, <2>1, EndGives DEF EndLayers
<1> QED BY <1>1, <1>2

-----------------------------------------------------------------------------
(***************************************************************************)
(* The start of a call: its words get signatures.                          *)
(***************************************************************************)

\* Signatures are only added, behind those there are.
LEMMA InternKeeps ==
  ASSUME NEW c, Good(c), NEW data \in AllData, NEW d, d = Intern(c, data)
  PROVE  /\ Good(d) /\ d.base = c.base /\ d.shared = c.shared
         /\ data \in ToSet(Signatures(d)) /\ ToSet(Signatures(c)) \subseteq ToSet(Signatures(d))
<1>0. c \in Caches
  BY DEF Good
<1>1. CASE data \in ToSet(Signatures(c))
  BY <1>1 DEF Intern
<1>2. CASE data \notin ToSet(Signatures(c))
  <2>1. PICK delta : delta = Append(c.delta, data)
    OBVIOUS
  <2>2. PICK e : e = [c EXCEPT !.delta = Append(@, data)]
    OBVIOUS
  <2>3. d = e
    BY <1>2, <2>2 DEF Intern
  <2>4. e = [base |-> c.base, delta |-> delta, table |-> c.table, local |-> c.local, shared |-> c.shared]
    BY <1>0, <2>1, <2>2 DEF Caches
  <2>5. PICK l, n : l = Len(c.base) /\ n = Len(c.delta)
    OBVIOUS
  <2>6. c.delta \in Seq(AllData) /\ c.base \in Seq(ToSet(Base)) /\ l \in Nat /\ n \in Nat
    BY <1>0, <2>5 DEF Caches
  <2>7. /\ delta \in Seq(AllData) /\ Len(delta) = n + 1 /\ delta[n + 1] = data
        /\ \A i \in 1..n : delta[i] = c.delta[i]
    BY <2>1, <2>5, <2>6, AppendProperties
  <2>8. d.base = c.base /\ d.delta = delta /\ d.table = c.table /\ d.local = c.local /\ d.shared = c.shared
    BY <2>3, <2>4
  <2>9. d \in Caches
    <3>1. /\ c.base \in Seq(ToSet(Base)) /\ c.table \in Tables /\ c.local \in Banks /\ c.shared \in Banks
      BY <1>0 DEF Caches
    <3> QED BY <2>3, <2>4, <2>7, <3>1 DEF Caches
  <2>10. PICK s, t : s = Signatures(c) /\ t = Signatures(d)
    OBVIOUS
  <2>11. /\ s \in Seq(Known) /\ Len(s) = l + n
         /\ \A i \in 1..l : s[i] = c.base[i]
         /\ \A i \in 1..n : s[l + i] = c.delta[i]
    <3>1. /\ s \in Seq(Known) /\ Len(s) = Len(c.base) + Len(c.delta)
          /\ \A i \in DOMAIN c.base : s[i] = c.base[i]
          /\ \A i \in DOMAIN c.delta : s[Len(c.base) + i] = c.delta[i]
      BY <1>0, <2>10, SignaturesListed
    <3>2. DOMAIN c.base = 1..l /\ DOMAIN c.delta = 1..n
      BY <2>5, <2>6
    <3>3. \A i \in 1..l : s[i] = c.base[i]
      BY <3>1, <3>2
    <3>4. \A i \in 1..n : s[l + i] = c.delta[i]
      BY <2>5, <3>1, <3>2
    <3> QED BY <2>5, <3>1, <3>3, <3>4
  <2>12. /\ t \in Seq(Known) /\ Len(t) = l + n + 1
         /\ \A i \in 1..l : t[i] = c.base[i]
         /\ \A i \in 1..(n + 1) : t[l + i] = delta[i]
    <3>1. /\ t \in Seq(Known) /\ Len(t) = Len(d.base) + Len(d.delta)
          /\ \A i \in DOMAIN d.base : t[i] = d.base[i]
          /\ \A i \in DOMAIN d.delta : t[Len(d.base) + i] = d.delta[i]
      BY <2>9, <2>10, SignaturesListed
    <3>2. DOMAIN d.base = 1..l /\ DOMAIN d.delta = 1..(n + 1) /\ Len(d.base) = l /\ Len(d.delta) = n + 1
      BY <2>5, <2>6, <2>7, <2>8
    <3>3. \A i \in 1..l : t[i] = c.base[i]
      BY <2>8, <3>1, <3>2
    <3>4. \A i \in 1..(n + 1) : t[l + i] = delta[i]
      BY <2>8, <3>1, <3>2
    <3>5. Len(t) = l + n + 1
      BY <2>6, <3>1, <3>2
    <3> QED BY <3>1, <3>3, <3>4, <3>5
  <2>13. \A i \in 1..(l + n) : t[i] = s[i]
    <3> SUFFICES ASSUME NEW i \in 1..(l + n) PROVE t[i] = s[i]
      OBVIOUS
    <3>1. CASE i <= l
      BY <2>6, <2>11, <2>12, <3>1
    <3>2. CASE ~(i <= l)
      <4>1. PICK j : j = i - l
        OBVIOUS
      <4>2. j \in 1..n /\ j \in 1..(n + 1) /\ l + j = i
        BY <2>6, <3>2, <4>1
      <4> QED BY <2>7, <2>11, <2>12, <4>2
    <3> QED BY <3>1, <3>2
  <2>14. data \in ToSet(t)
    <3>1. n + 1 \in 1..(n + 1) /\ l + (n + 1) \in 1..Len(t) /\ DOMAIN t = 1..Len(t)
      BY <2>6, <2>12
    <3>2. t[l + (n + 1)] = data
      BY <2>7, <2>12, <3>1
    <3> QED BY <3>1, <3>2 DEF ToSet
  <2>15. ToSet(s) \subseteq ToSet(t)
    <3> SUFFICES ASSUME NEW i \in DOMAIN s PROVE \E j \in DOMAIN t : t[j] = s[i]
      BY DEF ToSet
    <3>1. i \in 1..(l + n) /\ i \in DOMAIN t
      BY <2>6, <2>11, <2>12
    <3> QED BY <2>13, <3>1
  <2>16. ASSUME NEW x, Stands(c, x) PROVE Stands(d, x) /\ DataOf(d, x) = DataOf(c, x)
    <3>0. Len(Signatures(c)) = l + n
      BY <2>10, <2>11, Zenon
    <3>1. x \in 0..(l + n - 1) \cup {BeginSignature, EndSignature} /\ DataOf(c, x) \in AllData
      <4>1. x \in 0..(Len(Signatures(c)) - 1) \cup {BeginSignature, EndSignature} /\ DataOf(c, x) \in AllData
        BY <2>16, Zenon DEF Stands
      <4>2. PICK m : m = Len(Signatures(c))
        OBVIOUS
      <4>3. m = l + n
        BY <3>0, <4>2, Zenon
      <4>4. x \in 0..(m - 1) \cup {BeginSignature, EndSignature}
        BY <4>1, <4>2, Zenon
      <4>5. m - 1 = l + n - 1
        BY <2>6, <4>3
      <4> QED BY <4>1, <4>4, <4>5, Zenon
    <3>2. x \in 0..(l + n) \cup {BeginSignature, EndSignature}
      BY <2>6, <3>1
    <3>3. DataOf(d, x) = DataOf(c, x)
      <4>1. CASE x \in {BeginSignature, EndSignature}
        BY <4>1 DEF DataOf
      <4>2. CASE x \notin {BeginSignature, EndSignature}
        <5>1. x + 1 \in 1..(l + n)
          BY <2>6, <3>1, <4>2
        <5>2. DataOf(c, x) = s[x + 1] /\ DataOf(d, x) = t[x + 1]
          BY <2>10, <4>2 DEF DataOf
        <5> QED BY <2>13, <5>1, <5>2
      <4> QED BY <4>1, <4>2
    <3>4. Len(Signatures(d)) - 1 = l + n
      BY <2>6, <2>10, <2>12
    <3> QED BY <3>1, <3>2, <3>3, <3>4 DEF Stands
  <2>17. ASSUME NEW x, NEW y, NEW z, NEW o, RightFor(c, x, y, z, o) PROVE RightFor(d, x, y, z, o)
    <3>1. Stands(c, x) /\ Stands(c, y) /\ Stands(c, z)
      BY <2>17 DEF RightFor
    <3>2. /\ Stands(d, x) /\ Stands(d, y) /\ Stands(d, z)
          /\ DataOf(d, x) = DataOf(c, x) /\ DataOf(d, y) = DataOf(c, y) /\ DataOf(d, z) = DataOf(c, z)
      BY <2>16, <3>1
    <3> QED BY <2>8, <2>17, <3>2 DEF RightFor
  <2>18. RowsRight(d)
    BY <2>8, <2>17 DEF Good, RowsRight
  <2>19. SpillsRight(d)
    BY <2>8, <2>17 DEF Good, SpillsRight
  <2>20. SharedHolds(d) /\ TableFits(d.table)
    BY <2>8 DEF Good, SharedHolds
  <2>21. LocalHolds(d)
    <3>1. DOMAIN c.delta = 1..n /\ DOMAIN d.delta = 1..(n + 1)
      BY <2>5, <2>6, <2>7, <2>8
    <3>2. \A i \in DOMAIN c.delta : i \in DOMAIN d.delta /\ d.delta[i] = c.delta[i]
      BY <2>6, <2>7, <2>8, <3>1
    <3> QED BY <2>8, <3>2 DEF Good, LocalHolds
  <2> QED BY <2>8, <2>9, <2>10, <2>14, <2>15, <2>18, <2>19, <2>20, <2>21 DEF Good
<1> QED BY <1>1, <1>2

Interners(c) ==
  {d \in Caches : Good(d) /\ d.base = c.base /\ d.shared = c.shared}

LEMMA InternsAll ==
  ASSUME NEW c, Good(c), NEW words \in Seq(Words), NEW d, d = InternAll(c, words)
  PROVE  d \in Interners(c) /\ \A i \in 1..Len(words) : Data(words[i]) \in ToSet(Signatures(d))
<1>1. PICK n \in Nat : n = Len(words)
  OBVIOUS
<1>2. PICK S : S = Interners(c)
  OBVIOUS
<1>3. c \in S
  BY <1>2 DEF Interners, Good
<1> DEFINE G(k, x) == Intern(x, Data(words[k]))
           g == [p \in (1..n) \X S |-> G(p[1], p[2])]
           Right(f) == f = [k \in 0..n |-> IF k = 0 THEN c ELSE Intern(f[k - 1], Data(words[k]))]
           coded == CHOOSE f : Right(f)
<1>4. ASSUME NEW k \in 1..n, NEW x \in S
      PROVE  /\ G(k, x) \in S /\ Data(words[k]) \in ToSet(Signatures(G(k, x)))
             /\ ToSet(Signatures(x)) \subseteq ToSet(Signatures(G(k, x)))
  <2>1. PICK data : data = Data(words[k])
    OBVIOUS
  <2>2. data \in AllData
    <3>1. words[k] \in Words
      BY <1>1
    <3> QED BY <2>1, <3>1, DataKnown
  <2>3. Good(x) /\ x.base = c.base /\ x.shared = c.shared
    BY <1>2 DEF Interners
  <2>4. PICK y : y = Intern(x, data)
    OBVIOUS
  <2>5. /\ Good(y) /\ y.base = x.base /\ y.shared = x.shared
        /\ data \in ToSet(Signatures(y)) /\ ToSet(Signatures(x)) \subseteq ToSet(Signatures(y))
    BY <2>2, <2>3, <2>4, InternKeeps
  <2>6. y \in S
    BY <1>2, <2>3, <2>5 DEF Interners, Good
  <2> QED BY <2>1, <2>4, <2>5, <2>6
<1>5. PICK f : Iterated(f, n, S, c, g)
  <2>1. g \in [(1..n) \X S -> S]
    <3> HIDE DEF G
    <3> QED BY <1>4
  <2>2. Numbers!Iterates(n, S, c, g)
    <3> HIDE DEF g
    <3> QED BY <1>3, <2>1 DEF Numbers!Iterates
  <2> HIDE DEF g
  <2> QED BY <2>2, Defined
<1>6. Right(f)
  <2>1. f \in [0..n -> S] /\ f[0] = c /\ \A k \in 1..n : f[k] = g[<<k, f[k - 1]>>]
    <3> HIDE DEF g
    <3> QED BY <1>5 DEF Iterated
  <2>2. \A k \in 1..n : f[k] = G(k, f[k - 1])
    <3> SUFFICES ASSUME NEW k \in 1..n PROVE f[k] = G(k, f[k - 1])
      OBVIOUS
    <3>1. <<k, f[k - 1]>> \in (1..n) \X S
      BY <2>1
    <3> HIDE DEF G
    <3> QED BY <2>1, <3>1
  <2> QED BY <2>1, <2>2
<1>7. Right(coded)
  <2> HIDE DEF Right
  <2> QED BY <1>6
<1>8. d = coded[n]
  BY <1>1 DEF InternAll
<1> HIDE DEF coded
<1>9. \A k \in 0..n : coded[k] = IF k = 0 THEN c ELSE Intern(coded[k - 1], Data(words[k]))
  BY <1>7, ZenonT(30)
\* Each of the caches has the words up to there.
<1> DEFINE T == {x \in Nat \X S : \A i \in 1..x[1] : Data(words[i]) \in ToSet(Signatures(x[2]))}
<1>10. PICK at : at = [k \in 0..n |-> <<k, coded[k]>>]
  OBVIOUS
<1>11. at[0] \in T
  <2>1. at[0] = <<0, c>>
    BY <1>9, <1>10
  <2> QED BY <1>3, <2>1
<1>12. \A k \in 1..n : at[k - 1] \in T => at[k] \in T
  <2> SUFFICES ASSUME NEW k \in 1..n, at[k - 1] \in T PROVE at[k] \in T
    OBVIOUS
  <2>1. k \in 0..n /\ k # 0 /\ k - 1 \in 0..n
    OBVIOUS
  <2>2. PICK x, y : x = coded[k - 1] /\ y = coded[k]
    OBVIOUS
  <2>3. at[k - 1] = <<k - 1, x>> /\ at[k] = <<k, y>>
    BY <1>10, <2>1, <2>2
  <2>4. x \in S /\ \A i \in 1..(k - 1) : Data(words[i]) \in ToSet(Signatures(x))
    BY <2>3
  <2>5. y = G(k, x)
    BY <1>9, <2>1, <2>2
  <2>6. y \in S /\ Data(words[k]) \in ToSet(Signatures(y)) /\ ToSet(Signatures(x)) \subseteq ToSet(Signatures(y))
    <3> HIDE DEF G
    <3> QED BY <1>4, <2>4, <2>5
  <2>7. \A i \in 1..k : i = k \/ i \in 1..(k - 1)
    OBVIOUS
  <2>8. \A i \in 1..k : Data(words[i]) \in ToSet(Signatures(y))
    BY <2>4, <2>6, <2>7
  <2> QED BY <2>3, <2>6, <2>8
<1>13. at[n] \in T
  <2> HIDE DEF T
  <2>1. \A k \in 0..n : at[k] \in T
    BY <1>11, <1>12, Reached
  <2> QED BY <2>1
<1>14. at[n] = <<n, d>>
  BY <1>8, <1>10
<1> QED BY <1>1, <1>2, <1>13, <1>14

LEMMA CodedGives ==
  ASSUME NEW c, Good(c), NEW sentence \in Seq(Seq(Words)), NEW d, d = Coded(c, sentence)
  PROVE  d \in Interners(c) /\ Interned(d, sentence)
<1>1. PICK words : words = FlattenSeq(sentence)
  OBVIOUS
<1>2. words \in Seq(Words) /\ \A i \in 1..Len(sentence) : ToSet(sentence[i]) \subseteq ToSet(words)
  BY <1>1, Flattened
<1>3. d = InternAll(c, words)
  BY <1>1 DEF Coded
<1>4. d \in Interners(c) /\ \A i \in 1..Len(words) : Data(words[i]) \in ToSet(Signatures(d))
  BY <1>2, <1>3, InternsAll
<1>5. ASSUME NEW i \in DOMAIN sentence, NEW k \in DOMAIN sentence[i]
      PROVE  Data(sentence[i][k]) \in ToSet(Signatures(d))
  <2>1. PICK w : w = sentence[i][k]
    OBVIOUS
  <2>2. w \in ToSet(sentence[i])
    BY <2>1 DEF ToSet
  <2>3. w \in ToSet(words)
    BY <1>2, <2>2, SMTT(60)
  <2>4. PICK j \in 1..Len(words) : w = words[j]
    BY <1>2, <2>3 DEF ToSet
  <2> QED BY <1>4, <2>1, <2>4
<1> QED BY <1>4, <1>5 DEF Interned

\* Every token of what is decoded has a candidate.
LEMMA CompletedGives ==
  ASSUME NEW sentence \in Seq(Seq(Words)), NEW t, t = Completed(sentence)
  PROVE  /\ t \in Seq(Seq(Words)) /\ \A i \in DOMAIN t : t[i] # <<>>
         /\ <<>> \notin ToSet(sentence) => t = sentence
<1>1. PICK n \in Nat : n = Len(sentence) /\ DOMAIN sentence = 1..n
  OBVIOUS
<1>2. t = [i \in 1..n |-> IF sentence[i] = <<>> THEN <<Unknown>> ELSE sentence[i]]
  BY <1>1 DEF Completed
<1>3. <<Unknown>> \in Seq(Words) /\ <<Unknown>> # <<>>
  BY DEF Words
<1>4. \A i \in 1..n : sentence[i] \in Seq(Words)
  BY <1>1
<1>5. \A i \in 1..n : t[i] \in Seq(Words) /\ t[i] # <<>>
  BY <1>2, <1>3, <1>4
<1>6. t \in Seq(Seq(Words)) /\ DOMAIN t = 1..n
  BY <1>2, <1>5
<1>7. ASSUME <<>> \notin ToSet(sentence) PROVE t = sentence
  <2>1. \A i \in 1..n : sentence[i] # <<>>
    BY <1>1, <1>7 DEF ToSet
  <2>2. \A i \in 1..n : t[i] = sentence[i]
    BY <1>2, <2>1
  <2>3. sentence = [i \in 1..n |-> sentence[i]] /\ t = [i \in 1..n |-> t[i]]
    BY <1>1, <1>2
  <2> QED BY <1>1, <1>2, <2>2, <2>3
<1> QED BY <1>5, <1>6, <1>7

\* The root of a decoder, and the row it enters.
LEMMA RootedGives ==
  ASSUME NEW c, Good(c), NEW call, NEW at, at = Rooted(call, c), NEW d, d = [c EXCEPT !.table = at.table],
         NEW sentence
  PROVE  /\ Good(d) /\ After(c, d) /\ Root(at.row) \in Followers(d, sentence, 0)
         /\ call # "scored" => at.row = NoRow
<1>0. c \in Caches
  BY DEF Good
<1>1. PICK e : e = WithTable(c, at.table)
  OBVIOUS
<1>2. d = e
  BY <1>0, <1>1 DEF Caches, WithTable
<1>3. LastTwo(sentence, <<>>) = <<Begin, Begin>>
  BY DEF LastTwo, WordAt
<1>4. PICK begin : begin = BeginSignature
  OBVIOUS
<1>5. Signature(d, Begin) = begin /\ begin \in Int
  BY <1>4, LimitsFit, CallsAssumption DEF Signature, BeginSignature
<1>6. PICK pair : pair = <<begin, begin>>
  OBVIOUS
<1>7. pair \in Pair /\ pair[1] = begin /\ pair[2] = begin
  BY <1>5, <1>6 DEF Pair
<1>8. CASE call = "scored"
  <2>1. at = EnsureRow(c.table, pair)
    BY <1>4, <1>6, <1>8 DEF Rooted
  <2>2. /\ Good(e) /\ After(c, e) /\ at.row \in 0..Len(e.table.pairs)
        /\ at.row # NoRow => e.table.pairs[at.row] = pair
    BY <1>1, <1>7, <2>1, RowEntered
  <2>3. PICK root : root = Root(at.row)
    OBVIOUS
  <2>4. root.path = <<>> /\ root.row = at.row /\ root.score = 0 /\ Len(<<>>) = 0
    BY <2>3 DEF Root
  <2>5. root \in Hypotheses
    <3>1. at.row \in Nat
      BY <2>2, PairsListed DEF Good
    <3>2. root = [path |-> <<>>, row |-> at.row, score |-> 0] /\ <<>> \in Seq(Nat)
      BY <2>3 DEF Root
    <3> QED BY <3>1, <3>2 DEF Hypotheses
  <2>6. Follows(e, sentence, 0, root)
    BY <1>2, <1>3, <1>5, <1>7, <2>2, <2>4, <2>5 DEF Follows
  <2> QED BY <1>2, <1>8, <2>2, <2>3, <2>5, <2>6 DEF Followers
<1>9. CASE call # "scored"
  <2>1. at.row = 0 /\ at.table = c.table
    BY <1>9 DEF Rooted, NoRow
  <2>2. e = c
    BY <1>0, <1>1, <2>1 DEF Caches, WithTable
  <2>3. After(c, c) /\ 0 \in 0..Len(c.table.pairs)
    BY <1>0, PairsListed DEF After
  <2>4. PICK root : root = Root(0)
    OBVIOUS
  <2>5. root.path = <<>> /\ root.row = 0 /\ root.score = 0 /\ Len(<<>>) = 0
    BY <2>4 DEF Root
  <2>6. root \in Hypotheses
    <3>1. root = [path |-> <<>>, row |-> 0, score |-> 0] /\ <<>> \in Seq(Nat)
      BY <2>4 DEF Root
    <3> QED BY <3>1 DEF Hypotheses
  <2>7. Follows(c, sentence, 0, root)
    BY <2>3, <2>5, <2>6 DEF Follows, NoRow
  <2> QED BY <1>2, <2>1, <2>2, <2>3, <2>4, <2>6, <2>7 DEF Followers, NoRow
<1> QED BY <1>8, <1>9

-----------------------------------------------------------------------------
(***************************************************************************)
(* The steps of the workers.                                               *)
(***************************************************************************)

\* A call goes on with what another one, or a layer, has added.
LEMMA UnderWayOn ==
  ASSUME NEW c, Good(c), NEW d, Good(d), After(c, d), NEW k, UnderWay(c, k)
  PROVE  UnderWay(d, k)
<1>1. Signatures(d) = Signatures(c)
  BY DEF After, Signatures
<1>2. \A i \in DOMAIN k.active : Follows(d, k.sentence, k.done, k.active[i])
  BY FollowsOn DEF UnderWay
<1> QED BY <1>1, <1>2 DEF UnderWay, Interned

\* A cache without transitions.
LEMMA FreshGood ==
  ASSUME NEW b \in Seq(ToSet(Base)), NEW s \in Banks, SharedHolds([base |-> b, shared |-> s]),
         NEW d, d = [base |-> b, delta |-> <<>>, table |-> NoTransitions, local |-> <<>>, shared |-> s]
  PROVE  Good(d)
<1>1. NoTransitions \in Tables
  <2>1. <<>> \in Seq(Pair) /\ <<>> \in Seq(Rows) /\ <<>> \in Seq(Spills)
    OBVIOUS
  <2> QED BY <2>1 DEF NoTransitions, Tables
<1>2. d \in Caches
  <2>1. <<>> \in Seq(AllData) /\ <<>> \in Banks
    BY DEF Banks
  <2> QED BY <1>1, <2>1 DEF Caches
<1>3. d.base = b /\ d.delta = <<>> /\ d.table = NoTransitions /\ d.local = <<>> /\ d.shared = s
  OBVIOUS
<1>4. Len(<<>>) = 0 /\ DOMAIN <<>> = {}
  OBVIOUS
<1>5. NoTransitions.pairs = <<>> /\ NoTransitions.rows = <<>> /\ NoTransitions.overflow = <<>>
  BY DEF NoTransitions
<1>6. TableFits(NoTransitions)
  BY <1>4, <1>5, LimitsFit DEF TableFits
<1>7. RowsRight(d) /\ SpillsRight(d) /\ LocalHolds(d)
  BY <1>3, <1>4, <1>5 DEF RowsRight, SpillsRight, LocalHolds
<1>8. SharedHolds(d)
  BY <1>3 DEF SharedHolds
<1> QED BY <1>2, <1>3, <1>6, <1>7, <1>8 DEF Good

\* What a worker keeps leaves the others' caches as they were, but for words
\* that are prepared.
LEMMA Kept ==
  ASSUME IInv, NEW w \in Workers, NEW d, Good(d), d.base = base, Keep(w, d), base' = base
  PROVE  /\ shared' \in Banks /\ SharedHolds([base |-> base, shared |-> shared])'
         /\ caches' \in [Workers -> Owned]
         /\ CacheOf(w)' = d
         /\ \A v \in Workers \ {w} : Good(CacheOf(v)') /\ After(CacheOf(v), CacheOf(v)')
<1>1. d \in Caches /\ SharedHolds(d)
  BY DEF Good
<1>2. /\ d = [base |-> d.base, delta |-> d.delta, table |-> d.table, local |-> d.local, shared |-> d.shared]
      /\ d.delta \in Seq(AllData) /\ d.table \in Tables /\ d.local \in Banks /\ d.shared \in Banks
  BY <1>1 DEF Caches
<1>3. PICK o : o = [delta |-> d.delta, table |-> d.table, local |-> d.local]
  OBVIOUS
<1>4. o \in Owned
  BY <1>2, <1>3 DEF Owned
<1>5. caches' = [caches EXCEPT ![w] = o] /\ shared' = d.shared /\ caches \in [Workers -> Owned]
  BY <1>3 DEF Keep, IInv
<1>6. caches' \in [Workers -> Owned] /\ caches'[w] = o /\ \A v \in Workers \ {w} : caches'[v] = caches[v]
  BY <1>4, <1>5
<1>7. shared' \in Banks /\ SharedHolds([base |-> base, shared |-> shared])'
  <2>1. [base |-> base', shared |-> shared'].base = d.base /\ [base |-> base', shared |-> shared'].shared = d.shared
    BY <1>5
  <2> QED BY <1>1, <1>2, <1>5, <2>1 DEF SharedHolds
<1>8. CacheOf(w)' = d
  <2>1. CacheOf(w)' = [base |-> base', delta |-> caches'[w].delta, table |-> caches'[w].table,
                       local |-> caches'[w].local, shared |-> shared']
    BY DEF CacheOf
  <2>2. o.delta = d.delta /\ o.table = d.table /\ o.local = d.local
    BY <1>3
  <2> QED BY <1>2, <1>5, <1>6, <2>1, <2>2
<1>9. ASSUME NEW v \in Workers \ {w}
      PROVE  Good(CacheOf(v)') /\ After(CacheOf(v), CacheOf(v)')
  <2>1. PICK c, e : c = CacheOf(v) /\ e = CacheOf(v)'
    OBVIOUS
  <2>2. Good(c)
    BY <2>1 DEF IInv
  <2>3. /\ c.base = base /\ c.delta = caches[v].delta /\ c.table = caches[v].table
        /\ c.local = caches[v].local
    BY <2>1 DEF CacheOf
  <2>4. e = [base |-> base', delta |-> caches'[v].delta, table |-> caches'[v].table,
             local |-> caches'[v].local, shared |-> shared']
    BY <2>1 DEF CacheOf
  <2>5. e = [base |-> c.base, delta |-> c.delta, table |-> c.table, local |-> c.local, shared |-> d.shared]
    BY <1>5, <1>6, <2>3, <2>4
  <2>6. /\ c.base \in Seq(ToSet(Base)) /\ c.delta \in Seq(AllData) /\ c.table \in Tables
        /\ c.local \in Banks /\ c \in Caches
    BY <2>2 DEF Good, Caches
  <2>7. e \in Caches
    BY <1>2, <2>5, <2>6 DEF Caches
  <2>8. e.base = c.base /\ e.delta = c.delta /\ e.table = c.table /\ e.local = c.local /\ e.shared = d.shared
    BY <2>5
  <2>9. Preparing(c, e)
    BY <2>8 DEF Preparing
  <2>10. SharedHolds(e)
    <3>1. e.base = d.base
      BY <2>3, <2>8
    <3> QED BY <1>1, <2>8, <3>1 DEF SharedHolds
  <2>11. LocalHolds(e)
    BY <2>2, <2>8 DEF Good, LocalHolds
  <2>12. Good(e)
    BY <2>2, <2>7, <2>9, <2>10, <2>11, PreparingKeeps
  <2>13. After(c, e)
    BY <2>6, <2>9, AfterPreparing
  <2> QED BY <2>1, <2>12, <2>13
<1> QED BY <1>6, <1>7, <1>8, <1>9

\* A worker keeps a cache and goes on with a call or has none.
LEMMA Stepped ==
  ASSUME IInv, NEW w \in Workers, NEW d, Good(d), d.base = base, Keep(w, d), UNCHANGED <<base, forced>>,
         budget' \in 0..MaxCalls, NEW k, k = Idle \/ UnderWay(d, k), calls' = [calls EXCEPT ![w] = k]
  PROVE  IInv'
<1>1. base' = base /\ forced' = forced
  OBVIOUS
<1>2. /\ shared' \in Banks /\ SharedHolds([base |-> base, shared |-> shared])'
      /\ caches' \in [Workers -> Owned]
      /\ CacheOf(w)' = d
      /\ \A v \in Workers \ {w} : Good(CacheOf(v)') /\ After(CacheOf(v), CacheOf(v)')
  BY <1>1, Kept
<1>3. base' \in {<<>>, Base} /\ forced' \in BOOLEAN
  BY <1>1 DEF IInv
<1>4. \A v \in Workers : Good(CacheOf(v)')
  BY <1>2
<1>5. k \in {Idle} \cup CallRecords
  BY DEF UnderWay
<1>6. /\ calls' \in [Workers -> {Idle} \cup CallRecords]
      /\ calls'[w] = k /\ \A v \in Workers \ {w} : calls'[v] = calls[v]
  <2>1. calls \in [Workers -> {Idle} \cup CallRecords]
    BY DEF IInv
  <2>2. PICK R : R = {Idle} \cup CallRecords
    OBVIOUS
  <2> QED BY <1>5, <2>1, <2>2
<1>7. ASSUME NEW v \in Workers, calls'[v] # Idle
      PROVE  UnderWay(CacheOf(v)', calls'[v])
  <2>1. CASE v = w
    BY <1>2, <1>6, <1>7, <2>1
  <2>2. CASE v # w
    <3>1. PICK c, e, o : c = CacheOf(v) /\ e = CacheOf(v)' /\ o = calls[v]
      OBVIOUS
    <3>2. calls'[v] = o /\ Good(e) /\ After(c, e)
      BY <1>2, <1>6, <2>2, <3>1
    <3>3. Good(c) /\ UnderWay(c, o)
      BY <1>7, <3>1, <3>2 DEF IInv
    <3>4. UnderWay(e, o)
      BY <3>2, <3>3, UnderWayOn
    <3> QED BY <3>1, <3>2, <3>4
  <2> QED BY <2>1, <2>2
<1> QED BY <1>2, <1>3, <1>4, <1>6, <1>7 DEF IInv

LEMMA RequestKnown ==
  ASSUME NEW request \in Requests
  PROVE  /\ request[1] \in Viterbi \cup Causal /\ request[2] \in Seq(Seq(Words))
         /\ <<request[1], request[2]>> \in Requests
<1>1. request \in (Viterbi \cup Causal) \X Seq(Seq(DOMAIN WordData))
  BY CallsAssumption
<1>2. request = <<request[1], request[2]>> /\ request[1] \in Viterbi \cup Causal
      /\ request[2] \in Seq(Seq(DOMAIN WordData))
  BY <1>1
<1>3. Seq(DOMAIN WordData) \subseteq Seq(Words)
  BY DEF Words
<1>4. Seq(Seq(DOMAIN WordData)) \subseteq Seq(Seq(Words))
  BY <1>3
<1> QED BY <1>2, <1>4

LEMMA StartStep ==
  ASSUME IInv, NEW w \in Workers, NEW request \in Requests, budget' \in 0..MaxCalls,
         Start(w, request[1], request[2])
  PROVE  IInv'
<1>1. PICK call, asked, sentence : call = request[1] /\ asked = request[2] /\ sentence = Completed(asked)
  OBVIOUS
<1>2. call \in Viterbi \cup Causal /\ asked \in Seq(Seq(Words)) /\ <<call, asked>> \in Requests
  BY <1>1, RequestKnown
<1>3. PICK c : c = CacheOf(w)
  OBVIOUS
<1>4. Good(c) /\ c.base = base
  BY <1>3 DEF IInv, CacheOf
<1>5. PICK coded : coded = IF call \in Scored THEN Coded(c, asked) ELSE c
  OBVIOUS
<1>6. Good(coded) /\ coded.base = c.base /\ (call \in Scored => Interned(coded, asked))
  <2>1. CASE call \in Scored
    <3>1. coded \in Interners(c) /\ Interned(coded, asked)
      BY <1>2, <1>4, <1>5, <2>1, CodedGives
    <3> QED BY <3>1 DEF Interners
  <2>2. CASE call \notin Scored
    BY <1>4, <1>5, <2>2
  <2> QED BY <2>1, <2>2
<1>7. PICK at : at = Rooted(call, coded)
  OBVIOUS
<1>8. PICK d : d = [coded EXCEPT !.table = at.table]
  OBVIOUS
<1>9. PICK root : root = Root(at.row)
  OBVIOUS
<1>10. /\ Good(d) /\ After(coded, d) /\ root \in Followers(d, sentence, 0)
       /\ call # "scored" => at.row = NoRow
  BY <1>6, <1>7, <1>8, <1>9, RootedGives
<1>11. PICK k : k = [call |-> call, asked |-> asked, sentence |-> sentence,
                     decoder |-> DecoderOf(call, asked), done |-> 0, active |-> <<root>>]
  OBVIOUS
<1>12. ~Refused(call, asked) /\ Keep(w, d) /\ calls' = [calls EXCEPT ![w] = k] /\ UNCHANGED <<base, forced>>
  BY <1>1, <1>3, <1>5, <1>7, <1>8, <1>9, <1>11 DEF Start
<1>13. sentence \in Seq(Seq(Words)) /\ \A i \in DOMAIN sentence : sentence[i] # <<>>
  BY <1>1, <1>2, CompletedGives
<1>14. call \in Scored => Interned(d, sentence)
  <2> SUFFICES ASSUME call \in Scored PROVE Interned(d, sentence)
    OBVIOUS
  <2>1. call # "disambiguate"
    BY Zenon DEF Scored
  <2>2. sentence = asked
    BY <1>1, <1>2, <1>12, <2>1, CompletedGives DEF Refused
  <2>3. Signatures(d) = Signatures(coded)
    BY <1>10 DEF After, Signatures
  <2> QED BY <1>6, <2>2, <2>3 DEF Interned
<1>15. PICK decoder : decoder = DecoderOf(call, asked)
  OBVIOUS
<1>16. decoder \in {"hash", "dense", "causal"} /\ (decoder = "causal" => call \in Causal)
  BY <1>15 DEF DecoderOf
<1>17. root \in Hypotheses /\ Follows(d, sentence, 0, root)
  BY <1>10 DEF Followers
<1>18. k.call = call /\ k.asked = asked /\ k.sentence = sentence /\ k.decoder = decoder /\ k.done = 0
       /\ k.active = <<root>>
  BY <1>11, <1>15
<1>19. k \in CallRecords
  <2>1. <<root>> \in Seq(Hypotheses)
    BY <1>17
  <2> QED BY <1>2, <1>11, <1>13, <1>15, <1>16, <2>1 DEF CallRecords
<1>20. decoder = "causal" => root.row = NoRow
  <2>1. call \in Causal => call # "scored"
    BY Zenon DEF Causal
  <2>2. root.row = at.row
    BY <1>9 DEF Root
  <2> QED BY <1>10, <1>16, <2>1, <2>2
<1>21. UnderWay(d, k)
  <2>1. 0 <= Len(sentence)
    BY <1>13
  <2>2. Len(<<root>>) = 1 /\ <<root>>[1] = root /\ \A i \in DOMAIN <<root>> : <<root>>[i] = root
    OBVIOUS
  <2> QED BY <1>2, <1>13, <1>14, <1>17, <1>18, <1>19, <1>20, <2>1, <2>2 DEF UnderWay
<1>22. d.base = base
  BY <1>4, <1>6, <1>10 DEF After
<1> QED BY <1>10, <1>12, <1>21, <1>22, Stepped

LEMMA CallStep ==
  ASSUME IInv, NEW w \in Workers, Call(w)
  PROVE  IInv'
<1>1. budget' \in 0..MaxCalls
  <2>1. budget \in 0..MaxCalls /\ budget > 0 /\ budget' = budget - 1 /\ MaxCalls \in Nat
    BY CallsAssumption DEF IInv, Call
  <2> QED BY <2>1
<1>2. PICK request \in Requests : Refuse(w, request[1], request[2]) \/ Start(w, request[1], request[2])
  BY DEF Call
<1>3. CASE Refuse(w, request[1], request[2])
  <2>1. UNCHANGED <<caches, base, shared, forced, calls>>
    BY <1>3 DEF Refuse
  <2>2. \A v \in Workers : CacheOf(v)' = CacheOf(v)
    BY <2>1 DEF CacheOf
  <2> QED BY <1>1, <2>1, <2>2 DEF IInv
<1>4. CASE Start(w, request[1], request[2])
  BY <1>1, <1>4, StartStep
<1> QED BY <1>2, <1>3, <1>4

\* A call that goes on, from the caches that are kept for it.
LEMMA GoingOn ==
  ASSUME NEW c, Good(c), NEW k, UnderWay(c, k), NEW d, Good(d), After(c, d),
         NEW decoder \in {"hash", "dense", "causal"}, NEW done \in Nat, done <= Len(k.sentence),
         NEW active \in Seq(Followers(d, k.sentence, done)),
         decoder = "causal" => Len(active) = 1 /\ active[1].row = NoRow,
         NEW g, g = Going(k, decoder, done, active)
  PROVE  UnderWay(d, g)
<1>1. g.call = k.call /\ g.asked = k.asked /\ g.sentence = k.sentence /\ g.decoder = decoder /\ g.done = done
      /\ g.active = active
  BY DEF Going
<1>2. active \in Seq(Hypotheses) /\ \A i \in DOMAIN active : Follows(d, k.sentence, done, active[i])
  <2>1. PICK H, n : H = Followers(d, k.sentence, done) /\ n = Len(active)
    OBVIOUS
  <2>2. active \in [1..n -> H] /\ n \in Nat /\ DOMAIN active = 1..n
    BY <2>1
  <2>3. \A h \in H : h \in Hypotheses /\ Follows(d, k.sentence, done, h)
    BY <2>1 DEF Followers
  <2>4. \A i \in 1..n : active[i] \in Hypotheses /\ Follows(d, k.sentence, done, active[i])
    BY <2>2, <2>3
  <2>5. active \in [1..n -> Hypotheses]
    BY <2>2, <2>4
  <2> QED BY <2>2, <2>4, <2>5
<1>3. /\ k.call \in Viterbi \cup Causal /\ k.asked \in Seq(Seq(Words)) /\ k.sentence \in Seq(Seq(Words))
      /\ <<k.call, k.asked>> \in Requests /\ \A i \in DOMAIN k.sentence : k.sentence[i] # <<>>
      /\ k.call \in Scored => Interned(c, k.sentence)
  BY DEF UnderWay, CallRecords
<1>4. g \in CallRecords
  BY <1>2, <1>3 DEF Going, CallRecords
<1>5. Signatures(d) = Signatures(c)
  BY DEF After, Signatures
<1>6. k.call \in Scored => Interned(d, k.sentence)
  BY <1>3, <1>5 DEF Interned
<1> QED BY <1>1, <1>2, <1>3, <1>4, <1>6 DEF UnderWay

LEMMA FallBackStep ==
  ASSUME IInv, NEW w \in Workers, calls[w] # Idle, calls[w].decoder # "causal",
         NEW d, Good(d), After(CacheOf(w), d), FallBack(w, d),
         UNCHANGED <<base, forced, budget>>
  PROVE  IInv'
<1>1. PICK c, k : c = CacheOf(w) /\ k = calls[w]
  OBVIOUS
<1>2. Good(c) /\ c.base = base /\ UnderWay(c, k)
  BY <1>1 DEF IInv, CacheOf
<1>3. PICK at : at = Rooted(k.call, d)
  OBVIOUS
<1>4. PICK e : e = [d EXCEPT !.table = at.table]
  OBVIOUS
<1>5. PICK root : root = Root(at.row)
  OBVIOUS
<1>6. Good(e) /\ After(d, e) /\ root \in Followers(e, k.sentence, 0)
  BY <1>3, <1>4, <1>5, RootedGives
<1>7. PICK g : g = Going(k, "hash", 0, <<root>>)
  OBVIOUS
<1>8. Keep(w, e) /\ calls' = [calls EXCEPT ![w] = g]
  <2>1. calls' = [calls EXCEPT ![w] = Going(@, "hash", 0, <<root>>)] /\ Keep(w, e)
    BY <1>1, <1>3, <1>4, <1>5 DEF FallBack
  <2> QED BY <1>1, <1>7, <2>1
<1>9. After(c, e)
  <2>1. c \in Caches /\ d \in Caches /\ e \in Caches
    BY <1>2, <1>6 DEF Good
  <2> QED BY <1>1, <1>6, <2>1, AfterOn
<1>10. UnderWay(e, g)
  <2>1. PICK decoder, active : decoder = "hash" /\ active = <<root>>
    OBVIOUS
  <2>2. active \in Seq(Followers(e, k.sentence, 0))
    BY <1>6, <2>1
  <2>3. 0 <= Len(k.sentence)
    BY <1>2 DEF UnderWay, CallRecords
  <2>4. decoder \in {"hash", "dense", "causal"} /\ decoder # "causal" /\ g = Going(k, decoder, 0, active)
    BY <1>7, <2>1
  <2> QED BY <1>2, <1>6, <1>9, <2>2, <2>3, <2>4, GoingOn
<1>11. e.base = base
  BY <1>2, <1>9 DEF After
<1>12. budget' \in 0..MaxCalls
  BY DEF IInv
<1> QED BY <1>6, <1>8, <1>10, <1>11, <1>12, Stepped

LEMMA ExtendStep ==
  ASSUME IInv, NEW w \in Workers, ExtendAll(w)
  PROVE  IInv'
<1>1. PICK c, k : c = CacheOf(w) /\ k = calls[w]
  OBVIOUS
<1>2. /\ calls[w] # Idle /\ k.done < Len(k.sentence) /\ UNCHANGED <<base, forced, answers, budget>>
  BY <1>1 DEF ExtendAll
<1>3. Good(c) /\ c.base = base /\ UnderWay(c, k)
  BY <1>1, <1>2 DEF IInv, CacheOf
<1>4. PICK l : l = Layer(k, c)
  OBVIOUS
<1>5. /\ Good(l.cache) /\ After(c, l.cache) /\ l.active \in Seq(Followers(l.cache, k.sentence, k.done + 1))
      /\ k.decoder = "causal" => Len(l.active) = 1 /\ l.active[1].row = NoRow /\ ~l.tied
  BY <1>2, <1>3, <1>4, LayerGives DEF LayerOf
<1>6. PICK d, active : d = l.cache /\ active = l.active
  OBVIOUS
<1>7. \/ /\ Keep(w, d)
         /\ calls' = [calls EXCEPT ![w] = Going(@, @.decoder, @.done + 1, active)]
      \/ l.tied /\ FallBack(w, d)
  BY <1>1, <1>4, <1>6 DEF ExtendAll
<1>8. CASE /\ Keep(w, d)
           /\ calls' = [calls EXCEPT ![w] = Going(@, @.decoder, @.done + 1, active)]
  <2>1. PICK g, done, decoder : g = Going(k, decoder, done, active) /\ done = k.done + 1 /\ decoder = k.decoder
    OBVIOUS
  <2>2. calls' = [calls EXCEPT ![w] = g]
    BY <1>1, <1>8, <2>1
  <2>3. decoder \in {"hash", "dense", "causal"} /\ done \in Nat /\ done <= Len(k.sentence)
    <3>1. k.decoder \in {"hash", "dense", "causal"} /\ k.done \in Nat /\ Len(k.sentence) \in Nat
      BY <1>3 DEF UnderWay, CallRecords
    <3> QED BY <1>2, <2>1, <3>1
  <2>4. Good(d) /\ After(c, d) /\ active \in Seq(Followers(d, k.sentence, done))
    BY <1>5, <1>6, <2>1
  <2>5. decoder = "causal" => Len(active) = 1 /\ active[1].row = NoRow
    BY <1>5, <1>6, <2>1
  <2>6. UnderWay(d, g)
    BY <1>3, <2>1, <2>3, <2>4, <2>5, GoingOn
  <2>7. d.base = base
    BY <1>3, <2>4 DEF After
  <2>8. budget' \in 0..MaxCalls
    BY <1>2 DEF IInv
  <2> QED BY <1>2, <1>8, <2>2, <2>4, <2>6, <2>7, <2>8, Stepped
<1>9. CASE l.tied /\ FallBack(w, d)
  <2>1. calls[w].decoder # "causal"
    BY <1>1, <1>5, <1>9
  <2> QED BY <1>1, <1>2, <1>5, <1>6, <1>9, <2>1, FallBackStep
<1> QED BY <1>7, <1>8, <1>9

LEMMA ChooseStep ==
  ASSUME IInv, NEW w \in Workers, Choose(w)
  PROVE  IInv'
<1>1. PICK c, k : c = CacheOf(w) /\ k = calls[w]
  OBVIOUS
<1>2. calls[w] # Idle /\ UNCHANGED <<base, forced, budget>>
  BY DEF Choose
<1>3. Good(c) /\ c.base = base /\ UnderWay(c, k)
  BY <1>1, <1>2 DEF IInv, CacheOf
<1>4. PICK l : l = Terminal(k, c)
  OBVIOUS
<1>5. Good(l.cache) /\ After(c, l.cache) /\ (k.decoder = "causal" => ~l.tied)
  BY <1>3, <1>4, TerminalGives
<1>6. PICK d : d = l.cache
  OBVIOUS
<1>7. \/ Keep(w, d) /\ calls' = [calls EXCEPT ![w] = Idle]
      \/ l.tied /\ FallBack(w, d)
  BY <1>1, <1>4, <1>6 DEF Choose
<1>8. CASE Keep(w, d) /\ calls' = [calls EXCEPT ![w] = Idle]
  <2>1. d.base = base
    BY <1>3, <1>5, <1>6 DEF After
  <2>2. budget' \in 0..MaxCalls
    BY <1>2 DEF IInv
  <2> QED BY <1>2, <1>5, <1>6, <1>8, <2>1, <2>2, Stepped
<1>9. CASE l.tied /\ FallBack(w, d)
  <2>1. calls[w].decoder # "causal"
    BY <1>1, <1>5, <1>9
  <2> QED BY <1>1, <1>2, <1>5, <1>6, <1>9, <2>1, FallBackStep
<1> QED BY <1>7, <1>8, <1>9

LEMMA ClearStep ==
  ASSUME IInv, NEW w \in Workers, Clear(w)
  PROVE  IInv'
<1>1. /\ calls[w] = Idle /\ caches' = [caches EXCEPT ![w] = NewCache]
      /\ UNCHANGED <<base, shared, forced, calls, answers, budget>>
  BY DEF Clear, ClearCache
<1>2. PICK d : d = [base |-> base, delta |-> <<>>, table |-> NoTransitions, local |-> <<>>, shared |-> shared]
  OBVIOUS
<1>3. Good(d)
  <2>1. base \in Seq(ToSet(Base)) /\ shared \in Banks /\ SharedHolds([base |-> base, shared |-> shared])
    <3>1. base \in {<<>>, Base}
      BY DEF IInv
    <3>2. <<>> \in Seq(ToSet(Base)) /\ Base \in Seq(ToSet(Base))
      BY CallsAssumption
    <3>3. shared \in Banks /\ SharedHolds([base |-> base, shared |-> shared])
      BY DEF IInv
    <3> QED BY <3>1, <3>2, <3>3
  <2> QED BY <1>2, <2>1, FreshGood
<1>4. d.base = base /\ d.delta = <<>> /\ d.table = NoTransitions /\ d.local = <<>> /\ d.shared = shared
  BY <1>2
<1>5. Keep(w, d)
  BY <1>1, <1>4 DEF Keep, NewCache
<1>6. calls' = [calls EXCEPT ![w] = Idle]
  <2>1. PICK R : calls \in [Workers -> R]
    BY DEF IInv
  <2> QED BY <1>1, <2>1
<1>7. budget' \in 0..MaxCalls
  BY <1>1 DEF IInv
<1> QED BY <1>1, <1>3, <1>4, <1>5, <1>6, <1>7, Stepped

LEMMA InitInvariant == Init => IInv
<1> SUFFICES ASSUME Init PROVE IInv
  OBVIOUS
<1>1. base \in {<<>>, Base} /\ base \in Seq(ToSet(Base))
  BY CallsAssumption DEF Init
<1>2. PICK b, s : b = base /\ s = shared
  OBVIOUS
<1>3. s = [i \in DOMAIN b |-> <<>>] /\ b \in Seq(ToSet(Base))
  BY <1>1, <1>2 DEF Init
<1>4. s \in Banks /\ Len(s) = Len(b) /\ \A i \in DOMAIN s : s[i] = <<>>
  <2>1. DOMAIN b = 1..Len(b) /\ Len(b) \in Nat
    BY <1>3
  <2>2. s \in Seq(Slots)
    BY <1>3, <2>1 DEF Slots
  <2> QED BY <1>3, <2>1, <2>2 DEF Banks
<1>5. SharedHolds([base |-> b, shared |-> s])
  BY <1>4 DEF SharedHolds
<1>6. ASSUME NEW w \in Workers PROVE Good(CacheOf(w))
  <2>1. PICK d : d = CacheOf(w)
    OBVIOUS
  <2>2. caches[w] = NewCache
    BY DEF Init
  <2>3. d = [base |-> b, delta |-> <<>>, table |-> NoTransitions, local |-> <<>>, shared |-> s]
    BY <1>2, <2>1, <2>2 DEF CacheOf, NewCache
  <2> QED BY <1>3, <1>4, <1>5, <2>1, <2>3, FreshGood
<1>7. caches \in [Workers -> Owned]
  <2>1. NewCache \in Owned
    <3>1. NoTransitions \in Tables
      <4>1. <<>> \in Seq(Pair) /\ <<>> \in Seq(Rows) /\ <<>> \in Seq(Spills)
        OBVIOUS
      <4> QED BY <4>1 DEF NoTransitions, Tables
    <3>2. <<>> \in Seq(AllData) /\ <<>> \in Banks
      BY DEF Banks
    <3> QED BY <3>1, <3>2 DEF NewCache, Owned
  <2> QED BY <2>1 DEF Init
<1>8. calls \in [Workers -> {Idle} \cup CallRecords] /\ \A w \in Workers : calls[w] = Idle
  BY DEF Init
<1>9. forced \in BOOLEAN /\ budget \in 0..MaxCalls
  BY CallsAssumption DEF Init
<1> QED BY <1>1, <1>2, <1>4, <1>5, <1>6, <1>7, <1>8, <1>9 DEF IInv

LEMMA StepInvariant == IInv /\ [Next]_vars => IInv'
<1> SUFFICES ASSUME IInv, [Next]_vars PROVE IInv'
  OBVIOUS
<1>1. CASE Next
  <2>1. PICK w \in Workers : Call(w) \/ ExtendAll(w) \/ Choose(w) \/ Clear(w)
    BY <1>1 DEF Next
  <2> QED BY <2>1, CallStep, ExtendStep, ChooseStep, ClearStep
<1>2. CASE UNCHANGED vars
  <2>1. \A v \in Workers : CacheOf(v)' = CacheOf(v)
    BY <1>2 DEF vars, CacheOf
  <2> QED BY <1>2, <2>1 DEF vars, IInv
<1> QED BY <1>1, <1>2

\* Every worker keeps its banks, rows and hypotheses consistent under any
\* interleaving of calls, layers, fallbacks and clears.
THEOREM Invariant == Spec => []IInv
BY InitInvariant, StepInvariant, PTL DEF Spec

-----------------------------------------------------------------------------
(***************************************************************************)
(* What it says of the caches.                                             *)
(***************************************************************************)

LEMMA StaysTyped == IInv => TypeOK
<1> SUFFICES ASSUME IInv PROVE TypeOK
  OBVIOUS
<1>1. ASSUME NEW w \in Workers
      PROVE  /\ caches[w].delta \in Seq(AllData)
             /\ Len(caches[w].table.rows) = Len(caches[w].table.pairs)
             /\ Len(caches[w].table.rows) <= RowCapacity
             /\ Len(caches[w].table.overflow) <= OverflowEntries
             /\ \A r \in DOMAIN caches[w].table.rows : Len(caches[w].table.rows[r].inline) <= InlineTransitions
  <2>1. CacheOf(w).table = caches[w].table
    BY DEF CacheOf
  <2>2. TableFits(caches[w].table)
    BY <2>1 DEF IInv, Good
  <2>3. caches[w].delta \in Seq(AllData)
    BY DEF IInv, Owned
  <2> QED BY <2>2, <2>3 DEF TableFits
<1>2. Len(shared) = Len(base)
  BY DEF IInv, SharedHolds
<1>3. ASSUME NEW w \in Workers, calls[w] # Idle
      PROVE  /\ <<calls[w].call, calls[w].asked>> \in Requests
             /\ calls[w].done \in 0..Len(calls[w].sentence)
             /\ calls[w].decoder \in {"hash", "dense", "causal"}
             /\ \A i \in DOMAIN calls[w].active : Len(calls[w].active[i].path) = calls[w].done
  <2>1. PICK c, k : c = CacheOf(w) /\ k = calls[w]
    OBVIOUS
  <2>2. UnderWay(c, k)
    BY <1>3, <2>1 DEF IInv
  <2>3. k.done \in Nat /\ k.sentence \in Seq(Seq(Words)) /\ k.decoder \in {"hash", "dense", "causal"}
        /\ k.done <= Len(k.sentence)
    BY <2>2 DEF UnderWay, CallRecords
  <2>4. k.done \in 0..Len(k.sentence)
    BY <2>3
  <2>5. \A i \in DOMAIN k.active : Len(k.active[i].path) = k.done
    BY <2>2 DEF UnderWay, Follows
  <2>6. <<k.call, k.asked>> \in Requests
    BY <2>2 DEF UnderWay
  <2> QED BY <2>1, <2>3, <2>4, <2>5, <2>6
<1>4. base \in {<<>>, Base} /\ forced \in BOOLEAN /\ budget \in 0..MaxCalls
  BY DEF IInv
<1> QED BY <1>1, <1>2, <1>3, <1>4 DEF TypeOK

LEMMA ScoreTrue ==
  ASSUME NEW d1 \in AllData, NEW d2 \in AllData, NEW d3 \in AllData
  PROVE  TrueScore[d1][d2][d3] = TrigramScore(d1, d2, d3)
BY DEF TrueScore

\* An entry that is right says what its key does without a cache.
LEMMA EntryExact ==
  ASSUME NEW c, Good(c), NEW x, NEW y, NEW z, NEW e, RightFor(c, x, y, z, e)
  PROVE  /\ {x, y, z} \subseteq 0..(Len(Signatures(c)) - 1) \cup {BeginSignature, EndSignature}
         /\ e.score = TrueScore[DataOf(c, x)][DataOf(c, y)][DataOf(c, z)]
         /\ e.next # NoRow => c.table.pairs[e.next] = <<y, z>>
<1>1. /\ Stands(c, x) /\ Stands(c, y) /\ Stands(c, z)
      /\ e.score = TrigramScore(DataOf(c, x), DataOf(c, y), DataOf(c, z))
      /\ e.next \in 0..Len(c.table.pairs)
      /\ e.next # NoRow => c.table.pairs[e.next][1] = y /\ c.table.pairs[e.next][2] = z
  BY DEF RightFor
<1>2. {x, y, z} \subseteq 0..(Len(Signatures(c)) - 1) \cup {BeginSignature, EndSignature}
  BY <1>1, Zenon DEF Stands
<1>3. PICK d1, d2, d3 : d1 = DataOf(c, x) /\ d2 = DataOf(c, y) /\ d3 = DataOf(c, z)
  OBVIOUS
<1>4. d1 \in AllData /\ d2 \in AllData /\ d3 \in AllData
  BY <1>1, <1>3 DEF Stands
<1>5. e.score = TrueScore[d1][d2][d3]
  BY <1>1, <1>3, <1>4, ScoreTrue
<1>6. ASSUME e.next # NoRow PROVE c.table.pairs[e.next] = <<y, z>>
  <2>1. PICK pairs, next : pairs = c.table.pairs /\ next = e.next
    OBVIOUS
  <2>2. pairs \in Seq(Pair) /\ Len(pairs) \in Nat
    BY <2>1, PairsListed DEF Good
  <2>3. next \in 1..Len(pairs)
    BY <1>1, <1>6, <2>1, <2>2 DEF NoRow
  <2>4. pairs[next] \in Pair
    BY <2>2, <2>3, ElementOfSeq
  <2>5. pairs[next][1] = y /\ pairs[next][2] = z
    BY <1>1, <1>6, <2>1
  <2> QED BY <2>1, <2>4, <2>5 DEF Pair
<1> QED BY <1>2, <1>3, <1>5, <1>6

\* A key of three signatures.
LEMMA KeyOfThree ==
  ASSUME NEW key \in Triple
  PROVE  ToSet(key) = {key[1], key[2], key[3]} /\ Tail(key) = <<key[2], key[3]>>
<1>1. DOMAIN key = 1..3 /\ 1..3 = {1, 2, 3}
  BY DEF Triple
<1>2. ToSet(key) = {key[1], key[2], key[3]}
  BY <1>1 DEF ToSet
<1>3. PICK x, y, z : x = key[1] /\ y = key[2] /\ z = key[3] /\ key = <<x, y, z>>
  BY DEF Triple
<1>4. Tail(key) = <<y, z>>
  BY <1>3
<1> QED BY <1>2, <1>3, <1>4

KeyFrom(pair, third, key) == key \in Triple /\ key[1] = pair[1] /\ key[2] = pair[2] /\ key[3] = third

LEMMA KeyAppended ==
  ASSUME NEW pair \in Pair, NEW third \in Int, NEW key, key = Append(pair, third)
  PROVE  KeyFrom(pair, third, key)
<1>0. pair \in [1..2 -> Int] /\ DOMAIN pair = 1..2
  BY DEF Pair
<1>1. pair \in Seq(Int)
  <2>1. pair \in UNION {[1..n -> Int] : n \in Nat}
    BY <1>0
  <2> QED BY <2>1, SeqDef, Zenon
<1>2. Len(pair) = 2
  <2>1. DOMAIN pair = 1..Len(pair) /\ Len(pair) \in Nat
    BY <1>1, LenProperties
  <2> QED BY <1>0, <2>1
<1>3. /\ key \in Seq(Int) /\ Len(key) = Len(pair) + 1
      /\ \A n \in 1..Len(pair) : key[n] = pair[n]
      /\ key[Len(pair) + 1] = third
  <2>1. PICK I : I = Int
    OBVIOUS
  <2>2. pair \in Seq(I) /\ third \in I
    BY <1>1, <2>1
  <2>3. /\ key \in Seq(I) /\ Len(key) = Len(pair) + 1
        /\ \A n \in 1..Len(pair) : key[n] = pair[n]
        /\ key[Len(pair) + 1] = third
    BY <2>2, AppendProperties, ZenonT(60)
  <2> QED BY <2>1, <2>3, Zenon
<1>4. key[1] = pair[1] /\ key[2] = pair[2] /\ key[3] = third /\ Len(key) = 3
  <2>1. 1 \in 1..2 /\ 2 \in 1..2 /\ 2 + 1 = 3
    OBVIOUS
  <2> QED BY <1>2, <1>3, <2>1, Zenon
<1>5. key \in [1..3 -> Int]
  <2>1. key \in [1..Len(key) -> Int]
    BY <1>3, LenProperties, Zenon
  <2> QED BY <1>4, <2>1, Zenon
<1> QED BY <1>4, <1>5, Zenon DEF Triple, KeyFrom

LEMMA Retained == IInv => RetainedIsExact
<1> SUFFICES ASSUME IInv, NEW w \in Workers
             PROVE  LET cache == CacheOf(w)
                        table == cache.table
                        Exact(key, e) ==
                          /\ ToSet(key) \subseteq 0..(Len(Signatures(cache)) - 1) \cup {BeginSignature, EndSignature}
                          /\ e.score = TrueScore[DataOf(cache, key[1])][DataOf(cache, key[2])][DataOf(cache, key[3])]
                          /\ e.next # NoRow => table.pairs[e.next] = Tail(key)
                    IN /\ \A r \in DOMAIN table.rows : \A e \in ToSet(table.rows[r].inline) :
                            Exact(Append(table.pairs[r], e.third), e)
                       /\ \A e \in ToSet(table.overflow) : Exact(e.key, e)
  BY Zenon DEF RetainedIsExact
<1>1. PICK c : c = CacheOf(w)
  OBVIOUS
<1>2. Good(c)
  BY <1>1 DEF IInv
<1> DEFINE Exact(key, e) ==
             /\ ToSet(key) \subseteq 0..(Len(Signatures(c)) - 1) \cup {BeginSignature, EndSignature}
             /\ e.score = TrueScore[DataOf(c, key[1])][DataOf(c, key[2])][DataOf(c, key[3])]
             /\ e.next # NoRow => c.table.pairs[e.next] = Tail(key)
<1>3. ASSUME NEW key \in Triple, NEW e, RightFor(c, key[1], key[2], key[3], e)
      PROVE  Exact(key, e)
  <2>1. PICK x, y, z : x = key[1] /\ y = key[2] /\ z = key[3]
    OBVIOUS
  <2>2. ToSet(key) = {x, y, z} /\ Tail(key) = <<y, z>>
    BY <2>1, KeyOfThree
  <2>3. /\ {x, y, z} \subseteq 0..(Len(Signatures(c)) - 1) \cup {BeginSignature, EndSignature}
        /\ e.score = TrueScore[DataOf(c, x)][DataOf(c, y)][DataOf(c, z)]
        /\ e.next # NoRow => c.table.pairs[e.next] = <<y, z>>
    BY <1>2, <1>3, <2>1, EntryExact
  <2> QED BY <2>1, <2>2, <2>3
<1> HIDE DEF Exact
<1>4. ASSUME NEW r \in DOMAIN c.table.rows, NEW e \in ToSet(c.table.rows[r].inline)
      PROVE  Exact(Append(c.table.pairs[r], e.third), e)
  <2>1. PICK pairs, rows : pairs = c.table.pairs /\ rows = c.table.rows
    OBVIOUS
  <2>2. pairs \in Seq(Pair) /\ rows \in Seq(Rows) /\ Len(rows) = Len(pairs) /\ Len(rows) \in Nat
    BY <1>2, <2>1, PairsListed DEF Good, TableFits
  <2>3. r \in 1..Len(rows) /\ r \in 1..Len(pairs)
    BY <2>1, <2>2
  <2>4. rows[r] \in Rows /\ pairs[r] \in Pair
    BY <2>2, <2>3, ElementOfSeq
  <2>5. PICK inline, pair : inline = rows[r].inline /\ pair = pairs[r]
    OBVIOUS
  <2>6. inline \in Seq(Entries)
    BY <2>4, <2>5 DEF Rows
  <2>7. PICK i \in DOMAIN inline : e = inline[i]
    BY <2>1, <2>5 DEF ToSet
  <2>8. e \in Entries
    <3>1. i \in 1..Len(inline)
      BY <2>6
    <3> QED BY <2>6, <2>7, <3>1, ElementOfSeq
  <2>9. PICK third : third = e.third
    OBVIOUS
  <2>10. third \in Int
    BY <2>8, <2>9 DEF Entries
  <2>11. PICK key : key = Append(pair, third)
    OBVIOUS
  <2>12. key \in Triple /\ key[1] = pair[1] /\ key[2] = pair[2] /\ key[3] = third
    <3>1. pair \in Pair
      BY <2>4, <2>5
    <3>2. KeyFrom(pair, third, key)
      BY <2>10, <2>11, <3>1, KeyAppended
    <3> QED BY <3>2 DEF KeyFrom
  <2>15. RightFor(c, pair[1], pair[2], third, e)
    BY <1>2, <2>1, <2>5, <2>7, <2>9 DEF Good, RowsRight
  <2>16. Exact(key, e)
    BY <1>3, <2>12, <2>15
  <2> QED BY <2>1, <2>5, <2>9, <2>11, <2>16
<1>5. ASSUME NEW e \in ToSet(c.table.overflow)
      PROVE  Exact(e.key, e)
  <2>1. PICK overflow : overflow = c.table.overflow
    OBVIOUS
  <2>2. overflow \in Seq(Spills)
    BY <1>2, <2>1, PairsListed DEF Good
  <2>3. PICK i \in DOMAIN overflow : e = overflow[i]
    BY <2>1 DEF ToSet
  <2>4. e \in Spills
    <3>1. i \in 1..Len(overflow)
      BY <2>2
    <3> QED BY <2>2, <2>3, <3>1, ElementOfSeq
  <2>5. PICK key : key = e.key
    OBVIOUS
  <2>6. key \in Triple
    BY <2>4, <2>5 DEF Spills
  <2>7. RightFor(c, key[1], key[2], key[3], e)
    BY <1>2, <2>1, <2>3, <2>5, SMTT(60) DEF Good, SpillsRight
  <2> QED BY <1>3, <2>5, <2>6, <2>7
<1> QED BY <1>1, <1>4, <1>5, ZenonT(60) DEF Exact

LEMMA RowsFollow == IInv => RowsFollowHypotheses
<1> SUFFICES ASSUME IInv, NEW w \in Workers, calls[w] # Idle, NEW i \in DOMAIN calls[w].active,
                    calls[w].active[i].row # NoRow
             PROVE  caches[w].table.pairs[calls[w].active[i].row] =
                      [k \in 1..2 |-> Signature(CacheOf(w), LastTwo(calls[w].sentence, calls[w].active[i].path)[k])]
  BY Zenon DEF RowsFollowHypotheses
<1>1. PICK c, h, words :
        c = CacheOf(w) /\ h = calls[w].active[i] /\ words = LastTwo(calls[w].sentence, h.path)
  OBVIOUS
<1>2. PICK pairs, row : pairs = c.table.pairs /\ row = h.row
  OBVIOUS
<1>3. Good(c) /\ c.table = caches[w].table
  BY <1>1 DEF IInv, CacheOf
<1>4. Follows(c, calls[w].sentence, calls[w].done, h)
  BY <1>1, Zenon DEF IInv, UnderWay
<1>5. row \in 0..Len(pairs) /\ row # 0 /\ pairs[row][1] = Signature(c, words[1]) /\ pairs[row][2] = Signature(c, words[2])
  BY <1>1, <1>2, <1>4, Zenon DEF Follows, NoRow
<1>6. pairs \in Seq(Pair) /\ Len(pairs) \in Nat
  BY <1>2, <1>3, PairsListed DEF Good
<1>7. pairs[row] \in Pair
  <2>1. row \in 1..Len(pairs)
    BY <1>5, <1>6
  <2> QED BY <1>6, <2>1, ElementOfSeq
<1>8. PICK one, two : one = Signature(c, words[1]) /\ two = Signature(c, words[2])
  OBVIOUS
<1>9. [k \in 1..2 |-> Signature(c, words[k])] = [k \in 1..2 |-> IF k = 1 THEN one ELSE two]
  BY <1>8
<1>10. pairs[row] = [k \in 1..2 |-> IF k = 1 THEN one ELSE two]
  BY <1>5, <1>7, <1>8 DEF Pair
<1> QED BY <1>1, <1>2, <1>3, <1>9, <1>10, ZenonT(60)

LEMMA BanksHold == IInv => BanksHoldTheirWords
<1> SUFFICES ASSUME IInv PROVE BanksHoldTheirWords
  OBVIOUS
<1>1. \A i \in DOMAIN shared : shared[i] # <<>> => shared[i] = <<PreparedWord(base[i])>>
  BY DEF IInv, SharedHolds
<1>2. ASSUME NEW w \in Workers, NEW i \in DOMAIN caches[w].local, caches[w].local[i] # <<>>
      PROVE  i \in DOMAIN caches[w].delta /\ caches[w].local[i] = <<PreparedWord(caches[w].delta[i])>>
  <2>1. PICK c : c = CacheOf(w)
    OBVIOUS
  <2>2. LocalHolds(c) /\ c.local = caches[w].local /\ c.delta = caches[w].delta
    BY <2>1 DEF IInv, Good, CacheOf
  <2> QED BY <1>2, <2>2 DEF LocalHolds
<1> QED BY <1>1, <1>2 DEF BanksHoldTheirWords

\* Whatever calls the workers of a tokenizer make and however they interleave,
\* with any lexicon, weights and table limits: a row, an overflow entry or a
\* prepared word that a worker finds again (score_compact_transition,
\* ensure_prepared_word) is what trigram_score_parts would compute for the words
\* its signatures stand for now, and a hypothesis goes on from its own row.
THEOREM RetainedIsRight == Spec => []CachesExact
<1>1. IInv => CachesExact
  BY StaysTyped, Retained, RowsFollow, BanksHold DEF CachesExact
<1> QED BY <1>1, Invariant, PTL

-----------------------------------------------------------------------------
(***************************************************************************)
(* The causal decoder: behind every prefix of what it chose, the next      *)
(* choice is the first of the best.  Causal calls never fall back, and     *)
(* their sentence is the one that was asked for.                           *)
(***************************************************************************)

GoesOn(sentence, prefix, b) == FirstGreatest(NextScores(sentence, prefix), Len(sentence[Len(prefix) + 1]), b)
Greedy(sentence, path) == \A i \in 1..Len(path) : GoesOn(sentence, SubSeq(path, 1, i - 1), path[i])

CausalOf(k) ==
  k.call \in Causal =>
    k.decoder = "causal" /\ k.sentence = k.asked /\ Greedy(k.sentence, k.active[1].path)

AnswerOf(a) ==
  a[1] \in Causal /\ a[3] # <<>> =>
    /\ a[2] \in Seq(Seq(Words)) /\ (\A i \in DOMAIN a[2] : a[2][i] # <<>>)
    /\ PathOf(a[2], a[3]) /\ Len(a[3]) = Len(a[2]) /\ Greedy(a[2], a[3])

CInv ==
  /\ \A w \in Workers : calls[w] # Idle => CausalOf(calls[w])
  /\ \A a \in answers : AnswerOf(a)

LEMMA Prefix ==
  ASSUME NEW U, NEW s \in Seq(U), NEW m \in Nat, m <= Len(s)
  PROVE  SubSeq(s, 1, m) \in Seq(U) /\ Len(SubSeq(s, 1, m)) = m /\ SubSeq(s, 1, m) = [j \in 1..m |-> s[j]]
OBVIOUS

LEMMA GreedyOn ==
  ASSUME NEW sentence, NEW path \in Seq(Nat), Greedy(sentence, path), NEW p, Picks(sentence, path, p)
  PROVE  Greedy(sentence, p)
<1>1. PICK b : GoesOn(sentence, path, b) /\ p = Append(path, b)
  BY DEF Picks, GoesOn
<1>2. PICK n \in Nat : n = Len(path)
  OBVIOUS
<1>3. PICK U : U = Nat \cup {b}
  OBVIOUS
<1>4. path \in Seq(U) /\ b \in U
  BY <1>3
<1>5. p \in Seq(U) /\ Len(p) = n + 1 /\ p[n + 1] = b /\ \A i \in 1..n : p[i] = path[i]
  BY <1>1, <1>2, <1>4, AppendProperties
<1>6. ASSUME NEW i \in 1..(n + 1) PROVE SubSeq(p, 1, i - 1) = SubSeq(path, 1, i - 1)
  <2>1. PICK m \in Nat : m = i - 1 /\ m <= n
    BY <1>2
  <2>2. SubSeq(p, 1, m) = [j \in 1..m |-> p[j]] /\ SubSeq(path, 1, m) = [j \in 1..m |-> path[j]]
    BY <1>2, <1>4, <1>5, <2>1, Prefix
  <2>3. \A j \in 1..m : p[j] = path[j]
    BY <1>5, <2>1
  <2> QED BY <2>1, <2>2, <2>3
<1>7. SubSeq(path, 1, n) = path
  BY <1>2, <1>4
<1>8. ASSUME NEW i \in 1..(n + 1) PROVE GoesOn(sentence, SubSeq(p, 1, i - 1), p[i])
  <2>1. CASE i \in 1..n
    <3>1. GoesOn(sentence, SubSeq(path, 1, i - 1), path[i])
      BY <1>2, <2>1 DEF Greedy
    <3> QED BY <1>5, <1>6, <2>1, <3>1
  <2>2. CASE i = n + 1
    <3>1. SubSeq(p, 1, i - 1) = path /\ p[i] = b
      <4>1. i - 1 = n
        BY <2>2
      <4> QED BY <1>5, <1>6, <1>7, <2>2, <4>1
    <3> QED BY <1>1, <3>1
  <2> QED BY <2>1, <2>2
<1> QED BY <1>5, <1>8 DEF Greedy

\* The calls of the other workers and the answers there are stay as they are.
LEMMA CausalStays ==
  ASSUME IInv, CInv, NEW w \in Workers, NEW k, calls' = [calls EXCEPT ![w] = k], k = Idle \/ CausalOf(k),
         \A a \in answers' : a \in answers \/ AnswerOf(a)
  PROVE  CInv'
<1>1. calls'[w] = k /\ \A v \in Workers \ {w} : calls'[v] = calls[v]
  <2>1. PICK R : calls \in [Workers -> R]
    BY DEF IInv
  <2> QED BY <2>1
<1>2. ASSUME NEW v \in Workers, calls'[v] # Idle PROVE CausalOf(calls'[v])
  <2>1. CASE v = w
    BY <1>1, <1>2, <2>1
  <2>2. CASE v # w
    <3>1. calls'[v] = calls[v]
      BY <1>1, <2>2
    <3>2. CausalOf(calls[v])
      BY <1>2, <3>1 DEF CInv
    <3> QED BY <3>1, <3>2
  <2> QED BY <2>1, <2>2
<1>3. \A a \in answers' : AnswerOf(a)
  BY DEF CInv
<1> QED BY <1>2, <1>3 DEF CInv

LEMMA CausalCall ==
  ASSUME IInv, CInv, NEW w \in Workers, Call(w)
  PROVE  CInv'
<1>1. PICK request \in Requests : Refuse(w, request[1], request[2]) \/ Start(w, request[1], request[2])
  BY DEF Call
<1>2. PICK call, asked : call = request[1] /\ asked = request[2]
  OBVIOUS
<1>3. CASE Refuse(w, call, asked)
  <2>1. calls' = calls /\ answers' = answers \cup {<<call, asked, <<>>>>}
    BY <1>3 DEF Refuse
  <2>2. AnswerOf(<<call, asked, <<>>>>)
    BY DEF AnswerOf
  <2> QED BY <2>1, <2>2 DEF CInv
<1>4. CASE Start(w, call, asked)
  <2>1. PICK row, k :
          /\ k = [call |-> call, asked |-> asked, sentence |-> Completed(asked), decoder |-> DecoderOf(call, asked),
                  done |-> 0, active |-> <<Root(row)>>]
          /\ calls' = [calls EXCEPT ![w] = k] /\ answers' = answers /\ ~Refused(call, asked)
    BY <1>4 DEF Start
  <2>2. /\ k.call = call /\ k.asked = asked /\ k.sentence = Completed(asked) /\ k.decoder = DecoderOf(call, asked)
        /\ k.active = <<Root(row)>>
    BY <2>1
  <2>3. ASSUME call \in Causal PROVE CausalOf(k)
    <3>1. k.decoder = "causal"
      BY <2>2, <2>3, Zenon DEF DecoderOf, Causal
    <3>2. call # "disambiguate"
      BY <2>3, Zenon DEF Causal
    <3>3. asked \in Seq(Seq(Words))
      BY <1>2, RequestKnown
    <3>4. k.sentence = k.asked
      BY <2>1, <2>2, <3>2, <3>3, CompletedGives DEF Refused
    <3>5. k.active[1].path = <<>>
      <4>1. k.active[1] = Root(row)
        BY <2>2
      <4> QED BY <4>1 DEF Root
    <3>6. Greedy(k.sentence, <<>>)
      BY DEF Greedy
    <3> QED BY <3>1, <3>4, <3>5, <3>6 DEF CausalOf
  <2>4. CausalOf(k)
    BY <2>2, <2>3 DEF CausalOf
  <2> QED BY <2>1, <2>4, CausalStays
<1> QED BY <1>1, <1>2, <1>3, <1>4

\* A decoder that falls back is not that of a causal call.
LEMMA CausalFallBack ==
  ASSUME IInv, CInv, NEW w \in Workers, calls[w] # Idle, calls[w].decoder # "causal", NEW d, FallBack(w, d),
         answers' = answers
  PROVE  CInv'
<1>1. PICK k : k = calls[w]
  OBVIOUS
<1>2. k.call \notin Causal
  BY <1>1 DEF CInv, CausalOf
<1>3. PICK row, g : calls' = [calls EXCEPT ![w] = g] /\ g = Going(k, "hash", 0, <<Root(row)>>)
  <2>1. PICK row : calls' = [calls EXCEPT ![w] = Going(@, "hash", 0, <<Root(row)>>)]
    BY DEF FallBack
  <2> QED BY <1>1, <2>1
<1>4. g.call = k.call
  BY <1>3 DEF Going
<1>5. CausalOf(g)
  BY <1>2, <1>4 DEF CausalOf
<1> QED BY <1>3, <1>5, CausalStays

LEMMA CausalExtend ==
  ASSUME IInv, CInv, NEW w \in Workers, ExtendAll(w)
  PROVE  CInv'
<1>1. PICK c, k : c = CacheOf(w) /\ k = calls[w]
  OBVIOUS
<1>2. calls[w] # Idle /\ k.done < Len(k.sentence) /\ answers' = answers
  BY <1>1 DEF ExtendAll
<1>3. Good(c) /\ UnderWay(c, k) /\ CausalOf(k)
  BY <1>1, <1>2 DEF IInv, CInv
<1>4. PICK l : l = Layer(k, c)
  OBVIOUS
<1>5. k.decoder = "causal" => ~l.tied /\ Picks(k.sentence, k.active[1].path, l.active[1].path)
  BY <1>2, <1>3, <1>4, LayerGives
<1>6. \/ calls' = [calls EXCEPT ![w] = Going(@, @.decoder, @.done + 1, l.active)]
      \/ l.tied /\ FallBack(w, l.cache)
  BY <1>1, <1>4 DEF ExtendAll
<1>7. CASE calls' = [calls EXCEPT ![w] = Going(@, @.decoder, @.done + 1, l.active)]
  <2>1. PICK g : g = Going(k, k.decoder, k.done + 1, l.active)
    OBVIOUS
  <2>2. calls' = [calls EXCEPT ![w] = g]
    BY <1>1, <1>7, <2>1
  <2>3. g.call = k.call /\ g.asked = k.asked /\ g.sentence = k.sentence /\ g.decoder = k.decoder /\ g.active = l.active
    BY <2>1 DEF Going
  <2>4. ASSUME k.call \in Causal PROVE CausalOf(g)
    <3>1. k.decoder = "causal" /\ k.sentence = k.asked /\ Greedy(k.sentence, k.active[1].path)
      BY <1>3, <2>4 DEF CausalOf
    <3>2. k.active[1].path \in Seq(Nat)
      <4>1. Len(k.active) = 1 /\ k.active \in Seq(Hypotheses)
        BY <1>3, <3>1 DEF UnderWay, CallRecords
      <4>2. k.active[1] \in Hypotheses
        BY <4>1
      <4> QED BY <4>2 DEF Hypotheses
    <3>3. Greedy(k.sentence, l.active[1].path)
      BY <1>5, <3>1, <3>2, GreedyOn
    <3> QED BY <2>3, <3>1, <3>3 DEF CausalOf
  <2>5. CausalOf(g)
    BY <2>3, <2>4 DEF CausalOf
  <2> QED BY <1>2, <2>2, <2>5, CausalStays
<1>8. CASE l.tied /\ FallBack(w, l.cache)
  <2>1. calls[w].decoder # "causal"
    BY <1>1, <1>5, <1>8
  <2> QED BY <1>2, <1>8, <2>1, CausalFallBack
<1> QED BY <1>6, <1>7, <1>8

\* The best of one hypothesis.
LEMMA BestOfOne ==
  ASSUME NEW hypotheses \in Seq(Hypotheses), Len(hypotheses) = 1
  PROVE  Best(hypotheses) = hypotheses[1]
<1>1. hypotheses # <<>>
  BY EmptySeq
<1>2. PICK n, scores : n = Len(hypotheses) /\ scores = ScoresOf(hypotheses)
  OBVIOUS
<1>3. PICK b : FirstGreatest(scores, n, b) /\ Best(hypotheses) = hypotheses[b]
  BY <1>1, <1>2, BestIsFirst
<1>4. b \in 1..1
  BY <1>2, <1>3 DEF FirstGreatest
<1> QED BY <1>3, <1>4

LEMMA CausalChoose ==
  ASSUME IInv, CInv, NEW w \in Workers, Choose(w)
  PROVE  CInv'
<1>1. PICK c, k : c = CacheOf(w) /\ k = calls[w]
  OBVIOUS
<1>2. calls[w] # Idle /\ k.done = Len(k.sentence)
  BY <1>1 DEF Choose
<1>3. Good(c) /\ UnderWay(c, k) /\ CausalOf(k)
  BY <1>1, <1>2 DEF IInv, CInv
<1>4. PICK l : l = Terminal(k, c)
  OBVIOUS
<1>5. k.decoder = "causal" => ~l.tied
  BY <1>3, <1>4, TerminalGives
<1>6. \/ /\ answers' = answers \cup {<<k.call, k.asked, Best(l.active).path>>}
         /\ calls' = [calls EXCEPT ![w] = Idle]
      \/ l.tied /\ FallBack(w, l.cache) /\ answers' = answers
  BY <1>1, <1>4 DEF Choose
<1>7. CASE /\ answers' = answers \cup {<<k.call, k.asked, Best(l.active).path>>}
           /\ calls' = [calls EXCEPT ![w] = Idle]
  <2>1. PICK path, a : path = Best(l.active).path /\ a = <<k.call, k.asked, path>>
    OBVIOUS
  <2>2. a[1] = k.call /\ a[2] = k.asked /\ a[3] = path
    BY <2>1
  <2>3. ASSUME k.call \in Causal PROVE AnswerOf(a)
    <3>1. k.decoder = "causal" /\ k.sentence = k.asked /\ Greedy(k.sentence, k.active[1].path)
      BY <1>3, <2>3 DEF CausalOf
    <3>2. l.active = k.active
      BY <1>4, <3>1 DEF Terminal
    <3>3. Len(k.active) = 1 /\ k.active \in Seq(Hypotheses) /\ k.sentence \in Seq(Seq(Words))
      BY <1>3, <3>1 DEF UnderWay, CallRecords
    <3>4. path = k.active[1].path
      BY <2>1, <3>2, <3>3, BestOfOne
    <3>5. Follows(c, k.sentence, k.done, k.active[1]) /\ \A i \in DOMAIN k.sentence : k.sentence[i] # <<>>
      <4>1. 1 \in DOMAIN k.active
        BY <3>3
      <4> QED BY <1>3, <4>1 DEF UnderWay
    <3>6. PathOf(k.sentence, path) /\ Len(path) = Len(k.sentence)
      <4>1. path \in Seq(Nat) /\ Len(path) = k.done /\ \A i \in 1..k.done : path[i] \in 1..Len(k.sentence[i])
        BY <3>4, <3>5 DEF Follows, Hypotheses
      <4>2. Len(k.sentence) <= Len(k.sentence)
        BY <3>3
      <4> QED BY <1>2, <4>1, <4>2 DEF PathOf
    <3> QED BY <2>2, <3>1, <3>3, <3>4, <3>5, <3>6 DEF AnswerOf
  <2>4. AnswerOf(a)
    BY <2>2, <2>3 DEF AnswerOf
  <2>5. PICK idle : idle = Idle
    OBVIOUS
  <2>6. calls' = [calls EXCEPT ![w] = idle] /\ answers' = answers \cup {a}
    BY <1>7, <2>1, <2>5
  <2> QED BY <2>4, <2>5, <2>6, CausalStays
<1>8. CASE l.tied /\ FallBack(w, l.cache) /\ answers' = answers
  <2>1. calls[w].decoder # "causal"
    BY <1>1, <1>5, <1>8
  <2> QED BY <1>2, <1>8, <2>1, CausalFallBack
<1> QED BY <1>6, <1>7, <1>8

LEMMA CausalKept == IInv /\ CInv /\ [Next]_vars => CInv'
<1> SUFFICES ASSUME IInv, CInv, [Next]_vars PROVE CInv'
  OBVIOUS
<1>1. ASSUME NEW w \in Workers, Clear(w) PROVE CInv'
  BY <1>1 DEF Clear, CInv
<1>2. CASE Next
  <2>1. PICK w \in Workers : Call(w) \/ ExtendAll(w) \/ Choose(w) \/ Clear(w)
    BY <1>2 DEF Next
  <2> QED BY <1>1, <2>1, CausalCall, CausalExtend, CausalChoose
<1>3. CASE UNCHANGED vars
  BY <1>3 DEF vars, CInv
<1> QED BY <1>2, <1>3

-----------------------------------------------------------------------------
(***************************************************************************)
(* What it says of the causal choices.                                     *)
(***************************************************************************)

LEMMA NextScoreTyped ==
  ASSUME NEW sentence \in Seq(Seq(Words)), NEW prefix, PathOf(sentence, prefix), Len(prefix) < Len(sentence),
         NEW a \in 1..Len(sentence[Len(prefix) + 1])
  PROVE  /\ Data(WordAt(sentence, prefix, Len(prefix) - 1)) \in AllData
         /\ Data(WordAt(sentence, prefix, Len(prefix))) \in AllData
         /\ Data(sentence[Len(prefix) + 1][a]) \in AllData
         /\ NextScore(sentence, prefix, a) \in Int
<1>1. PICK n \in Nat : n = Len(prefix)
  BY DEF PathOf
<1>2. ASSUME NEW w, \/ w \in {Begin, End}
                    \/ \E i \in DOMAIN sentence : \E k \in DOMAIN sentence[i] : w = sentence[i][k]
      PROVE  Data(w) \in AllData
  <2>1. CASE w \in {Begin, End}
    BY <2>1, DataKnown
  <2>2. CASE \E i \in DOMAIN sentence : \E k \in DOMAIN sentence[i] : w = sentence[i][k]
    <3>1. PICK i \in DOMAIN sentence : \E k \in DOMAIN sentence[i] : w = sentence[i][k]
      BY <2>2
    <3>2. sentence[i] \in Seq(Words)
      BY <3>1
    <3>3. w \in Words
      BY <3>1, <3>2
    <3> QED BY <3>3, DataKnown
  <2> QED BY <1>2, <2>1, <2>2
<1>3. PICK w1, w2, w3 : w1 = WordAt(sentence, prefix, n - 1) /\ w2 = WordAt(sentence, prefix, n) /\ w3 = sentence[n + 1][a]
  OBVIOUS
<1>4. n - 1 \in Int /\ n - 1 <= Len(prefix) /\ n \in Int /\ n <= Len(prefix)
  BY <1>1
<1>5. Data(w1) \in AllData
  <2>1. \/ w1 \in {Begin, End}
        \/ \E i \in DOMAIN sentence : \E k \in DOMAIN sentence[i] : w1 = sentence[i][k]
    BY <1>3, <1>4, PathWord
  <2> QED BY <1>2, <2>1
<1>6. Data(w2) \in AllData
  <2>1. \/ w2 \in {Begin, End}
        \/ \E i \in DOMAIN sentence : \E k \in DOMAIN sentence[i] : w2 = sentence[i][k]
    BY <1>3, <1>4, PathWord
  <2> QED BY <1>2, <2>1
<1>7. Data(w3) \in AllData
  <2>1. n + 1 \in DOMAIN sentence
    BY <1>1
  <2>2. sentence[n + 1] \in Seq(Words)
    BY <2>1
  <2>3. a \in DOMAIN sentence[n + 1]
    BY <1>1, <2>2
  <2>4. \E i \in DOMAIN sentence : \E k \in DOMAIN sentence[i] : w3 = sentence[i][k]
    BY <1>3, <2>1, <2>3
  <2> QED BY <1>2, <2>4
<1>8. TrigramScore(Data(w1), Data(w2), Data(w3)) \in Int
  BY <1>5, <1>6, <1>7, Scores
<1>9. NextScore(sentence, prefix, a) = TrigramScore(Data(w1), Data(w2), Data(w3))
  BY <1>1, <1>3 DEF NextScore
<1> QED BY <1>1, <1>3, <1>5, <1>6, <1>7, <1>8, <1>9

\* The first of the greatest is one place.
LEMMA OneFirst ==
  ASSUME NEW f, NEW n, \A k \in 1..n : f[k] \in Int, NEW a, NEW b, FirstGreatest(f, n, a), FirstGreatest(f, n, b)
  PROVE  a = b
<1>1. a \in 1..n /\ b \in 1..n /\ f[a] \in Int /\ f[b] \in Int
  BY DEF FirstGreatest
<1>2. f[a] <= f[b] /\ f[b] <= f[a] /\ (a < b => f[a] < f[b]) /\ (b < a => f[b] < f[a])
  BY <1>1 DEF FirstGreatest
<1>3. ~(a < b) /\ ~(b < a)
  BY <1>1, <1>2
<1> QED BY <1>1, <1>3

LEMMA PrefixPath ==
  ASSUME NEW sentence \in Seq(Seq(Words)), NEW path, PathOf(sentence, path), NEW m \in Nat, m <= Len(path),
         NEW prefix, prefix = SubSeq(path, 1, m)
  PROVE  PathOf(sentence, prefix) /\ Len(prefix) = m /\ \A j \in 1..m : prefix[j] = path[j]
<1>1. path \in Seq(Nat) /\ Len(path) \in Nat /\ Len(path) <= Len(sentence)
  BY DEF PathOf
<1>2. prefix \in Seq(Nat) /\ Len(prefix) = m /\ prefix = [j \in 1..m |-> path[j]]
  BY <1>1, Prefix, SMTT(60)
<1>3. \A j \in 1..m : prefix[j] = path[j] /\ j \in 1..Len(path)
  BY <1>1, <1>2
<1>4. \A j \in 1..m : prefix[j] \in 1..Len(sentence[j])
  BY <1>3 DEF PathOf
<1>5. m <= Len(sentence)
  BY <1>1
<1> QED BY <1>2, <1>3, <1>4, <1>5 DEF PathOf

\* Where sentences are alike, so are the scores behind a prefix.
LEMMA ScoresAlike ==
  ASSUME NEW s \in Seq(Seq(Words)), NEW t \in Seq(Seq(Words)), NEW n \in Nat, \A i \in 1..n : s[i] = t[i],
         NEW prefix, PathOf(s, prefix), Len(prefix) < n
  PROVE  NextScores(s, prefix) = NextScores(t, prefix)
<1>1. PICK m \in Nat : m = Len(prefix) /\ m + 1 \in 1..n
  BY DEF PathOf
<1>2. ASSUME NEW i \in Int, i <= m PROVE WordAt(s, prefix, i) = WordAt(t, prefix, i)
  <2>1. i <= 0 \/ i \in 1..n
    BY <1>1, <1>2
  <2> QED BY <2>1 DEF WordAt
<1>3. s[m + 1] = t[m + 1]
  BY <1>1
<1>4. WordAt(s, prefix, m - 1) = WordAt(t, prefix, m - 1) /\ WordAt(s, prefix, m) = WordAt(t, prefix, m)
  BY <1>1, <1>2
<1>5. \A a : NextScore(s, prefix, a) = NextScore(t, prefix, a)
  BY <1>1, <1>3, <1>4 DEF NextScore
<1> QED BY <1>1, <1>3, <1>5 DEF NextScores

LEMMA GreedyAlike ==
  ASSUME NEW s \in Seq(Seq(Words)), NEW t \in Seq(Seq(Words)), NEW p, NEW q,
         PathOf(s, p), Greedy(s, p), PathOf(t, q), Greedy(t, q),
         NEW n \in Nat, n <= Len(p), n <= Len(q), \A i \in 1..n : s[i] = t[i]
  PROVE  \A i \in 1..n : p[i] = q[i]
<1>1. p \in Seq(Nat) /\ q \in Seq(Nat) /\ Len(p) \in Nat /\ Len(q) \in Nat /\ Len(p) <= Len(s) /\ Len(q) <= Len(t)
  BY DEF PathOf
<1> DEFINE T == {k \in Nat : k <= n => \A i \in 1..k : p[i] = q[i]}
<1>2. 0 \in T
  OBVIOUS
<1>3. ASSUME NEW k \in Nat, k \in T PROVE k + 1 \in T
  <2> SUFFICES ASSUME k + 1 <= n PROVE \A i \in 1..(k + 1) : p[i] = q[i]
    OBVIOUS
  <2>1. \A i \in 1..k : p[i] = q[i]
    BY <1>3
  <2>2. PICK r, u : r = SubSeq(p, 1, k) /\ u = SubSeq(q, 1, k)
    OBVIOUS
  <2>3. k <= Len(p) /\ k <= Len(q) /\ k + 1 \in 1..Len(p) /\ k + 1 \in 1..Len(q) /\ (k + 1) - 1 = k /\ k < n
    BY <1>1, SMTT(60)
  <2>4. r = u
    <3>1. r = [j \in 1..k |-> p[j]] /\ u = [j \in 1..k |-> q[j]]
      BY <1>1, <2>2, <2>3, Prefix
    <3> QED BY <2>1, <3>1
  <2>5. PathOf(s, r) /\ Len(r) = k
    BY <2>2, <2>3, PrefixPath, ZenonT(60)
  <2>6. PICK f, m : f = NextScores(s, r) /\ m = Len(s[k + 1])
    OBVIOUS
  <2>7. NextScores(t, r) = f /\ s[k + 1] = t[k + 1]
    <3>1. PathOf(s, r) /\ Len(r) < n
      BY <2>3, <2>5
    <3>2. NextScores(s, r) = NextScores(t, r)
      BY <3>1, ScoresAlike, ZenonT(60)
    <3>3. s[k + 1] = t[k + 1]
      BY <2>3
    <3> QED BY <2>6, <3>2, <3>3
  <2>8. FirstGreatest(f, m, p[k + 1])
    <3>1. GoesOn(s, SubSeq(p, 1, (k + 1) - 1), p[k + 1])
      BY <2>3 DEF Greedy
    <3> QED BY <2>2, <2>3, <2>5, <2>6, <3>1 DEF GoesOn
  <2>9. FirstGreatest(f, m, q[k + 1])
    <3>1. GoesOn(t, SubSeq(q, 1, (k + 1) - 1), q[k + 1])
      BY <2>3 DEF Greedy
    <3>2. GoesOn(t, r, q[k + 1])
      BY <2>2, <2>3, <2>4, <3>1
    <3> QED BY <2>5, <2>6, <2>7, <3>2 DEF GoesOn
  <2>10. \A a \in 1..m : f[a] \in Int
    <3>1. Len(r) < Len(s)
      BY <1>1, <2>3, <2>5
    <3>2. \A a \in 1..m : NextScore(s, r, a) \in Int
      BY <2>5, <2>6, <3>1, NextScoreTyped
    <3> QED BY <2>5, <2>6, <3>2 DEF NextScores
  <2>11. p[k + 1] = q[k + 1]
    BY <2>8, <2>9, <2>10, OneFirst
  <2>12. \A i \in 1..(k + 1) : i \in 1..k \/ i = k + 1
    OBVIOUS
  <2> QED BY <2>1, <2>11, <2>12
<1>4. Nat \subseteq T
  <2> HIDE DEF T
  <2> QED BY <1>2, <1>3, Numbers!Induct
<1>5. n \in T
  BY <1>4
<1> QED BY <1>5

LEMMA AnswersKnown ==
  ASSUME CInv, NEW a \in Chosen, a[1] \in Causal
  PROVE  /\ a[2] \in Seq(Seq(Words)) /\ (\A i \in DOMAIN a[2] : a[2][i] # <<>>)
         /\ PathOf(a[2], a[3]) /\ Len(a[3]) = Len(a[2]) /\ Greedy(a[2], a[3])
BY DEF CInv, AnswerOf, Chosen

LEMMA Unseen == CInv => FutureUnseen
<1> SUFFICES ASSUME CInv, NEW a \in Chosen, NEW b \in Chosen, a[1] \in Causal, b[1] \in Causal,
                    NEW n \in 1..Min({Len(a[2]), Len(b[2])}), SubSeq(a[2], 1, n) = SubSeq(b[2], 1, n)
             PROVE  SubSeq(a[3], 1, n) = SubSeq(b[3], 1, n)
  BY DEF FutureUnseen
<1>1. PICK s, t, p, q : s = a[2] /\ t = b[2] /\ p = a[3] /\ q = b[3]
  OBVIOUS
<1>2. /\ s \in Seq(Seq(Words)) /\ PathOf(s, p) /\ Len(p) = Len(s) /\ Greedy(s, p)
      /\ t \in Seq(Seq(Words)) /\ PathOf(t, q) /\ Len(q) = Len(t) /\ Greedy(t, q)
  BY <1>1, AnswersKnown
<1>3. PICK k, l : k = Len(s) /\ l = Len(t)
  OBVIOUS
<1>4. k \in Nat /\ l \in Nat
  BY <1>2, <1>3
<1>5. Min({k, l}) \in {k, l} /\ Min({k, l}) <= k /\ Min({k, l}) <= l
  <2>1. \E x \in {k, l} : \A y \in {k, l} : x <= y
    BY <1>4
  <2> QED BY <1>4, <2>1 DEF Min
<1>6. n \in Nat /\ n <= k /\ n <= l
  BY <1>1, <1>3, <1>4, <1>5
<1>7. \A i \in 1..n : s[i] = t[i]
  <2>1. SubSeq(s, 1, n) = [i \in 1..n |-> s[i]] /\ SubSeq(t, 1, n) = [i \in 1..n |-> t[i]]
    BY <1>2, <1>3, <1>6, Prefix
  <2>2. \A i \in 1..n : [j \in 1..n |-> s[j]][i] = s[i] /\ [j \in 1..n |-> t[j]][i] = t[i]
    OBVIOUS
  <2> QED BY <1>1, <2>1, <2>2
<1>8. \A i \in 1..n : p[i] = q[i]
  <2>1. n <= Len(p) /\ n <= Len(q)
    BY <1>2, <1>3, <1>6
  <2> QED BY <1>2, <1>6, <1>7, <2>1, GreedyAlike, SMTT(60)
<1>9. SubSeq(p, 1, n) = [i \in 1..n |-> p[i]] /\ SubSeq(q, 1, n) = [i \in 1..n |-> q[i]]
  <2>1. p \in Seq(Nat) /\ q \in Seq(Nat)
    BY <1>2 DEF PathOf
  <2> QED BY <1>2, <1>3, <1>6, <2>1, Prefix
<1> QED BY <1>1, <1>8, <1>9

\* A factor of a path that differs from a choice at most where it ends.
LEMMA FactorIsNext ==
  ASSUME NEW s \in Seq(Seq(Words)), NEW p, PathOf(s, p), NEW m \in Nat, m < Len(p), NEW i, i = m + 1,
         NEW x \in 1..Len(s[i]), NEW path, path = [p EXCEPT ![i] = x]
  PROVE  Factor(s, path, i) = NextScore(s, SubSeq(p, 1, m), x)
<1>1. PICK n \in Nat : n = Len(p) /\ i \in 1..n
  BY DEF PathOf
<1>2. p \in Seq(Nat) /\ x \in Nat
  BY DEF PathOf
<1>3. path \in Seq(Nat) /\ Len(path) = n /\ path[i] = x /\ \A j \in 1..n : j # i => path[j] = p[j]
  BY <1>1, <1>2
<1>4. m < n /\ i = m + 1
  BY <1>1
<1>5. PICK r : r = SubSeq(p, 1, m)
  OBVIOUS
<1>6. PathOf(s, r) /\ Len(r) = m /\ \A j \in 1..m : r[j] = p[j]
  <2>1. m <= Len(p)
    BY <1>1, <1>4
  <2>2. PathOf(s, r)
    BY <1>5, <2>1, PrefixPath
  <2>3. Len(r) = m
    BY <1>5, <2>1, PrefixPath
  <2>4. \A j \in 1..m : r[j] = p[j]
    BY <1>5, <2>1, PrefixPath
  <2> QED BY <2>2, <2>3, <2>4
<1>7. ASSUME NEW j \in Int, j <= m PROVE WordAt(s, path, j) = WordAt(s, r, j)
  <2>1. j <= 0 \/ (j \in 1..m /\ j \in 1..n /\ j # i)
    BY <1>4, <1>7
  <2>2. j <= 0 \/ path[j] = r[j]
    BY <1>3, <1>6, <2>1
  <2> QED BY <2>2, SMT DEF WordAt
<1>8. PICK w1, w2, w3 : w1 = WordAt(s, r, m - 1) /\ w2 = WordAt(s, r, m) /\ w3 = s[i][x]
  OBVIOUS
<1>9. WordAt(s, path, i - 2) = w1 /\ WordAt(s, path, i - 1) = w2 /\ WordAt(s, path, i) = w3
  <2>0. m - 1 \in Int /\ m - 1 <= m /\ m \in Int /\ m <= m
    OBVIOUS
  <2>1. i - 2 = m - 1 /\ i - 1 = m /\ m - 1 \in Int /\ m - 1 <= m /\ ~(i <= 0)
    BY <1>4
  <2>2. WordAt(s, path, i) = w3
    BY <1>3, <1>8, <2>1 DEF WordAt
  <2>3. WordAt(s, path, m - 1) = w1 /\ WordAt(s, path, m) = w2
    BY <1>7, <1>8, <2>0
  <2> QED BY <2>1, <2>2, <2>3
<1>10. ~(i - 2 > Len(path)) /\ ~(i - 1 > Len(path)) /\ ~(i > Len(path))
  BY <1>1, <1>3, SMT
<1>11. Factor(s, path, i) = TrueScore[Data(w1)][Data(w2)][Data(w3)]
  BY <1>9, <1>10 DEF Factor
<1>12. Data(w1) \in AllData /\ Data(w2) \in AllData /\ Data(w3) \in AllData
  <2>1. Len(r) < Len(s) /\ x \in 1..Len(s[Len(r) + 1])
    BY <1>1, <1>4, <1>6 DEF PathOf
  <2> QED BY <1>4, <1>6, <1>8, <2>1, NextScoreTyped
<1>13. NextScore(s, r, x) = TrigramScore(Data(w1), Data(w2), Data(w3))
  BY <1>4, <1>6, <1>8 DEF NextScore
<1> QED BY <1>4, <1>5, <1>11, <1>12, <1>13, ScoreTrue

\* The least place of a greatest entry.
LEMMA LeastGreatest ==
  ASSUME NEW row, NEW n \in Nat, DOMAIN row = 1..n, \A k \in 1..n : row[k] \in Int, NEW b, FirstGreatest(row, n, b)
  PROVE  b = Min({k \in DOMAIN row : \A j \in DOMAIN row : row[j] <= row[k]})
<1>1. PICK I : I = {k \in 1..n : \A j \in 1..n : row[j] <= row[k]}
  OBVIOUS
<1>2. b \in I /\ b \in Int
  BY <1>1 DEF FirstGreatest
<1>3. ASSUME NEW k \in I PROVE k \in Int /\ b <= k
  <2>1. k \in 1..n /\ b \in 1..n /\ row[b] \in Int /\ row[k] \in Int
    BY <1>1, <1>2
  <2>2. row[b] <= row[k] /\ (k < b => row[k] < row[b])
    BY <1>1, <2>1 DEF FirstGreatest
  <2> QED BY <2>1, <2>2
<1>4. b = Min(I)
  <2>1. \A x \in I : (\A y \in I : x <= y) => x = b
    BY <1>2, <1>3
  <2> QED BY <1>2, <1>3, <2>1 DEF Min
<1> QED BY <1>1, <1>4

LEMMA RowsExplain == CInv => RowsExplainChoice
<1> SUFFICES ASSUME CInv, NEW a \in Chosen, a[1] \in Causal, NEW i \in DOMAIN a[3], NEW row,
                    row = CausalRow(a[2], a[3], i)
             PROVE  a[3][i] = Min({k \in DOMAIN row : \A j \in DOMAIN row : row[j] <= row[k]})
  BY DEF RowsExplainChoice
<1>1. PICK s, p : s = a[2] /\ p = a[3]
  OBVIOUS
<1>2. s \in Seq(Seq(Words)) /\ PathOf(s, p) /\ Len(p) = Len(s) /\ Greedy(s, p)
  BY <1>1, AnswersKnown
<1>3. i \in 1..Len(p) /\ p[i] \in 1..Len(s[i]) /\ s[i] \in Seq(Words)
  <2>1. p \in Seq(Nat) /\ Len(p) \in Nat /\ Len(p) <= Len(s)
    BY <1>2 DEF PathOf
  <2>2. i \in 1..Len(p)
    BY <1>1, <2>1
  <2>3. i \in DOMAIN s
    BY <1>2, <2>1, <2>2
  <2> QED BY <1>2, <2>2, <2>3, SMT DEF PathOf
<1>4. PICK n \in Nat : n = Len(s[i]) /\ DOMAIN s[i] = 1..n
  BY <1>3
<1>5. CASE n = 1
  <2>1. row = <<0>>
    BY <1>1, <1>4, <1>5 DEF CausalRow
  <2>2. p[i] = 1
    BY <1>3, <1>4, <1>5
  <2>3. DOMAIN row = 1..1 /\ row[1] = 0
    BY <2>1
  <2>4. FirstGreatest(row, 1, 1)
    BY <2>3 DEF FirstGreatest
  <2>5. p[i] = Min({k \in DOMAIN row : \A j \in DOMAIN row : row[j] <= row[k]})
    <3>1. \A k \in 1..1 : row[k] \in Int
      BY <2>3
    <3> QED BY <2>2, <2>3, <2>4, <3>1, LeastGreatest
  <2> QED BY <1>1, <2>5
<1>6. CASE n # 1
  <2> SUFFICES ASSUME NEW m \in Nat, i = m + 1
               PROVE  a[3][i] = Min({k \in DOMAIN row : \A j \in DOMAIN row : row[j] <= row[k]})
    <3>1. i - 1 \in Nat /\ i = (i - 1) + 1
      BY <1>2, <1>3, SMT DEF PathOf
    <3> QED BY <3>1
  <2>a. m < Len(p)
    BY <1>2, <1>3 DEF PathOf
  <2>1. PICK r : r = SubSeq(p, 1, m)
    OBVIOUS
  <2>2. row = [x \in 1..n |-> Factor(s, [p EXCEPT ![i] = x], i)]
    BY <1>1, <1>4, <1>6 DEF CausalRow
  <2>3. \A x \in 1..n : Factor(s, [p EXCEPT ![i] = x], i) = NextScore(s, r, x)
    BY <1>2, <1>4, <2>a, <2>1, FactorIsNext
  <2>4. row = [x \in 1..n |-> NextScore(s, r, x)]
    BY <2>2, <2>3, Zenon
  <2>5. PathOf(s, r) /\ Len(r) = i - 1
    <3>1. m <= Len(p)
      BY <1>2, <2>a DEF PathOf
    <3>2. PathOf(s, p)
      BY <1>2
    <3>3. PathOf(s, r)
      BY <1>2, <2>1, <3>1, <3>2, PrefixPath
    <3>4. Len(r) = m
      BY <1>2, <2>1, <3>1, <3>2, PrefixPath
    <3> QED BY <2>a, <3>3, <3>4
  <2>6. Len(r) + 1 = i /\ Len(r) < Len(s)
    BY <1>2, <1>3, <2>5 DEF PathOf
  <2>7. row = NextScores(s, r)
    BY <1>4, <2>4, <2>6 DEF NextScores
  <2>8. FirstGreatest(row, n, p[i])
    <3>1. GoesOn(s, r, p[i])
      BY <1>2, <1>3, <2>a, <2>1 DEF Greedy
    <3> QED BY <1>4, <2>6, <2>7, <3>1 DEF GoesOn
  <2>9. DOMAIN row = 1..n /\ \A k \in 1..n : row[k] \in Int
    <3>1. \A x \in 1..n : NextScore(s, r, x) \in Int
      BY <1>2, <1>4, <2>5, <2>6, NextScoreTyped
    <3> QED BY <2>4, <3>1
  <2>10. p[i] = Min({k \in DOMAIN row : \A j \in DOMAIN row : row[j] <= row[k]})
    BY <2>8, <2>9, LeastGreatest
  <2> QED BY <1>1, <2>10
<1> QED BY <1>5, <1>6

\* Whatever the workers retain and however their calls interleave, with any
\* lexicon, weights and limits: where two sentences begin alike, causal calls
\* (decode_causal) choose alike, and the rows causal_candidate_scores computes
\* without a cache have their first greatest score at every candidate chosen.
THEOREM CausalIsGreedy == Spec => []CausalChoices
<1>1. Init => CInv
  BY DEF Init, CInv
<1>2. CInv => CausalChoices
  BY Unseen, RowsExplain DEF CausalChoices
<1> QED BY <1>1, <1>2, CausalKept, Invariant, PTL DEF Spec
=============================================================================
