--------------------------- MODULE Disambiguation ---------------------------
(***************************************************************************)
(* NativeDisambiguator (nedo-morph-bundle/src/disambiguation.rs).          *)
(*                                                                         *)
(* First how it scores three analyses in a row, and the two caches of a    *)
(* worker that remember it: the transition rows (TrigramScoreCache) and    *)
(* the prepared words (DisambiguationScoreCache and the                    *)
(* SharedPreparedWordCache of all workers).  What the perceptron sees of   *)
(* an analysis is [lemma, igs].  Weights are integers here and f32 in the  *)
(* code, so rounding is not modelled.  The open-addressed tables are maps  *)
(* with the limits of the tables.                                          *)
(*                                                                         *)
(* Then the workers of a tokenizer, each with a cache of its own and one   *)
(* shared bank of prepared words: the Viterbi decoder with a table of      *)
(* active hypotheses, the dense one, and the greedy one that reads from    *)
(* left to right.  An action is one token of one call.                     *)
(***************************************************************************)
EXTENDS Integers, SequencesExt, FiniteSetsExt

CONSTANTS Weight(_),        \* PerceptronModel: the weight of a feature
          UnknownLemma, UnknownIg,   \* "UNK", "UnknownSecUnknown"
          BankLimit,        \* 2,000,000: the last signature whose word is kept prepared
          EndSignature,     \* TRIGRAM_END_SIGNATURE: smaller ones fit in a key
          RowCapacity,      \* rows of the transition cache
          InlineTransitions,\* TRIGRAM_INLINE_TRANSITIONS
          OverflowEntries   \* max_entries of the overflow table

ASSUME LimitsFit ==
  /\ {BankLimit, EndSignature, RowCapacity, InlineTransitions, OverflowEntries} \subseteq Nat
  /\ BankLimit < EndSignature

Boundary == [lemma |-> UnknownLemma, igs |-> <<UnknownIg>>]

----------------------------------------------------------------------------
(* The features of a trigram; one met twice counts twice (FeatureScratch). *)

Feature(kind, arguments) == Weight(<<kind>> \o arguments)
Total(weights) ==
  LET sum[i \in 0..Len(weights)] == IF i = 0 THEN 0 ELSE sum[i - 1] + weights[i]
  IN sum[Len(weights)]

F2(d1, d2, d3) == Feature("F2", <<d1.lemma>> \o d2.igs \o <<d3.lemma>> \o d3.igs)
F3(d2, d3) == Feature("F3", <<d2.lemma>> \o d2.igs \o <<d3.lemma>> \o d3.igs)
F4(d) == Feature("F4", <<d.lemma>> \o d.igs)
F9(d2, d3) == Feature("F9", <<d2.lemma, d3.lemma>>)
F10(d) == Feature("F10", <<d.lemma>>)
F10b(d) == Feature("F10b", <<d.lemma>>)
F10c(d) == Feature("F10c", <<d.lemma>>)
F15(d1, d2, d3) == [k \in DOMAIN d3.igs |-> Feature("F15", <<Last(d1.igs), Last(d2.igs), d3.igs[k]>>)]
F17(d2, d3) == [k \in DOMAIN d3.igs |-> Feature("F17", <<Last(d2.igs), d3.igs[k]>>)]
F20(d) == [k \in DOMAIN d.igs |-> Feature("F20", <<k, d.igs[k]>>)]
F22(d) == Feature("F22", <<Len(d.igs)>>)

\* trigram_score_parts, the score without any preparation.
TrigramScore(d1, d2, d3) ==
  Total(<<F2(d1, d2, d3), F3(d2, d3), F4(d3), F9(d2, d3), F10(d3), F10b(d2), F10c(d1)>>
        \o F15(d1, d2, d3) \o F17(d2, d3) \o F20(d3) \o <<F22(d3)>>)

PreparedWord(d) ==
  [f4 |-> F4(d), f10 |-> F10(d), f10b |-> F10b(d), f10c |-> F10c(d), f20 |-> F20(d), f22 |-> F22(d)]

PreparedPair(d2, d3) == [f3 |-> F3(d2, d3), f9 |-> F9(d2, d3), f17 |-> F17(d2, d3)]

\* score_prepared_trigram, of three analyses and their prepared words.
ScoreParts(d1, d2, d3, words, pair) ==
  Total(<<F2(d1, d2, d3), pair.f3, words[3].f4, pair.f9, words[3].f10, words[2].f10b, words[1].f10c>>
        \o F15(d1, d2, d3) \o pair.f17 \o words[3].f20 \o <<words[3].f22>>)
PreparedScore(data, words) == ScoreParts(data[1], data[2], data[3], words, PreparedPair(data[2], data[3]))

----------------------------------------------------------------------------
(* The transition rows: one for every pair of signatures, with what the    *)
(* third signature scored and the row of the next pair.                    *)

NoRow == 0
NoTransitions == [pairs |-> <<>>, rows |-> <<>>, overflow |-> <<>>]

EnsureRow(table, pair) ==
  IF pair \in ToSet(table.pairs)
  THEN [row |-> CHOOSE r \in DOMAIN table.pairs : table.pairs[r] = pair, table |-> table]
  ELSE IF Len(table.rows) = RowCapacity
  THEN [row |-> NoRow, table |-> table]
  ELSE [row |-> Len(table.rows) + 1,
        table |-> [pairs |-> Append(table.pairs, pair),
                   rows |-> Append(table.rows, [inline |-> <<>>, overflows |-> FALSE]),
                   overflow |-> table.overflow]]

\* A sequence of no or one entry of the row for the key.
Find(table, row, key) ==
  IF row = NoRow THEN <<>>
  ELSE LET inline == SelectInSeq(table.rows[row].inline, LAMBDA e : e.third = key[3])
           spilled == SelectInSeq(table.overflow, LAMBDA e : e.key = key)
       IN CASE inline # 0 -> <<table.rows[row].inline[inline]>>
            [] inline = 0 /\ table.rows[row].overflows /\ spilled # 0 -> <<table.overflow[spilled]>>
            [] OTHER -> <<>>

Replace(entries, at, entry) == [i \in DOMAIN entries |-> IF i = at THEN entry ELSE entries[i]]

\* OverflowScoreCache::insert: a full table keeps what it has.
Overflow(entries, entry) ==
  LET known == SelectInSeq(entries, LAMBDA e : e.key = entry.key)
  IN CASE Len(entries) >= OverflowEntries -> entries
       [] Len(entries) < OverflowEntries /\ known = 0 -> Append(entries, entry)
       [] OTHER -> Replace(entries, known, entry)

Refilled(table, row, inline, overflows, overflow) ==
  [pairs |-> table.pairs,
   rows |-> [table.rows EXCEPT ![row] = [inline |-> inline, overflows |-> overflows]],
   overflow |-> overflow]

Insert(table, row, key, score, next) ==
  LET entry == [third |-> key[3], score |-> score, next |-> next]
      inline == table.rows[row].inline
      overflows == table.rows[row].overflows
      known == SelectInSeq(inline, LAMBDA e : e.third = key[3])
  IN CASE row = NoRow -> table
       [] row # NoRow /\ known # 0 ->
            Refilled(table, row, Replace(inline, known, entry), overflows, table.overflow)
       [] row # NoRow /\ known = 0 /\ Len(inline) < InlineTransitions ->
            Refilled(table, row, Append(inline, entry), overflows, table.overflow)
       [] OTHER ->
            Refilled(table, row, inline, TRUE,
                     Overflow(table.overflow, [key |-> key, score |-> score, next |-> next]))

----------------------------------------------------------------------------
(* A cache is [base, delta, table, local, shared]: the signatures of the   *)
(* compiled table and those this worker added (AmbiguityScoringInterner),  *)
(* the transition rows, and the banks of prepared words.  The first        *)
(* signature is 0.                                                         *)

BeginSignature == EndSignature + 1
Signatures(cache) == cache.base \o cache.delta
SignatureOf(cache, data) == SelectInSeq(Signatures(cache), LAMBDA d : d = data) - 1
DataOf(cache, signature) ==
  IF signature \in {BeginSignature, EndSignature} THEN Boundary ELSE Signatures(cache)[signature + 1]

Intern(cache, data) ==
  IF data \in ToSet(Signatures(cache)) THEN cache ELSE [cache EXCEPT !.delta = Append(@, data)]

\* The signatures of a key, of those of words the ones below EndSignature.
Key(signatures, words) ==
  IF \A i \in DOMAIN signatures : words[i] => signatures[i] < EndSignature THEN signatures ELSE <<>>

\* Where the prepared word of a signature is kept: ensure_prepared_word.
Place(cache, signature) ==
  CASE signature > BankLimit -> [bank |-> "none", at |-> 0]
    [] signature <= BankLimit /\ signature < Len(cache.base) -> [bank |-> "shared", at |-> signature + 1]
    [] OTHER -> [bank |-> "local", at |-> signature - Len(cache.base) + 1]

Grown(bank, at) == bank \o [k \in 1..(IF at > Len(bank) THEN at - Len(bank) ELSE 0) |-> <<>>]

Ensure(cache, place, data) ==
  CASE place.bank = "shared" /\ cache.shared[place.at] = <<>> ->
         [cache EXCEPT !.shared[place.at] = <<PreparedWord(data)>>]
    [] place.bank = "local" /\ (place.at > Len(cache.local) \/ cache.local[place.at] = <<>>) ->
         [cache EXCEPT !.local = Replace(Grown(@, place.at), place.at, <<PreparedWord(data)>>)]
    [] OTHER -> cache

Prepared(cache, place) ==
  IF place.bank = "shared" THEN cache.shared[place.at][1] ELSE cache.local[place.at][1]

\* score_uncached: with the banks if all three words have a place in them.
EnsureAll(cache, places, data) ==
  Ensure(Ensure(Ensure(cache, places[1], data[1]), places[2], data[2]), places[3], data[3])
ScoreFilled(cache, places, data) ==
  [cache |-> cache,
   score |-> PreparedScore(data, [i \in 1..3 |->
     IF \E k \in 1..3 : places[k].bank = "none" THEN PreparedWord(data[i]) ELSE Prepared(cache, places[i])])]
ScorePlaced(cache, places, data) == ScoreFilled(EnsureAll(cache, places, data), places, data)
ScoreUncached(cache, signatures, data) ==
  ScorePlaced(cache, [i \in 1..3 |-> Place(cache, signatures[i])], data)

----------------------------------------------------------------------------
(* Workers and their calls.                                                *)

CONSTANTS Workers,
          WordData,      \* [lemma, igs] of every analysis
          JavaHash(_),   \* java_analysis_hash of an analysis
          Base,          \* the signatures of the compiled table
          Begin, End, Unknown,   \* the boundaries, and the analysis of an unknown word
          Requests,      \* pairs of a call and a sentence
          MaxDenseStates,
          MaxCalls       \* bound on the calls of a behaviour

VARIABLES caches,   \* [delta, table, local] of every worker
          base,     \* the signatures the workers start from: none or Base
          shared,   \* the prepared words of those
          forced,   \* NEDO_FORCE_HASH_DECODER
          calls,    \* what a worker is computing
          answers,  \* <<call, sentence, choice>>
          budget

vars == <<caches, base, shared, forced, calls, answers, budget>>

Idle == [call |-> "none"]
Viterbi == {"disambiguate", "indices", "scored"}
Causal == {"causal", "scored causal"}
Scored == {"scored", "scored causal"}

Data(word) == IF word \in {Begin, End, Unknown} THEN Boundary ELSE WordData[word]
AllData == {Data(word) : word \in DOMAIN WordData \cup {Unknown}}

ASSUME CallsAssumption ==
  /\ Requests \subseteq (Viterbi \cup Causal) \X Seq(Seq(DOMAIN WordData))
  /\ Base \in Seq(ToSet(Base))
  /\ Begin # End /\ MaxCalls \in Nat
ASSUME ScoresAssumption == \A d1, d2, d3 \in AllData : TrigramScore(d1, d2, d3) \in Int
ASSUME HashesAssumption == \A word \in DOMAIN WordData \cup {Unknown, Begin, End} : JavaHash(word) \in Int

IsWord(word) == word \notin {Begin, End}

CacheOf(w) == [base |-> base, delta |-> caches[w].delta, table |-> caches[w].table,
               local |-> caches[w].local, shared |-> shared]
NewCache == [delta |-> <<>>, table |-> NoTransitions, local |-> <<>>]
Keep(w, cache) == /\ caches' = [caches EXCEPT ![w] = [delta |-> cache.delta, table |-> cache.table,
                                                      local |-> cache.local]]
                  /\ shared' = cache.shared

Signature(cache, word) ==
  CASE word = Begin -> BeginSignature
    [] word = End -> EndSignature
    [] OTHER -> SignatureOf(cache, Data(word))

----------------------------------------------------------------------------
(* score_compact_transition: the score of word after the two before it,    *)
(* from the rows of the cache if it is there.                              *)

Retain(scored, row, key, onward) ==
  [score |-> scored.score, row |-> onward.row,
   cache |-> [scored.cache EXCEPT !.table = Insert(onward.table, row, key, scored.score, onward.row)]]

\* What the row has for the key, or what its score and the row it goes on to
\* are.
FromRow(cache, row, key, signatures, data, needNext, found) ==
  IF found # <<>> /\ (needNext => found[1].next # NoRow)
  THEN [score |-> found[1].score, row |-> found[1].next, cache |-> cache]
  ELSE Retain(ScoreUncached(cache, signatures, data), row, key,
              IF needNext THEN EnsureRow(cache.table, Tail(key)) ELSE [row |-> NoRow, table |-> cache.table])

Entered(cache, key, signatures, data, needNext, at) ==
  FromRow([cache EXCEPT !.table = at.table], at.row, key, signatures, data, needNext, Find(at.table, at.row, key))

Unretained(scored) == [score |-> scored.score, row |-> NoRow, cache |-> scored.cache]

Transition(call, cache, before, word, row, needNext) ==
  LET words == Append(before, word)
      data == [i \in 1..3 |-> Data(words[i])]
      signatures == [i \in 1..3 |-> Signature(cache, words[i])]
      key == Key(signatures, [i \in 1..3 |-> IsWord(words[i])])
  IN CASE call \notin Scored ->
            [score |-> PreparedScore(data, [i \in 1..3 |-> PreparedWord(data[i])]), row |-> NoRow, cache |-> cache]
       [] call \in Scored /\ key = <<>> -> Unretained(ScoreUncached(cache, signatures, data))
       [] OTHER ->
            Entered(cache, key, signatures, data, needNext,
                    IF row = NoRow THEN EnsureRow(cache.table, Front(key)) ELSE [row |-> row, table |-> cache.table])

Score(call, cache, before, word, row) ==
  IF call = "disambiguate"
  THEN [score |-> TrigramScore(Data(before[1]), Data(before[2]), Data(word)), row |-> NoRow, cache |-> cache]
  ELSE Transition(call, cache, before, word, row, TRUE)

----------------------------------------------------------------------------
(* Hypotheses: [path, row, score].  The path is the candidate taken of     *)
(* each token so far; the two last words are what a hypothesis is about.   *)

WordAt(sentence, path, i) == IF i <= 0 THEN Begin ELSE sentence[i][path[i]]
LastTwo(sentence, path) == <<WordAt(sentence, path, Len(path) - 1), WordAt(sentence, path, Len(path))>>

\* The table of active hypotheses: slots from 0, <<>> for a free one.  It
\* grows when 55 of 100 slots are taken and places its hypotheses where the
\* smaller table would have looked for them.
LoadLimit(size) == (size * 55) \div 100
NewActive == [s \in 0..7 |-> <<>>]
Held(active) == {s \in DOMAIN active : active[s] # <<>>}
Listed(active) == FlattenSeq([k \in 1..Cardinality(DOMAIN active) |-> active[k - 1]])

HashSlot(words, size) == (31 * JavaHash(words[1]) + JavaHash(words[2])) % size

\* The first slot in a table of that size, from its own on, that is free or
\* holds one of the same.
Probe(active, words, size, same) ==
  LET slot(k) == (HashSlot(words, size) + k) % size
      Stops(k) == active[slot(k)] = <<>> \/ active[slot(k)][1] \in same
  IN slot(Min({k \in 0..(size - 1) : Stops(k)}))

Settle(active, h, size, sentence) == [active EXCEPT ![Probe(active, LastTwo(sentence, h.path), size, {})] = <<h>>]

Expand(active, sentence) ==
  LET size == Cardinality(DOMAIN active)
      held == Listed(active)
      grown[k \in 0..Len(held)] ==
        IF k = 0 THEN [s \in 0..(2 * size - 1) |-> <<>>]
        ELSE Settle(grown[k - 1], held[k], size, sentence)
  IN grown[Len(held)]

\* Fault: the first hypothesis of a state stays.
AddFirst(active, h, sentence) ==
  LET size == Cardinality(DOMAIN active)
      words == LastTwo(sentence, h.path)
      same == {other \in ToSet(Listed(active)) : LastTwo(sentence, other.path) = words}
      slot == Probe(active, words, size, same)
      added == [active EXCEPT ![slot] = <<h>>]
  IN CASE active[slot] # <<>> -> active
       [] active[slot] = <<>> /\ Cardinality(Held(added)) = LoadLimit(size) -> Expand(added, sentence)
       [] OTHER -> added

Add(active, h, sentence) ==
  LET size == Cardinality(DOMAIN active)
      words == LastTwo(sentence, h.path)
      same == {other \in ToSet(Listed(active)) : LastTwo(sentence, other.path) = words}
      slot == Probe(active, words, size, same)
      added == [active EXCEPT ![slot] = <<h>>]
  IN CASE active[slot] # <<>> -> IF active[slot][1].score < h.score THEN added ELSE active
       [] active[slot] = <<>> /\ Cardinality(Held(added)) = LoadLimit(size) -> Expand(added, sentence)
       [] OTHER -> added

\* The first of the hypotheses no other one beats.
Best(hypotheses) ==
  LET Better(i, k) == IF hypotheses[i].score < hypotheses[k].score THEN k ELSE i
      best[k \in 0..Len(hypotheses)] == IF k <= 1 THEN k ELSE Better(best[k - 1], k)
  IN hypotheses[best[Len(hypotheses)]]

Root(row) == [path |-> <<>>, row |-> row, score |-> 0]

----------------------------------------------------------------------------
(* Calls.                                                                  *)

TypeOK ==
  /\ \A w \in Workers :
       /\ caches[w].delta \in Seq(AllData)
       /\ Len(caches[w].table.rows) = Len(caches[w].table.pairs)
       /\ Len(caches[w].table.rows) <= RowCapacity
       /\ Len(caches[w].table.overflow) <= OverflowEntries
       /\ \A r \in DOMAIN caches[w].table.rows : Len(caches[w].table.rows[r].inline) <= InlineTransitions
  /\ base \in {<<>>, Base}
  /\ Len(shared) = Len(base)
  /\ forced \in BOOLEAN
  /\ \A w \in Workers : calls[w] # Idle =>
       /\ <<calls[w].call, calls[w].asked>> \in Requests
       /\ calls[w].done \in 0..Len(calls[w].sentence)
       /\ calls[w].decoder \in {"hash", "dense", "causal"}
       /\ \A i \in DOMAIN calls[w].active : Len(calls[w].active[i].path) = calls[w].done
  /\ budget \in 0..MaxCalls

Init ==
  /\ base \in {<<>>, Base}
  /\ caches = [w \in Workers |-> NewCache]
  /\ shared = [i \in DOMAIN base |-> <<>>]
  /\ forced \in BOOLEAN
  /\ calls = [w \in Workers |-> Idle]
  /\ answers = {}
  /\ budget = MaxCalls

\* FlatAnalysisCache::analyze gives every candidate its signature.
InternAll(cache, words) ==
  LET coded[k \in 0..Len(words)] == IF k = 0 THEN cache ELSE Intern(coded[k - 1], Data(words[k]))
  IN coded[Len(words)]
Coded(cache, sentence) == InternAll(cache, FlattenSeq(sentence))

\* Decoder::new: a token without candidates is an unknown word.
Completed(sentence) == [i \in DOMAIN sentence |-> IF sentence[i] = <<>> THEN <<Unknown>> ELSE sentence[i]]

Refused(call, sentence) ==
  \/ sentence = <<>>
  \/ call # "disambiguate" /\ <<>> \in ToSet(sentence)

Duplicates(sentence) == \E i \in DOMAIN sentence : ~IsInjective(sentence[i])
TooDense(sentence) ==
  \E i \in DOMAIN sentence :
    Len(sentence[i]) * (IF i = 1 THEN 1 ELSE Len(sentence[i - 1])) > MaxDenseStates

Refuse(w, call, sentence) ==
  /\ Refused(call, sentence)
  /\ answers' = answers \cup {<<call, sentence, <<>>>>}
  /\ UNCHANGED <<caches, base, shared, forced, calls>>

\* Fault: the causal call that retains scores is decoded as the other one is.
DecoderOfRetained(call, sentence) ==
  CASE call = "causal" -> "causal"
    [] call \in Scored /\ ~forced /\ ~TooDense(sentence) /\ ~Duplicates(sentence) -> "dense"
    [] OTHER -> "hash"

DecoderOf(call, sentence) ==
  CASE call \in Causal -> "causal"
    [] call = "scored" /\ ~forced /\ ~TooDense(sentence) /\ ~Duplicates(sentence) -> "dense"
    [] OTHER -> "hash"

\* The root of a Viterbi decoder enters the row of two boundaries.
Rooted(call, cache) ==
  IF call = "scored" THEN EnsureRow(cache.table, <<BeginSignature, BeginSignature>>)
                     ELSE [row |-> NoRow, table |-> cache.table]

Start(w, call, sentence) ==
  /\ ~Refused(call, sentence)
  /\ LET coded == IF call \in Scored THEN Coded(CacheOf(w), sentence) ELSE CacheOf(w)
         rooted == Rooted(call, coded)
     IN /\ Keep(w, [coded EXCEPT !.table = rooted.table])
        /\ calls' = [calls EXCEPT ![w] =
             [call |-> call, asked |-> sentence, sentence |-> Completed(sentence),
              decoder |-> DecoderOf(call, sentence), done |-> 0, active |-> <<Root(rooted.row)>>]]
  /\ UNCHANGED <<base, forced, answers>>

\* The hypotheses of a layer: every candidate of the next token after every
\* active hypothesis, the candidates outside.
Pairs(active, n) == FlattenSeq([a \in 1..n |-> [k \in DOMAIN active |-> <<a, active[k]>>]])

Extended(h, a, scored) ==
  [cache |-> scored.cache,
   h |-> [path |-> Append(h.path, a), row |-> scored.row, score |-> h.score + scored.score]]
Successor(call, cache, sentence, h, a) ==
  Extended(h, a, Score(call, cache, LastTwo(sentence, h.path), sentence[Len(h.path) + 1][a], h.row))

HashStep(layer, next, sentence) == [cache |-> next.cache, table |-> Add(layer.table, next.h, sentence)]
HashNext(call, sentence, layer, pair) ==
  HashStep(layer, Successor(call, layer.cache, sentence, pair[2], pair[1]), sentence)
HashAll(call, cache, sentence, pairs) ==
  LET layers[k \in 0..Len(pairs)] ==
        IF k = 0 THEN [cache |-> cache, table |-> NewActive] ELSE HashNext(call, sentence, layers[k - 1], pairs[k])
  IN layers[Len(pairs)]
HashEnded(layer) == [cache |-> layer.cache, active |-> Listed(layer.table), tied |-> FALSE]
HashLayer(call, cache, sentence, active, n) == HashEnded(HashAll(call, cache, sentence, Pairs(active, n)))

Merged(layer, active, tied) == [cache |-> layer.cache, active |-> active, tied |-> tied]

\* Fault: of two hypotheses that score the same the first stays.
DenseMergeFirst(layer, h) ==
  LET LastPair(path) == SubSeq(path, Max({1, Len(path) - 1}), Len(path))
      at == SelectInSeq(layer.active, LAMBDA e : LastPair(e.path) = LastPair(h.path))
  IN CASE at = 0 -> Merged(layer, Append(layer.active, h), FALSE)
       [] at # 0 /\ layer.active[at].score < h.score -> Merged(layer, Replace(layer.active, at, h), FALSE)
       [] OTHER -> layer

\* A state is the place of its two candidates; two hypotheses of a state
\* that score the same are left to the hash decoder.
DenseMerge(layer, h) ==
  LET LastPair(path) == SubSeq(path, Max({1, Len(path) - 1}), Len(path))
      at == SelectInSeq(layer.active, LAMBDA e : LastPair(e.path) = LastPair(h.path))
  IN CASE at = 0 -> Merged(layer, Append(layer.active, h), FALSE)
       [] at # 0 /\ layer.active[at].score = h.score -> Merged(layer, layer.active, TRUE)
       [] at # 0 /\ layer.active[at].score < h.score -> Merged(layer, Replace(layer.active, at, h), FALSE)
       [] OTHER -> layer

DenseStep(layer, next) ==
  DenseMerge([cache |-> next.cache, active |-> layer.active, tied |-> FALSE], next.h)
DenseNext(call, sentence, layer, pair) ==
  IF layer.tied THEN layer ELSE DenseStep(layer, Successor(call, layer.cache, sentence, pair[2], pair[1]))
DenseAll(call, cache, sentence, pairs) ==
  LET layers[k \in 0..Len(pairs)] ==
        IF k = 0 THEN [cache |-> cache, active |-> <<>>, tied |-> FALSE]
        ELSE DenseNext(call, sentence, layers[k - 1], pairs[k])
  IN layers[Len(pairs)]
DenseLayer(call, cache, sentence, active, n) == DenseAll(call, cache, sentence, Pairs(active, n))

\* decode_causal: one candidate is taken unscored, of several the first that
\* no other one beats after the two already taken.
CausalStep(layer, path, a, scored) ==
  [cache |-> scored.cache,
   rows |-> Append(layer.rows, [path |-> Append(path, a), row |-> NoRow, score |-> scored.score])]
CausalNext(call, sentence, path, layer, a) ==
  CausalStep(layer, path, a, Transition(call, layer.cache, LastTwo(sentence, path),
                                        sentence[Len(path) + 1][a], NoRow, FALSE))
CausalRows(call, cache, sentence, path, n) ==
  LET layers[a \in 0..n] ==
        IF a = 0 THEN [cache |-> cache, rows |-> <<>>] ELSE CausalNext(call, sentence, path, layers[a - 1], a)
  IN layers[n]
CausalEnded(layer) == [cache |-> layer.cache, active |-> <<Best(layer.rows)>>, tied |-> FALSE]
CausalLayer(call, cache, sentence, active, n) ==
  IF n = 1 THEN [cache |-> cache, active |-> <<[active[1] EXCEPT !.path = Append(@, 1)]>>, tied |-> FALSE]
  ELSE CausalEnded(CausalRows(call, cache, sentence, active[1].path, n))

Layer(c, cache) ==
  LET n == Len(c.sentence[c.done + 1])
  IN CASE c.decoder = "hash" -> HashLayer(c.call, cache, c.sentence, c.active, n)
       [] c.decoder = "dense" -> DenseLayer(c.call, cache, c.sentence, c.active, n)
       [] OTHER -> CausalLayer(c.call, cache, c.sentence, c.active, n)

\* The factor of the end of the sentence: all hypotheses, or, for the dense
\* decoder, those until one scores what the best so far does.
EndStep(so, decoder, h, scored) ==
  LET ended == [h EXCEPT !.score = @ + scored.score]
  IN [cache |-> scored.cache, active |-> Append(so.active, ended),
      tied |-> decoder = "dense" /\ so.active # <<>> /\ Best(so.active).score = ended.score]
EndNext(c, so, h) ==
  IF so.tied THEN so
  ELSE EndStep(so, c.decoder, h, Score(c.call, so.cache, LastTwo(c.sentence, h.path), End, h.row))
EndAll(c, cache) ==
  LET ended[k \in 0..Len(c.active)] ==
        IF k = 0 THEN [cache |-> cache, active |-> <<>>, tied |-> FALSE] ELSE EndNext(c, ended[k - 1], c.active[k])
  IN ended[Len(c.active)]
Terminal(c, cache) ==
  IF c.decoder = "causal" THEN [cache |-> cache, active |-> c.active, tied |-> FALSE] ELSE EndAll(c, cache)

\* The call behind a number of tokens.
Going(c, decoder, done, active) ==
  [call |-> c.call, asked |-> c.asked, sentence |-> c.sentence,
   decoder |-> decoder, done |-> done, active |-> active]

\* A tie sends the dense decoder's call back to its first token.
FallBack(w, cache) ==
  LET rooted == Rooted(calls[w].call, cache)
  IN /\ Keep(w, [cache EXCEPT !.table = rooted.table])
     /\ calls' = [calls EXCEPT ![w] = Going(@, "hash", 0, <<Root(rooted.row)>>)]

ExtendAll(w) ==
  /\ calls[w] # Idle
  /\ calls[w].done < Len(calls[w].sentence)
  /\ \E layer \in {Layer(calls[w], CacheOf(w))} :
       \/ /\ ~layer.tied
          /\ Keep(w, layer.cache)
          /\ calls' = [calls EXCEPT ![w] = Going(@, @.decoder, @.done + 1, layer.active)]
       \/ /\ layer.tied
          /\ FallBack(w, layer.cache)
  /\ UNCHANGED <<base, forced, answers, budget>>

Choose(w) ==
  /\ calls[w] # Idle
  /\ calls[w].done = Len(calls[w].sentence)
  /\ \E ended \in {Terminal(calls[w], CacheOf(w))} :
       \/ /\ ~ended.tied
          /\ Keep(w, ended.cache)
          /\ answers' = answers \cup {<<calls[w].call, calls[w].asked, Best(ended.active).path>>}
          /\ calls' = [calls EXCEPT ![w] = Idle]
       \/ /\ ended.tied
          /\ FallBack(w, ended.cache)
          /\ UNCHANGED answers
  /\ UNCHANGED <<base, forced, budget>>

\* Fault: the rows outlive the signatures they were made for.
ClearSignatures(w) == caches' = [caches EXCEPT ![w].delta = <<>>, ![w].local = <<>>]

\* FlatAnalysisCache::clear: signatures and scores together; the shared bank
\* stays.
ClearCache(w) == caches' = [caches EXCEPT ![w] = NewCache]

Clear(w) ==
  /\ calls[w] = Idle
  /\ caches[w] # NewCache
  /\ ClearCache(w)
  /\ UNCHANGED <<base, shared, forced, calls, answers, budget>>

Call(w) ==
  /\ calls[w] = Idle
  /\ budget > 0
  /\ budget' = budget - 1
  /\ \E request \in Requests :
       \/ Refuse(w, request[1], request[2])
       \/ Start(w, request[1], request[2])

Next == \E w \in Workers : Call(w) \/ ExtendAll(w) \/ Choose(w) \/ Clear(w)

Spec == Init /\ [][Next]_vars

----------------------------------------------------------------------------
(* Properties.                                                             *)

Chosen == {a \in answers : a[3] # <<>>}
Sentences == {Completed(request[2]) : request \in Requests} \ {<<>>}

\* The scores without caches or tables, of three analyses and of the paths of
\* a sentence.
TrueScore ==
  [d1 \in AllData |-> [d2 \in AllData |-> [d3 \in AllData |-> TrigramScore(d1, d2, d3)]]]

Factor(sentence, path, i) ==
  LET word(k) == IF k > Len(path) THEN End ELSE WordAt(sentence, path, k)
  IN TrueScore[Data(word(i - 2))][Data(word(i - 1))][Data(word(i))]

Paths(sentence) == {path \in [DOMAIN sentence -> 1..Max({Len(sentence[i]) : i \in DOMAIN sentence})] :
                      \A i \in DOMAIN sentence : path[i] <= Len(sentence[i])}

PathScore ==
  [sentence \in Sentences |-> [path \in Paths(sentence) |->
     Total([i \in 1..(Len(path) + 1) |-> Factor(sentence, path, i)])]]
HighestScore ==
  [sentence \in Sentences |-> Max({PathScore[sentence][path] : path \in Paths(sentence)})]

\* Whatever a Viterbi call drops on its way, in hash slots, merged states or
\* a dense layer, the path it chooses is one no path of the sentence beats.
ChoosesBestPath ==
  \A a \in Chosen : a[1] \in Viterbi =>
    PathScore[Completed(a[2])][a[3]] = HighestScore[Completed(a[2])]

\* disambiguation.rs:552: the calls without analyses preserve features, state
\* deduplication and tie behaviour: all Viterbi calls choose the same path,
\* dense or not, whoever made them and whatever the cache had seen before.
DecodersAgree ==
  \A a, b \in Chosen : (a[1] \in Viterbi /\ b[1] \in Viterbi /\ a[2] = b[2]) => a[3] = b[3]

\* disambiguation.rs:597: no future token is inspected: where two sentences
\* begin alike, the causal calls choose alike.
FutureUnseen ==
  \A a, b \in Chosen : (a[1] \in Causal /\ b[1] \in Causal) =>
    \A n \in 1..Min({Len(a[2]), Len(b[2])}) :
      SubSeq(a[2], 1, n) = SubSeq(b[2], 1, n) => SubSeq(a[3], 1, n) = SubSeq(b[3], 1, n)

\* causal_candidate_scores: the rows for a selection, without a cache.
CausalRow(sentence, selected, i) ==
  IF Len(sentence[i]) = 1 THEN <<0>>
  ELSE [a \in DOMAIN sentence[i] |-> Factor(sentence, [selected EXCEPT ![i] = a], i)]

\* The rows a caller asks for after a causal call (nedoformer.rs:1139) have
\* their first greatest score at every candidate that was chosen, although
\* the choice came from retained scores and the rows do not.
RowsExplainChoice ==
  \A a \in Chosen : a[1] \in Causal =>
    \A i \in DOMAIN a[3] :
      \E row \in {CausalRow(a[2], a[3], i)} :
        a[3][i] = Min({k \in DOMAIN row : \A j \in DOMAIN row : row[j] <= row[k]})

\* conditional_candidate_scores: the factors position i is part of.
ConditionalScore(sentence, selected, i, candidate) ==
  LET path == [selected EXCEPT ![i] = candidate]
      last == Min({i + 2, Len(path) + 1})
  IN Total([k \in 1..(last - i + 1) |-> Factor(sentence, path, i + k - 1)])

\* Scored on the path a Viterbi call chose, no candidate beats the chosen one.
ChoiceIsConditionalBest ==
  \A a \in Chosen : a[1] \in Viterbi =>
    \A i \in DOMAIN a[3] : \A c \in DOMAIN Completed(a[2])[i] :
      ConditionalScore(Completed(a[2]), a[3], i, c) <= ConditionalScore(Completed(a[2]), a[3], i, a[3][i])

\* Every retained transition has the score its three signatures have without
\* a cache, under the signatures the worker gives now, and goes on to the row
\* of the last two.
RetainedIsExact ==
  \A w \in Workers :
    LET cache == CacheOf(w)
        table == cache.table
        Exact(key, e) ==
          /\ ToSet(key) \subseteq 0..(Len(Signatures(cache)) - 1) \cup {BeginSignature, EndSignature}
          /\ e.score = TrueScore[DataOf(cache, key[1])][DataOf(cache, key[2])][DataOf(cache, key[3])]
          /\ e.next # NoRow => table.pairs[e.next] = Tail(key)
    IN /\ \A r \in DOMAIN table.rows : \A e \in ToSet(table.rows[r].inline) :
            Exact(Append(table.pairs[r], e.third), e)
       /\ \A e \in ToSet(table.overflow) : Exact(e.key, e)

\* The row an active hypothesis carries is that of its last two words.
RowsFollowHypotheses ==
  \A w \in Workers : calls[w] # Idle =>
    \A i \in DOMAIN calls[w].active :
      LET h == calls[w].active[i]
          words == LastTwo(calls[w].sentence, h.path)
      IN h.row # NoRow => caches[w].table.pairs[h.row] =
           [k \in 1..2 |-> Signature(CacheOf(w), words[k])]

\* The shared bank holds what the compiled table says of its signatures, and
\* nothing of a word only one worker has a signature for.
BanksHoldTheirWords ==
  /\ \A i \in DOMAIN shared : shared[i] # <<>> => shared[i] = <<PreparedWord(base[i])>>
  /\ \A w \in Workers : \A i \in DOMAIN caches[w].local :
       caches[w].local[i] # <<>> =>
         /\ i \in DOMAIN caches[w].delta
         /\ caches[w].local[i] = <<PreparedWord(caches[w].delta[i])>>

\* What is chosen is best: no sequence of candidates scores higher than the one
\* a Viterbi call chooses, and no candidate higher than the one a causal call
\* chooses behind its own choices.
ChoicesAreBest == ChoosesBestPath /\ ChoiceIsConditionalBest

\* A causal choice depends on no word behind it, and the row that is read with
\* it explains it.
CausalChoices == FutureUnseen /\ RowsExplainChoice

\* What a worker retains between calls is what it would compute: scores by
\* signature, rows by the hypotheses that made them, words by their bank.
CachesExact == TypeOK /\ RetainedIsExact /\ RowsFollowHypotheses /\ BanksHoldTheirWords
=============================================================================
