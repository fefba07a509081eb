--------------------------- MODULE TrainingStreams ---------------------------
(***************************************************************************)
(* What a tokenized document becomes for training: the character and the   *)
(* generation vocabulary (vocab.rs), their files, and the streams of       *)
(* tokens with the bytes each stands for (training.rs).                    *)
(***************************************************************************)
EXTENDS TokenDocuments, FiniteSetsExt

CONSTANTS MaxId,       \* the last learned id a training stream can hold (u16)
          MaxChars,    \* limits the vocabularies are trained with
          MaxRoots

----------------------------------------------------------------------------
(* CharacterVocabulary: scalars in the order of their code points.         *)

CodePoint(c) == SelectInSeq(ScalarOrder, LAMBDA x : x = c)

\* The scalars of raw from i on, bytes that are no text left out.
RECURSIVE ScalarsFrom(_, _)
ScalarsFrom(raw, i) ==
  IF i > Len(raw) THEN <<>>
  ELSE LET c == DecodeScalar(raw, i)
       IN IF c = NONE THEN ScalarsFrom(raw, i + 1) ELSE <<c>> \o ScalarsFrom(raw, i + Width(c))

\* The max most frequent of a bag, the lesser first among equals.
TopRanked(occurrences, max, order) ==
  LET count(x) == Len(SelectSeq(occurrences, LAMBDA y : y = x))
      before(x, y) == count(x) > count(y) \/ (count(x) = count(y) /\ order[x] < order[y])
      ranked == SetToSortSeq(ToSet(occurrences), before)
  IN SubSeq(ranked, 1, Min({max, Len(ranked)}))

Train(documents, max) ==
  LET scalars == FlattenSeq([i \in DOMAIN documents |-> ScalarsFrom(documents[i].raw, 1)])
      ranked == TopRanked(scalars, max, [c \in ToSet(scalars) |-> CodePoint(c)])
  IN SetToSortSeq(ToSet(ranked), LAMBDA x, y : CodePoint(x) < CodePoint(y))

IdForChar(vocabulary, c) == SelectInSeq(vocabulary, LAMBDA x : x = c)   \* 0: not learned

\* CharacterVocabulary::to_bytes and from_bytes.
CharacterPayload(vocabulary) == [i \in DOMAIN vocabulary |-> Number(CodePoint(vocabulary[i]))]
CharacterFile(vocabulary) ==
  <<<<"magic", "NDCHR001">>, Number(Len(vocabulary)), Sha(CharacterPayload(vocabulary))>>
    \o CharacterPayload(vocabulary)

ReadCharacters(file) ==
  LET payload == Drop(file, 3)
      points == Values(payload)
  IN IF /\ Len(file) >= 3 /\ file[1] = <<"magic", "NDCHR001">>
        /\ file[2] = Number(Len(payload)) /\ file[3] = Sha(payload)
        /\ \A i \in DOMAIN points : /\ points[i] \in DOMAIN ScalarOrder
                                    /\ i > 1 => points[i - 1] < points[i]
     THEN [i \in DOMAIN points |-> ScalarOrder[points[i]]] ELSE NONE

----------------------------------------------------------------------------
(* GenerationVocabulary: fixed controls and numerals (two of each here),   *)
(* every morpheme seen, the most frequent roots.                           *)

FixedEntries == <<<<"control", 1>>, <<"control", 2>>, <<"num", 0>>, <<"num", 1>>>>

TrainGeneration(documents, max) ==
  LET units == FlattenSeq([i \in DOMAIN documents |-> documents[i].units])
      analyses == SelectSeq(units, LAMBDA u : u.analysis # NONE)
      roots == [i \in DOMAIN analyses |-> analyses[i].analysis.root]
      ranked == TopRanked(roots, max, [r \in ToSet(roots) |-> r])
      morphemes == UNION {{m.id : m \in ToSet(analyses[i].analysis.morphemes)} : i \in DOMAIN analyses}
  IN FixedEntries
       \o [i \in 1..Cardinality(morphemes) |-> <<"morpheme", SetToSortSeq(morphemes, <)[i]>>]
       \o [i \in DOMAIN ranked |-> <<"root", ranked[i]>>]

GenerationFile(entries) ==
  LET payload == [i \in DOMAIN entries |-> <<"text", entries[i]>>]
  IN <<<<"magic", "NDGEN001">>, Number(Len(entries)), Sha(payload)>> \o payload

\* GenerationVocabulary::from_bytes with validate_generation_entries.
ReadGeneration(file) ==
  LET payload == Drop(file, 3)
      entries == Values(payload)
  IN IF /\ Len(file) >= 3 /\ file[1] = <<"magic", "NDGEN001">> /\ file[3] = Sha(payload)
        /\ file[2] = Number(Len(payload))
        /\ \A i \in DOMAIN payload : payload[i][1] = "text"
        /\ IsPrefix(FixedEntries, entries)
        /\ Cardinality(ToSet(entries)) = Len(entries)
     THEN entries ELSE NONE

----------------------------------------------------------------------------
(* The streams.                                                            *)

Token(id, length) == <<[id |-> id, length |-> length]>>
Control(name) == Token(<<"control", name>>, 0)
Bytes(raw, i, k) == [j \in 1..(k - i) |-> [id |-> <<"byte", raw[i + j - 1]>>, length |-> 1]]

\* Where the scalars and stray bytes of a unit begin.
RECURSIVE Starts(_, _, _)
Starts(raw, i, end) ==
  IF i >= end THEN {}
  ELSE LET c == DecodeScalar(raw, i)
       IN {i} \cup Starts(raw, IF c # NONE /\ i + Width(c) <= end THEN i + Width(c) ELSE i + 1, end)

\* The loops give up at the first cut they do not come by.
PlacedCuts(starts, cuts) == {cuts[k] : k \in {k \in DOMAIN cuts : \A j \in 1..k : cuts[j] \in starts}}

\* The tokens of one unit, as both encoders make them.
Surface(vocabulary, raw, unit, cuts) ==
  LET starts == Starts(raw, unit.start, unit.end)
      order == SetToSortSeq(starts, <)
      next(k) == IF k = Len(order) THEN unit.end ELSE order[k + 1]
      scalar(k) == LET c == DecodeScalar(raw, order[k])
                   IN IF c # NONE /\ next(k) = order[k] + Width(c) THEN IdForChar(vocabulary, c) ELSE 0
  IN FlattenSeq([k \in DOMAIN order |->
       (IF order[k] \in PlacedCuts(starts, cuts) THEN Control("morpheme") ELSE <<>>)
         \o IF scalar(k) = 0 THEN Bytes(raw, order[k], next(k))
            ELSE Token(<<"char", scalar(k)>>, next(k) - order[k])])

\* Fault: leaving code for text is not marked.
BracketEntry(units, k) ==
  LET before == k > 1 /\ units[k - 1].mode = "Code"
      code == k <= Len(units) /\ units[k].mode = "Code"
  IN IF code /\ ~before THEN Control("code start") ELSE <<>>

\* The control between unit k - 1 and unit k, if code begins or ends there.
Bracket(units, k) ==
  LET before == k > 1 /\ units[k - 1].mode = "Code"
      code == k <= Len(units) /\ units[k].mode = "Code"
  IN CASE code /\ ~before -> Control("code start")
       [] before /\ ~code -> Control("code end")
       [] OTHER -> <<>>

Newline(newline) == IF newline THEN Bytes(<<<<"\n", 1>>>>, 1, 2) ELSE <<>>
Framed(body, newline) == Control("bos") \o body \o Newline(newline) \o Control("eos")

AllOptions == [unit |-> TRUE, morpheme |-> TRUE, code |-> TRUE]

UnitStream(vocabulary, d, k, options) ==
  (IF options.code THEN Bracket(d.units, k) ELSE <<>>)
    \o (IF options.unit THEN Control("unit") ELSE <<>>)
    \o Surface(vocabulary, d.raw, d.units[k], IF options.morpheme THEN d.units[k].cuts ELSE <<>>)

DocumentStream(vocabulary, d, options) ==
  FlattenSeq([k \in DOMAIN d.units |-> UnitStream(vocabulary, d, k, options)])
    \o (IF options.code THEN Bracket(d.units, Len(d.units) + 1) ELSE <<>>)

\* push_token and validate_byte_accounting: ids fit, every byte is counted.
Checked(stream, raw, newline) ==
  LET lengths == FoldLeft(LAMBDA n, t : n + t.length, 0, stream)
  IN IF /\ \A i \in DOMAIN stream : stream[i].id[1] = "char" => stream[i].id[2] <= MaxId
        /\ lengths = Len(raw) + IF newline THEN 1 ELSE 0
     THEN stream ELSE NONE

\* encode_training_units: a cut inside a scalar is an error.
EncodeUnits(vocabulary, d, newline, options) ==
  IF /\ Covers(d)
     /\ options.morpheme =>
          \A k \in DOMAIN d.units : ToSet(d.units[k].cuts) \subseteq Starts(d.raw, d.units[k].start, d.units[k].end)
  THEN Checked(Framed(DocumentStream(vocabulary, d, options), newline), d.raw, newline)
  ELSE NONE

\* encode_training_document.
EncodeTraining(vocabulary, d, newline, options) ==
  IF ValidDocument(d) THEN EncodeUnits(vocabulary, d, newline, options) ELSE NONE

\* CharacterVocabulary::encode: never fails, cuts it cannot place are lost.
EncodeIds(vocabulary, d) ==
  LET stream == Framed(DocumentStream(vocabulary, d, AllOptions), FALSE)
  IN [i \in DOMAIN stream |-> stream[i].id]

\* encode_character_training_document and encode_byte_training_document.
EncodeCharacters(vocabulary, raw, newline) ==
  Checked(Framed(Surface(vocabulary, raw, [start |-> 1, end |-> Len(raw) + 1], <<>>), newline), raw, newline)
EncodeBytes(raw, newline) == Checked(Framed(Bytes(raw, 1, Len(raw) + 1), newline), raw, newline)

\* encode_training_batch: one stream and where each document ends in it.
EncodeBatch(vocabulary, documents, newline, options) ==
  LET encoded == [i \in DOMAIN documents |-> EncodeTraining(vocabulary, documents[i], newline[i], options)]
      size(k) == FoldLeft(LAMBDA n, s : n + Len(s), 0, SubSeq(encoded, 1, k))
  IN IF NONE \in ToSet(encoded) THEN NONE
     ELSE [tokens |-> FlattenSeq(encoded), offsets |-> [k \in 1..(Len(documents) + 1) |-> size(k - 1)]]
=============================================================================
