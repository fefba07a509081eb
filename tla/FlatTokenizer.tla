---------------------------- MODULE FlatTokenizer ----------------------------
(***************************************************************************)
(* A document becomes a stream on two ways (lib.rs): the rich way makes a  *)
(* TokenizedDocument with analyses, whose stream encode_training_document  *)
(* writes; the flat way keeps cuts only, remembers the analyses of tokens  *)
(* and the outcome of whole segments, and skips the disambiguator where it *)
(* cannot matter.  "document token offsets are exact with the rich         *)
(* reference encoder" (lib.rs:2068).                                       *)
(***************************************************************************)
EXTENDS QualityFallback

CONSTANTS Documents,        \* inputs: [raw, lexical, code]
          Configs,          \* [mode, contextual, shadow]
          Best(_),          \* disambiguate_indices_causal: words to choices
          Vocabulary,       \* a CharacterVocabulary
          MaxDocuments,     \* documents encoded with one cache
          CacheCapacity,    \* analysis sets the cache holds
          ProgramCapacity   \* SEGMENT_PROGRAM_CACHE_ENTRIES

VARIABLES
  config,
  input,      \* the document at work
  rich,       \* what the rich way makes of it
  pc,         \* "idle", "scan", "flush", "encode"
  units,      \* of the flat way
  index,      \* the unit to look at next
  segment,    \* the units collected
  sets,       \* cache: token to analysis set
  programs,   \* cache: segment to what came out of it
  result,     \* the last stream, NONE: failed
  encoded     \* number of documents begun

vars == <<config, input, rich, pc, units, index, segment, sets, programs, result, encoded>>

Analyses(token) == OrElse(FallbackAnalyses(token), IF config.shadow THEN SpelledAnalyses(token) ELSE <<>>)
UnknownAnalysis(token) == [root |-> UnknownRoot, pos |-> "Unk", stem |-> token, ending |-> <<>>,
                           morphemes |-> <<[id |-> 0, surface |-> token]>>]
Breaks(unit) == unit.mode # "Turkish" \/ unit.kind \in {"LineBreak", "Control", "Opaque"}
Merged(cuts, more) == Sorted(ToSet(cuts) \cup more)

----------------------------------------------------------------------------
(* The rich way.                                                           *)

\* surface_valid_candidates, of AnalysisCache::analyze.
RichSet(token) ==
  LET valid(a) == Aligned(token, 0, CompleteNumeric(token, a)) # NONE
  IN OrElse(SelectSeq(Analyses(token), valid), <<UnknownAnalysis(token)>>)

\* apply_analysis.
ApplyAnalysis(raw, unit, analysis) ==
  LET token == Text(raw, unit)
      known(aligned) == [unit EXCEPT !.status = "Morphological", !.cuts = aligned.cuts,
                                     !.analysis = [root |-> analysis.root, morphemes |-> aligned.morphemes]]
  IN IF analysis.root = UnknownRoot
     THEN [unit EXCEPT !.status = "Unknown", !.analysis = UnknownChunk(raw, unit)]
     ELSE known(Aligned(token, unit.start, CompleteNumeric(token, analysis)))

\* apply_selected_analysis.
ApplySelected(raw, unit, analysis) ==
  LET finished(u) == IF u.kind = "Number" THEN [u EXCEPT !.cuts = Merged(@, NumericMicroCuts(raw, u))] ELSE u
  IN IF unit.kind \in {"Punctuation", "Symbol"} THEN [unit EXCEPT !.status = "Structural", !.cuts = <<>>, !.analysis = NONE]
     ELSE finished(ApplyAnalysis(raw, unit, analysis))

\* The segments the disambiguator sees one by one (apply_contextual_analysis).
Segments(raw, us) ==
  LET close(s) == IF s.open = <<>> THEN s ELSE [done |-> Append(s.done, s.open), open |-> <<>>]
      add(s, i) == [s EXCEPT !.open = Append(s.open, i)]
      step(s, i) == CASE Breaks(us[i]) -> close(s)
                      [] ~Breaks(us[i]) /\ us[i].kind = "Whitespace" -> s
                      [] OTHER -> IF IsSentenceBoundary(raw, us[i]) \/ Len(add(s, i).open) >= MaxSentence
                                  THEN close(add(s, i)) ELSE add(s, i)
  IN close(FoldLeft(step, [done |-> <<>>, open |-> <<>>], [i \in DOMAIN us |-> i])).done

\* flush_segment, of the words of a segment and the choices made of them.
ApplyChoices(raw, us, indices, words, choices) ==
  LET place(i) == SelectInSeq(indices, LAMBDA j : j = i)
  IN Listed([i \in DOMAIN us |-> IF place(i) = 0 THEN us[i]
                                 ELSE ApplySelected(raw, us[i], words[place(i)][choices[place(i)]])])

\* flush_segment.
FlushSegment(raw, us, indices) ==
  LET applied(words) == ApplyChoices(raw, us, indices, words,
                                     IF config.contextual THEN Best(words) ELSE [k \in DOMAIN words |-> 1])
  IN applied(Listed([k \in DOMAIN indices |-> RichSet(Text(raw, us[indices[k]]))]))

\* tokenize.
Analysed(raw, us) == FoldLeft(LAMBDA done, indices : FlushSegment(raw, done, indices), us, Segments(raw, us))
RichUnits(raw, us) == AssignGroups(raw, SplitLongFallback(raw, Analysed(raw, us)))
RichDocument(document) ==
  [raw |-> document.raw,
   units |-> RichUnits(document.raw, Listed(SplitUnits(document.raw, document.lexical, document.code, config.mode)))]

----------------------------------------------------------------------------
(* The flat way.                                                           *)

\* build_flat_analysis_set: numerals are completed where there is a digit.
FlatSet(token) ==
  LET completed(a) == IF ToSet(token) \cap Digits # {} THEN CompleteNumeric(token, a) ELSE a
      aligned(a) == Aligned(token, 0, completed(a))
      valid(a) == aligned(a) # NONE
      set(words, cuts, unknown) ==
        [words |-> words, cuts |-> cuts, unknown |-> unknown,
         invariant |-> \A k \in DOMAIN words : cuts[k] = cuts[1] /\ unknown[k] = unknown[1]]
      known(words) == set(words, Listed([k \in DOMAIN words |-> aligned(words[k]).cuts]),
                          [k \in DOMAIN words |-> words[k].root = UnknownRoot])
      orUnknown(words) == IF words = <<>> THEN set(<<UnknownAnalysis(token)>>, <<<<>>>>, <<TRUE>>) ELSE known(words)
  IN orUnknown(SelectSeq(Analyses(token), valid))

\* apply_flat_candidate and apply_flat_output.
ApplyFlat(raw, unit, set, k) ==
  LET cuts == [i \in DOMAIN set.cuts[k] |-> unit.start + set.cuts[k][i]]
      more == IF unit.kind = "Number" THEN NumericMicroCuts(raw, unit) ELSE {}
  IN IF unit.kind \in {"Punctuation", "Symbol"} THEN [unit EXCEPT !.status = "Structural", !.cuts = <<>>]
     ELSE [unit EXCEPT !.status = IF set.unknown[k] THEN "Unknown" ELSE "Morphological", !.cuts = Merged(cuts, more)]

\* Fault: the first choice will do where the first token has only one.
SelectedHasty(found) ==
  IF config.contextual /\ ~found[1].invariant THEN Best([k \in DOMAIN found |-> found[k].words])
  ELSE [k \in DOMAIN found |-> 1]

\* apply_flat_sets: no choice is made where it shows in no cut.
Selected(found) ==
  IF config.contextual /\ \E k \in DOMAIN found : ~found[k].invariant
  THEN Best([k \in DOMAIN found |-> found[k].words])
  ELSE [k \in DOMAIN found |-> 1]

\* segment_program: the key of a segment.
SegmentKey(raw, us, indices) ==
  [k \in DOMAIN indices |-> [kind |-> us[indices[k]].kind, text |-> Text(raw, us[indices[k]])]]

\* Fault: cuts are kept as offsets in the document.
CaptureAbsolute(us, indices) ==
  [k \in DOMAIN indices |-> [cuts |-> us[indices[k]].cuts, unknown |-> us[indices[k]].status = "Unknown"]]

\* capture_flat_segment_program.
CaptureProgram(us, indices) ==
  [k \in DOMAIN indices |->
    LET u == us[indices[k]]
    IN [cuts |-> [i \in DOMAIN u.cuts |-> u.cuts[i] - u.start], unknown |-> u.status = "Unknown"]]

\* apply_flat_segment_program.
ReplayUnit(unit, token) ==
  [unit EXCEPT !.status = IF token.unknown THEN "Unknown" ELSE "Morphological",
               !.cuts = [i \in DOMAIN token.cuts |-> unit.start + token.cuts[i]]]

\* analyze: sets are kept until the cache is full.
Remembered(tokens) ==
  FoldLeft(LAMBDA c, t : IF t \in DOMAIN c \/ Cardinality(DOMAIN c) >= CacheCapacity THEN c ELSE c @@ (t :> FlatSet(t)),
           sets, tokens)

----------------------------------------------------------------------------
NoInput == [raw |-> <<>>, lexical |-> <<>>, code |-> <<>>]

Init == /\ config \in Configs
        /\ input = NoInput /\ rich = NoInput /\ pc = "idle" /\ units = <<>> /\ index = 1 /\ segment = <<>>
        /\ sets = <<>> /\ programs = <<>> /\ result = <<>> /\ encoded = 0

\* encode_flat_document begins: the document is scanned and split.
Begin(document) ==
  /\ pc = "idle" /\ encoded < MaxDocuments
  /\ input' = IF config.mode = "Auto" THEN document ELSE [document EXCEPT !.code = <<>>]
  /\ rich' = RichDocument(input')
  /\ units' = SplitCompact(input'.raw, input'.lexical, input'.code, config.mode)
  /\ pc' = IF units' = NONE THEN "idle" ELSE "scan"
  /\ result' = IF units' = NONE THEN NONE ELSE <<>>
  /\ index' = 1 /\ segment' = <<>> /\ encoded' = encoded + 1
  /\ UNCHANGED <<config, sets, programs>>

Scanned == UNCHANGED <<config, input, rich, units, sets, programs, result, encoded>>

\* apply_flat_contextual_analysis takes a token into the segment.
Collect ==
  /\ pc = "scan" /\ index <= Len(units) /\ ~Breaks(units[index]) /\ units[index].kind # "Whitespace"
  /\ segment' = Append(segment, index)
  /\ index' = index + 1
  /\ pc' = IF IsSentenceBoundary(input.raw, units[index]) \/ Len(segment') >= MaxSentence THEN "flush" ELSE "scan"
  /\ Scanned

SkipSpace ==
  /\ pc = "scan" /\ index <= Len(units) /\ ~Breaks(units[index]) /\ units[index].kind = "Whitespace"
  /\ index' = index + 1
  /\ UNCHANGED <<pc, segment>>
  /\ Scanned

BreakSegment ==
  /\ pc = "scan" /\ index <= Len(units) /\ Breaks(units[index])
  /\ index' = index + 1 /\ pc' = "flush"
  /\ UNCHANGED segment
  /\ Scanned

EndOfUnits ==
  /\ pc = "scan" /\ index > Len(units)
  /\ pc' = IF segment = <<>> THEN "encode" ELSE "flush"
  /\ UNCHANGED <<index, segment>>
  /\ Scanned

Key == SegmentKey(input.raw, units, segment)
InSegment(i) == SelectInSeq(segment, LAMBDA j : j = i)
Flushed == pc' = "scan" /\ segment' = <<>> /\ UNCHANGED <<config, input, rich, index, result, encoded>>

FlushNothing ==
  /\ pc = "flush" /\ segment = <<>>
  /\ Flushed /\ UNCHANGED <<units, sets, programs>>

\* flush_flat_segment where the segment was met before.
Replay ==
  /\ pc = "flush" /\ segment # <<>>
  /\ \E key \in {Key} :
       /\ key \in DOMAIN programs
       /\ units' = [i \in DOMAIN units |-> IF InSegment(i) = 0 THEN units[i] ELSE ReplayUnit(units[i], programs[key][InSegment(i)])]
  /\ Flushed /\ UNCHANGED <<sets, programs>>

\* The units with the chosen candidates of the sets found for the segment.
Applied(key, found) ==
  LET selected == Selected(found)
  IN Listed([i \in DOMAIN units |->
       IF InSegment(i) = 0 THEN units[i] ELSE ApplyFlat(input.raw, units[i], found[InSegment(i)], selected[InSegment(i)])])

\* flush_flat_segment of a new segment.
Analyze ==
  /\ pc = "flush" /\ segment # <<>>
  /\ \E key \in {Key} : \E cache \in {Remembered([k \in DOMAIN key |-> key[k].text])} :
       /\ key \notin DOMAIN programs
       /\ sets' = cache
       /\ \E applied \in {Applied(key, [k \in DOMAIN key |-> IF key[k].text \in DOMAIN cache THEN cache[key[k].text]
                                                            ELSE FlatSet(key[k].text)])} :
            /\ units' = applied
            /\ programs' = IF Cardinality(DOMAIN programs) >= ProgramCapacity THEN programs
                           ELSE programs @@ (key :> CaptureProgram(applied, segment))
  /\ Flushed

\* The rest of encode_flat_document: long units are cut, the stream written.
Finish ==
  /\ pc = "encode"
  /\ \E split \in {SplitLongFlat(input.raw, units)} :
       /\ units' = split
       /\ result' = EncodeUnits(Vocabulary, [raw |-> input.raw, units |-> split], FALSE, AllOptions)
  /\ pc' = "idle"
  /\ UNCHANGED <<config, input, rich, index, segment, sets, programs, encoded>>

Next == \/ \E d \in Documents : Begin(d)
        \/ Collect \/ SkipSpace \/ BreakSegment \/ EndOfUnits
        \/ FlushNothing \/ Replay \/ Analyze \/ Finish

Spec == Init /\ [][Next]_vars

----------------------------------------------------------------------------
Returned == pc = "idle" /\ encoded > 0

\* The variables have their types: units in order, the segment of units behind
\* index, caches within their capacity.
TypeOK ==
  /\ config \in Configs /\ pc \in {"idle", "scan", "flush", "encode"} /\ encoded \in 0..MaxDocuments
  /\ pc # "idle" => Covers([raw |-> input.raw, units |-> units])
  /\ \A k \in DOMAIN segment : segment[k] < index /\ ~Breaks(units[segment[k]])
  /\ Len(segment) <= MaxSentence
  /\ Cardinality(DOMAIN sets) <= CacheCapacity /\ Cardinality(DOMAIN programs) <= ProgramCapacity

\* No document makes either way fail: what the splitting, the alignment and
\* the fallbacks leave satisfies every check of TokenizedDocument::validate and
\* of the encoder, whatever bytes and code spans the document has.
NeverFails == Returned => result # NONE /\ ValidDocument(rich)

\* The flat way writes the stream of the rich way, with what its caches hold
\* from earlier documents and with the disambiguator skipped where cuts agree
\* ("exact with the rich reference encoder", lib.rs:2068).
FlatIsRich == Returned => result = EncodeTraining(Vocabulary, rich, FALSE, AllOptions)

\* A remembered segment says what the rich way would decide for these tokens
\* alone: its outcome depends on nothing that is not in its key.
ProgramsReproduce ==
  Returned => \A key \in DOMAIN programs :
    LET texts == [i \in DOMAIN key |-> key[i].text]
        start(i) == 1 + FoldLeft(LAMBDA n, t : n + WidthOf(t), 0, SubSeq(texts, 1, i - 1))
        alone == [i \in DOMAIN key |-> NewUnit(start(i), start(i + 1), [kind |-> key[i].kind], "Turkish")]
        decided == FlushSegment(Spell(FlattenSeq(texts)), alone, [i \in DOMAIN key |-> i])
    IN programs[key] = CaptureProgram(decided, [i \in DOMAIN key |-> i])

\* A group is a run of units on one line of Turkish text without code between
\* them; it ends with a token, and has more than one token only for clitics.
GroupsAreRuns ==
  Returned =>
    LET us == rich.units
        members(g) == {i \in DOMAIN us : us[i].group = g}
        tokens(g) == {i \in members(g) : us[i].kind # "Whitespace"}
    IN /\ \A i \in DOMAIN us : us[i].mode = "Turkish" /\ us[i].kind \notin {"Whitespace", "LineBreak"} => us[i].group # NONE
       /\ \A g \in {us[i].group : i \in DOMAIN us} \ {NONE} :
            /\ members(g) = Min(members(g))..Max(members(g))
            /\ {Min(members(g)), Max(members(g))} \subseteq tokens(g)
            /\ \A i \in members(g) : us[i].mode = "Turkish" /\ us[i].kind # "LineBreak"
            /\ \A i \in tokens(g) \ {Min(tokens(g))} : IsClitic(Text(input.raw, us[i]))

\* Nothing that falls back is longer than the limit, and every piece of it is
\* whole scalars or opaque bytes of the same lexical unit.
ChunksFit ==
  Returned =>
    \A u \in ToSet(rich.units) :
      IsFallback(u) => IF u.mode = "Opaque" THEN u.end - u.start <= MaxFallback
                       ELSE /\ Len(Text(input.raw, u)) \in 1..MaxFallback
                            /\ WidthOf(Text(input.raw, u)) = u.end - u.start

\* A unit is code if it lies in a code span and is not opaque; no unit lies
\* across the edge of a span, wherever the span begins or ends.
CodeSpansExact ==
  Returned /\ config.mode = "Auto" =>
    \A u \in ToSet(rich.units) :
      LET inside == \E c \in ToSet(input.code) : c.start <= u.start /\ u.end <= c.end
          apart == \A c \in ToSet(input.code) : u.end <= c.start \/ c.end <= u.start
      IN /\ inside \/ apart
         /\ u.mode # "Opaque" => (u.mode = "Code") = inside

\* The units of a document are well made: no call fails, runs of a word share a
\* group, chunks fit the limit, and code units are those of the code spans.
UnitsWellMade == TypeOK /\ NeverFails /\ GroupsAreRuns /\ ChunksFit /\ CodeSpansExact
=============================================================================
