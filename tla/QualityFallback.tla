--------------------------- MODULE QualityFallback ---------------------------
(***************************************************************************)
(* What the tokenizer tries for a token the lexicon does not know          *)
(* (quality.rs), and how it completes numerals (lib.rs).  A token is a     *)
(* sequence of scalars; an analysis is [root, pos, stem, ending, morphemes *)
(* : Seq([id, surface])]. Cuts here are byte offsets from the start of the *)
(* token.                                                                  *)
(***************************************************************************)
EXTENDS Splitting

CONSTANTS Lexicon(_),     \* NativeMorphology::analyze_token
          MaxAnalyzed,    \* tokens of more scalars are not looked up (512)
          MaxVariants     \* limit of deasciify_candidates (64)

FallbackRoot == 9         \* the dictionary ids NEDO_..._Fallback
Surfaces(analysis) == [k \in DOMAIN analysis.morphemes |-> analysis.morphemes[k].surface]
Aligned(token, start, analysis) == AlignAnalysis(token, start, Surfaces(analysis))
FromTo(token, from, to) == ScalarsFrom(SubSeq(Spell(token), from + 1, to), 1)

LowerScalar(c) == CASE c = "I" -> "dotless i" [] c = "A" -> "a" [] OTHER -> c
TurkishLower(chars) == Mapped(chars, LowerScalar)

\* Where the apostrophe of a token stands; 0: it has none.
ApostropheAt(token) == SelectInSeq(token, LAMBDA c : c \in Apostrophes)

----------------------------------------------------------------------------
(* Analyses made up from the token itself.                                 *)

\* synthetic_analysis: the token cut at cuts, whatever the lexicon says.
Synthetic(token, cuts, pos) ==
  LET width == WidthOf(token)
      edges == Sorted({0, width} \cup {c \in cuts : c \in Starts(Spell(token), 1, width + 1)})
      texts(spans) == Listed([k \in DOMAIN spans |-> FromTo(token, spans[k].start, spans[k].end)])
      made(parts) == [root |-> FallbackRoot, pos |-> pos, stem |-> parts[1], ending |-> FlattenSeq(Tail(parts)),
                      morphemes |-> [k \in DOMAIN parts |-> [id |-> k, surface |-> parts[k]]]]
  IN made(texts(Between(edges)))

\* looks_like_clock and numeric_time_with_suffix_analysis.
LooksLikeClock(chars) ==
  LET colons == {k \in DOMAIN chars : chars[k] = ":"}
      parts == {<<i, j>> \in ({0} \cup colons) \X (colons \cup {Len(chars) + 1}) :
                  i < j /\ ~\E k \in colons : i < k /\ k < j}
  IN /\ Cardinality(colons) \in 1..2
     /\ \A p \in parts : /\ p[2] - p[1] - 1 \in (IF p[1] = 0 THEN 1..2 ELSE {2})
                         /\ \A k \in (p[1] + 1)..(p[2] - 1) : chars[k] \in Digits

ClockAnalyses(token) ==
  LET at == ApostropheAt(token)
      clock == SubSeq(token, 1, at - 1)
      suffix == SubSeq(token, at + 1, Len(token))
  IN IF at > 1 /\ suffix # <<>> /\ ToSet(suffix) \subseteq Upper \cup Lower /\ LooksLikeClock(clock)
     THEN <<[root |-> FallbackRoot, pos |-> "Num", stem |-> clock, ending |-> suffix,
             morphemes |-> <<[id |-> 1, surface |-> clock], [id |-> 2, surface |-> suffix]>>]>>
     ELSE <<>>

\* attached_question_analysis: a known word with the question particle on it.
QuestionSuffixes == {<<"m", "dotless i">>, <<"m", "i">>}
AskedOf(token, prefix, bases) ==
  IF bases = <<>> THEN <<>>
  ELSE <<Synthetic(token, ToSet(Aligned(prefix, 0, bases[1]).cuts) \cup {WidthOf(prefix)}, bases[1].pos)>>
QuestionAnalyses(token) ==
  LET n == Len(token)
      prefix == SubSeq(token, 1, n - 2)
  IN IF n > 3 /\ TurkishLower(SubSeq(token, n - 1, n)) \in QuestionSuffixes
     THEN AskedOf(token, prefix, SelectSeq(Lexicon(prefix), LAMBDA b : Aligned(prefix, 0, b) # NONE))
     ELSE <<>>

----------------------------------------------------------------------------
(* Analyses of a candidate spelling, carried back to the token.  ends[k]   *)
(* is where in the token the first k scalars of the candidate end.         *)

Candidate(text, ends) == [text |-> text, ends |-> ends]
SingleLetter(token) == Len(token) = 1 /\ token[1] \in {"A", "I", "a", "b", "c", "d", "i", "m", "n", "r", "s", "dotless i", "s cedilla"}

OriginalBoundary(candidate, cut) ==
  LET k == SelectInSeq([k \in DOMAIN candidate.text |-> k], LAMBDA k : WidthOf(SubSeq(candidate.text, 1, k)) = cut)
  IN IF cut = 0 THEN 0 ELSE IF k = 0 THEN NONE ELSE candidate.ends[k]

\* analysis_from_candidate: the first analysis whose cuts all carry over.
Carried(candidate, analysis) ==
  {OriginalBoundary(candidate, c) : c \in ToSet(Aligned(candidate.text, 0, analysis).cuts)}
CarriedTo(token, candidate, bases) ==
  IF bases = <<>> THEN <<>> ELSE <<Synthetic(token, Carried(candidate, bases[1]), bases[1].pos)>>
CandidateAnalyses(token, candidate) ==
  LET analyses == Lexicon(candidate.text)
  IN CASE candidate.text = token -> <<>>
       [] candidate.text # token /\ analyses = <<>> /\ SingleLetter(candidate.text) -> <<Synthetic(token, {}, "Noun")>>
       [] OTHER -> CarriedTo(token, candidate, SelectSeq(analyses,
                     LAMBDA b : Aligned(candidate.text, 0, b) # NONE /\ NONE \notin Carried(candidate, b)))

\* turkish_composition_candidate: a letter and its combining mark are one.
ComposedAt(token, k) == k < Len(token) /\ token[k] = "s" /\ token[k + 1] = "cedilla"
CompositionCandidate(token) ==
  LET kept == SelectSeq([k \in DOMAIN token |-> k], LAMBDA k : ~(k > 1 /\ ComposedAt(token, k - 1)))
      last(k) == IF ComposedAt(token, kept[k]) THEN kept[k] + 1 ELSE kept[k]
  IN Candidate([k \in DOMAIN kept |-> IF ComposedAt(token, kept[k]) THEN "s cedilla" ELSE token[kept[k]]],
               [k \in DOMAIN kept |-> WidthOf(SubSeq(token, 1, last(k)))])

\* trailing_emphasis_candidate: a last letter three to eight times is one.
AsciiLower(c) == CASE c = "I" -> "i" [] c = "A" -> "a" [] OTHER -> c
EmphasisCandidate(token) ==
  LET last == AsciiLower(token[Len(token)])
      start == CHOOSE k \in DOMAIN token : /\ \A j \in k..Len(token) : AsciiLower(token[j]) = last
                                           /\ k = 1 \/ AsciiLower(token[k - 1]) # last
  IN IF start > 1 /\ Len(token) - start + 1 \in 3..8 /\ last \in Upper \cup Lower
     THEN Candidate(SubSeq(token, 1, start),
                    [k \in 1..start |-> IF k = start THEN WidthOf(token) ELSE WidthOf(SubSeq(token, 1, k))])
     ELSE Candidate(token, <<>>)

\* analyze_token_with_quality_fallback: the first attempt that succeeds.
OrElse(first, second) == IF first # <<>> THEN first ELSE second
FallbackAnalyses(token) ==
  IF token = <<>> \/ Len(token) > MaxAnalyzed THEN <<>>
  ELSE OrElse(ClockAnalyses(token), OrElse(Lexicon(token), OrElse(QuestionAnalyses(token),
       OrElse(CandidateAnalyses(token, CompositionCandidate(token)),
       OrElse(CandidateAnalyses(token, EmphasisCandidate(token)),
              IF SingleLetter(token) THEN <<Synthetic(token, {}, "Noun")>> ELSE <<>>)))))

\* deasciify_candidates: every way to put Turkish letters for plain ones, up
\* to a limit, the plain spelling first.
Alternates(c) == CASE c = "s" -> <<"s", "s cedilla">> [] c = "i" -> <<"i", "dotless i">> [] OTHER -> <<c>>
Deasciified(chars) ==
  LET more(texts, c) == FlattenSeq([i \in DOMAIN texts |->
                                     [k \in DOMAIN Alternates(c) |-> Append(texts[i], Alternates(c)[k])]])
      limited(texts) == SubSeq(texts, 1, Min({MaxVariants, Len(texts)}))
  IN FoldLeft(LAMBDA texts, c : limited(more(texts, c)), <<<<>>>>, chars)

\* The rest of analyze_token_with_nedoformer_shadow: the token in lower case,
\* then with Turkish letters; the cuts are still those of the token as it is.
SpelledAnalyses(token) ==
  LET ends == [k \in DOMAIN token |-> WidthOf(SubSeq(token, 1, k))]
      add(as, b) == IF \E a \in ToSet(as) : a.morphemes = b.morphemes THEN as ELSE Append(as, b)
      distinct(sets) == sets[1] \o FoldLeft(add, <<>>, FlattenSeq(Tail(sets)))
      spelled(text) == CandidateAnalyses(token, Candidate(text, ends))
  IN distinct(Mapped(Deasciified(TurkishLower(token)), spelled) \o <<>>)

----------------------------------------------------------------------------
(* Numerals.                                                               *)

\* numeric_derivation_prefix: the ordinal (Ord) before the distributive
\* ending (Dist).
Derivations == <<[id |-> 100, surface |-> <<"n", "c", "i">>], [id |-> 101, surface |-> <<"a", "r">>]>>

\* complete_numeric_derivation: the lexicon leaves out the derivation behind
\* an apostrophe; it goes between the stem and the rest of the ending.
CompleteNumeric(token, analysis) ==
  LET at == ApostropheAt(token)
      suffix == TurkishLower(SubSeq(token, at + 1, Len(token)))
      derivation == Derivations[SelectInSeq(Derivations, LAMBDA d : IsPrefix(d.surface, suffix))]
      completes == /\ analysis.pos = "Num" /\ at > 1 /\ suffix # <<>>
                   /\ analysis.stem = SubSeq(token, 1, at - 1)
                   /\ \E k \in DOMAIN Derivations : IsPrefix(Derivations[k].surface, suffix)
                   /\ \A m \in ToSet(analysis.morphemes) : m.id # derivation.id
                   /\ TurkishLower(analysis.ending) = SubSeq(suffix, Len(derivation.surface) + 1, Len(suffix))
  IN IF completes THEN [analysis EXCEPT !.ending = derivation.surface \o analysis.ending,
                                        !.morphemes = InsertAt(analysis.morphemes, 2, derivation)]
     ELSE analysis
=============================================================================
