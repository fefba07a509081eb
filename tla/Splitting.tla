------------------------------ MODULE Splitting ------------------------------
(***************************************************************************)
(* The units of a document before and after morphology (lib.rs): lexical   *)
(* units are split into tokens, each for Turkish, for code or as opaque    *)
(* bytes; what stays unknown is cut to size; clitics join the word before. *)
(*                                                                         *)
(* A piece is a lexical unit of the scanner [kind, start, end]; code spans *)
(* are [start, end].                                                       *)
(***************************************************************************)
EXTENDS TrainingStreams

CONSTANTS MaxFallback,   \* max_fallback_chars
          MaxSentence    \* max_sentence_tokens

ASSUME LimitsArePositive == MaxFallback > 0 /\ MaxSentence > 0   \* Tokenizer::from_bytes

Digits == {"0"}
Upper == {"A", "I"}
Lower == {"a", "b", "c", "d", "i", "m", "n", "r", "s", "a acute", "a hat", "dotless i", "s cedilla"}
AsciiPunctuation == {"'", "-", ".", ":", "=", "_"}

Text(raw, span) == ScalarsFrom(SubSeq(raw, span.start, span.end - 1), 1)
At(start, chars, k) == start + WidthOf(SubSeq(chars, 1, k - 1))   \* where the k-th scalar begins
Sorted(set) == SetToSortSeq(set, <)
Between(edges) == [k \in 1..(Len(edges) - 1) |-> [start |-> edges[k], end |-> edges[k + 1]]]

\* effective_mode.
EffectiveMode(span, kind, code, requested) ==
  CASE kind \in {"Opaque", "Control"} -> "Opaque"
    [] kind \notin {"Opaque", "Control"} /\ requested # "Auto" -> requested
    [] OTHER -> IF \E c \in ToSet(code) : c.start <= span.start /\ span.end <= c.end THEN "Code" ELSE "Turkish"

\* identifier_cuts: the scalars before which an identifier is cut.
IdentifierCuts(chars) ==
  LET n == Len(chars)
      separator(k) == chars[k] \in {"_", "-"}
      camel(k) == chars[k - 1] \in Lower /\ chars[k] \in Upper
      acronym(k) == chars[k - 1] \in Upper /\ chars[k] \in Upper /\ k < n /\ chars[k + 1] \in Lower
      digit(k) == {chars[k - 1], chars[k]} \subseteq Digits \cup Upper \cup Lower
                    /\ (chars[k - 1] \in Digits) # (chars[k] \in Digits)
  IN {k \in 2..n : separator(k) \/ separator(k - 1) \/ camel(k) \/ acronym(k) \/ digit(k)}

\* add_scalar_boundaries and the cuts of identifiers.
InnerBoundaries(raw, piece, mode) ==
  LET chars == Text(raw, piece)
      apart == \/ piece.kind = "Punctuation"
               \/ mode = "Turkish" /\ piece.kind = "Symbol" /\ ToSet(chars) \subseteq AsciiPunctuation
      named == mode = "Code" /\ piece.kind \in {"Word", "Number"}
  IN {At(piece.start, chars, k) : k \in IF apart THEN 2..Len(chars) ELSE IF named THEN IdentifierCuts(chars) ELSE {}}

NewUnit(first, last, piece, mode) ==
  [start |-> first, end |-> last, kind |-> piece.kind, mode |-> mode, group |-> NONE, cuts |-> <<>>, analysis |-> NONE,
   status |-> CASE mode = "Code" -> "Code" [] mode = "Opaque" -> "Opaque" [] mode = "Turkish" -> "Structural"]

\* The units of one piece where no code was found.
PieceUnits(raw, piece, requested) ==
  LET mode == EffectiveMode(piece, piece.kind, <<>>, requested)
      units(spans) == [k \in DOMAIN spans |-> NewUnit(spans[k].start, spans[k].end, piece, mode)]
  IN units(Between(Sorted({piece.start, piece.end} \cup InnerBoundaries(raw, piece, mode))))

SplitUnitsPlain(raw, lexical, requested) ==
  FlattenSeq([i \in DOMAIN lexical |-> PieceUnits(raw, lexical[i], requested)])

\* split_units.
SplitUnits(raw, lexical, code, requested) ==
  LET edges == Sorted(UNION {{p.start, p.end} \cup InnerBoundaries(raw, p, EffectiveMode(p, p.kind, code, requested)) :
                               p \in ToSet(lexical)}
                        \cup UNION {{c.start, c.end} : c \in ToSet(code)})
      source(span) == lexical[SelectInSeq(lexical, LAMBDA p : p.end > span.start)]
      unit(span, piece) == NewUnit(span.start, span.end, piece, EffectiveMode(span, piece.kind, code, requested))
      units(spans) == [k \in DOMAIN spans |-> unit(spans[k], source(spans[k]))]
  IN IF code = <<>> THEN SplitUnitsPlain(raw, lexical, requested) ELSE units(Between(edges))

\* split_compact_units: the same, but a unit across pieces is an error.
SplitCompact(raw, lexical, code, requested) ==
  LET inside(u) == \E p \in ToSet(lexical) : p.start <= u.start /\ u.end <= p.end
      checked(units) == IF \A u \in ToSet(units) : inside(u) THEN units ELSE NONE
  IN checked(SplitUnits(raw, lexical, code, requested))

----------------------------------------------------------------------------
\* is_sentence_boundary.
IsSentenceBoundary(raw, unit) == unit.kind = "Punctuation" /\ Text(raw, unit) = <<".">>

\* numeric_micro_cuts: around a separator between digits.
NumericMicroCuts(raw, unit) ==
  LET separators(chars) == {k \in 2..(Len(chars) - 1) : /\ chars[k] \in {".", ":", "-"}
                                                        /\ chars[k - 1] \in Digits /\ chars[k + 1] \in Digits}
      cuts(chars) == UNION {{At(unit.start, chars, k), At(unit.start, chars, k + 1)} : k \in separators(chars)}
  IN cuts(Text(raw, unit))

\* Fault: tokens are chunked by bytes too.
ChunkSpanBytes(raw, unit) ==
  LET starts == {k \in unit.start..(unit.end - 1) : (k - unit.start) % MaxFallback = 0}
  IN Between(Sorted(starts \cup {unit.end}))

\* chunk_span: opaque units by bytes, others by scalars.
ChunkSpan(raw, unit) ==
  LET chars == Text(raw, unit)
      starts == IF unit.mode = "Opaque"
                THEN {k \in unit.start..(unit.end - 1) : (k - unit.start) % MaxFallback = 0}
                ELSE {At(unit.start, chars, k) : k \in {k \in DOMAIN chars : (k - 1) % MaxFallback = 0}}
  IN Between(Sorted(starts \cup {unit.end}))

IsFallback(unit) == unit.status \in {"Unknown", "Code"} \/ unit.mode = "Opaque"

\* unknown_chunk_analysis.
UnknownChunk(raw, span) ==
  [root |-> UnknownRoot,
   morphemes |-> <<[id |-> 0, surface |-> Text(raw, span), start |-> span.start, end |-> span.end]>>]

\* The chunks of a unit; alone they have no cuts and are in no group.
Chunks(raw, unit) ==
  LET cut(spans) == IF Len(spans) = 1 THEN <<unit>>
                    ELSE [k \in DOMAIN spans |->
                            [unit EXCEPT !.start = spans[k].start, !.end = spans[k].end, !.group = NONE,
                                         !.cuts = <<>>, !.analysis = NONE]]
  IN IF IsFallback(unit) THEN cut(ChunkSpan(raw, unit)) ELSE <<unit>>

\* split_long_flat_units and split_long_fallback_units.
SplitLongFlat(raw, units) == FoldLeft(LAMBDA done, unit : done \o Chunks(raw, unit), <<>>, units)

SplitLongFallback(raw, units) ==
  LET named(u) == IF u.status = "Unknown" /\ u.analysis = NONE THEN [u EXCEPT !.analysis = UnknownChunk(raw, u)] ELSE u
  IN Mapped(SplitLongFlat(raw, units), named)

----------------------------------------------------------------------------
\* is_phonological_clitic, of the token in lower case.
IsClitic(chars) ==
  [k \in DOMAIN chars |-> CASE chars[k] = "I" -> "i" [] chars[k] = "A" -> "a" [] OTHER -> chars[k]]
    \in {<<"m", "i">>, <<"m", "dotless i">>, <<"d", "a">>}

\* assign_inner_groups: each token is a group of its own, but a clitic joins
\* the token before it, with the white space between.
AssignGroups(raw, units) ==
  LET step(s, i) ==
        CASE units[i].mode # "Turkish" \/ units[i].kind = "LineBreak" -> [s EXCEPT !.open = FALSE]
          [] units[i].mode = "Turkish" /\ units[i].kind = "Whitespace" -> s
          [] OTHER ->
               LET joins == s.open /\ IsClitic(Text(raw, units[i]))
                   group == IF joins THEN Last(s.groups) ELSE s.next
                   between == [k \in 1..(i - 1 - Len(s.groups)) |-> IF joins THEN group ELSE NONE]
               IN [groups |-> s.groups \o between \o <<group>>, next |-> IF joins THEN s.next ELSE s.next + 1, open |-> TRUE]
      grouped(groups) == [k \in DOMAIN units |-> [units[k] EXCEPT !.group = IF k \in DOMAIN groups THEN groups[k] ELSE NONE]]
  IN Listed(grouped(FoldLeft(step, [groups |-> <<>>, next |-> 0, open |-> FALSE], [i \in DOMAIN units |-> i]).groups))
=============================================================================
