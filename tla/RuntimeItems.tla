----------------------------- MODULE RuntimeItems -----------------------------
(***************************************************************************)
(* The graph and the unknown tokens of binary/runtime.rs.                  *)
(*                                                                         *)
(* The graph: how stems are found, how a path crosses an edge while        *)
(* analysing or generating, and the analysis an accepted path becomes.  A  *)
(* stem is [surface, dictionary, state, bits] with the id of its surface;  *)
(* a state is [morpheme, terminal, derivative, edges]; an edge is [to,     *)
(* morpheme, template, conditions], conditions being a sequence of no or   *)
(* one tree.  An analysis is [item, primary, secondary, stem, ending,      *)
(* morphemes]; its canonical key is Canonical.                             *)
(*                                                                         *)
(* The items: what analyze_token does with a token the lexicon does not    *)
(* know: web addresses, Roman numerals, dotted abbreviations, numbers and  *)
(* apostrophised names.  Each kind asks the graph to parse a stand-in (a   *)
(* number word, or a lexicon noun of the same phonetics) with the token's  *)
(* ending, and rewrites the analyses it keeps.  A token is a sequence of   *)
(* characters: letters as in Conditions, capitals A, B, ..., with Id for   *)
(* the dotted capital I, digits and punctuation; "ap" is a typographic     *)
(* apostrophe and "a:" a foreign diacritic.                                *)
(***************************************************************************)
EXTENDS Conditions

CONSTANTS Stems,     \* sequence, sorted by surface id
          States     \* function of StateKeys

(* The compiled condition of every edge. *)
Programs ==
    [s \in StateKeys |->
        [k \in DOMAIN States[s].edges |->
            IF States[s].edges[k].conditions = <<>> THEN <<>>
            ELSE Compile(States[s].edges[k].conditions[1])]]

Text(word) == FoldLeft(LAMBDA text, part : text \o part, <<>>, word)
SurfacesOf(nodes) == Text([k \in DOMAIN nodes |-> nodes[k].surface])
Spelled(path) == SurfacesOf(path.nodes)

----------------------------------------------------------------------------
(* Lookups.                                                                *)

(* One halving of the interval in which the first stem lies whose surface  *)
(* id is not below (or is above) an id.                                    *)
Halved(interval, id, above) ==
    LET middle == (interval[1] + interval[2]) \div 2
        surface == Stems[middle + 1].surface
    IN IF interval[1] >= interval[2] THEN interval
       ELSE IF surface < id \/ (above /\ surface = id) THEN <<middle + 1, interval[2]>>
       ELSE <<interval[1], middle>>

Bound(id, above, low) ==
    FoldLeft(LAMBDA interval, stem : Halved(interval, id, above), <<low, Len(Stems)>>, Stems)[1]

(* stem_range by binary search: the stems with one surface. *)
StemRange(id) ==
    UNION {(start + 1)..Bound(id, TRUE, start) : start \in {Bound(id, FALSE, 0)}}

(* StemPrefixIndex: a trie over the surfaces whose final nodes hold the    *)
(* range of their stems.                                                   *)
GroupStarts == {k \in DOMAIN Stems : k = 1 \/ Stems[k - 1].surface # Stems[k].surface}
GroupEnd(start) ==
    Max({k \in start..Len(Stems) : \A j \in start..k : Stems[j].surface = Stems[start].surface})

PrefixIndex ==
    [prefix \in UNION {{SubSeq(Surfaces[Stems[k].surface], 1, n) :
                            n \in 0..Len(Surfaces[Stems[k].surface])} : k \in DOMAIN Stems} |->
        UNION {k..GroupEnd(k) : k \in {j \in GroupStarts : Surfaces[Stems[j].surface] = prefix}}]

(* NativeGenerator::new: stems counted, then placed, per dictionary item. *)
Offsets ==
    FoldFunctionOnSet(LAMBDA s, acc : [d \in DOMAIN acc |-> acc[d] + IF s.dictionary < d THEN 1 ELSE 0],
                      [d \in 1..(Len(Dictionary) + 1) |-> 0], Stems, DOMAIN Stems)
Placed ==
    FoldLeftDomain(LAMBDA acc, k :
                       LET d == Stems[k].dictionary
                       IN [acc EXCEPT !.at[acc.next[d] + 1] = k, !.next[d] = @ + 1],
                   [at |-> [k \in DOMAIN Stems |-> 0], next |-> Offsets], Stems).at
GeneratorStems(item) == SubSeq(Placed, Offsets[item] + 1, Offsets[item + 1])

----------------------------------------------------------------------------
(* Paths.                                                                  *)

StemPath(index, tail, consumed) ==
    LET stem == Stems[index]
        state == States[stem.state]
    IN [nodes |-> <<[state |-> stem.state, morpheme |-> state.morpheme,
                     surface |-> Surfaces[stem.surface], derivative |-> state.derivative]>>,
        dictionary |-> stem.dictionary, stem |-> stem.surface, tail |-> tail, bits |-> stem.bits,
        derivation |-> FALSE, suffix |-> FALSE, consumed |-> consumed]

Ascending(indices) == SetToSortSeq(indices, <)

(* Fault: the walk through the trie ends at the first stem. *)
InitialPathsShortest(word) ==
    LET known == {n \in 1..Len(word) : \E k \in DOMAIN Stems : Surfaces[Stems[k].surface] = SubSeq(word, 1, n)}
        range == Ascending(PrefixIndex[SubSeq(word, 1, Min(known))])
    IN IF known = {} THEN <<>> ELSE [k \in DOMAIN range |-> StemPath(range[k], Min(known), 0)]

(* initial_paths: every prefix of the word that is a stem, shortest first. *)
InitialPaths(word) ==
    LET known == {n \in 1..Len(word) : SubSeq(word, 1, n) \in DOMAIN PrefixIndex}
    IN FlattenSeq([n \in 1..Cardinality(known) |->
                      LET range == Ascending(PrefixIndex[SubSeq(word, 1, n)])
                      IN [k \in DOMAIN range |-> StemPath(range[k], n, 0)]])

InitialGenerationPaths(item, requested) ==
    LET stems == GeneratorStems(item)
    IN [k \in DOMAIN stems |->
           LET root == States[Stems[stems[k]].state].morpheme
           IN StemPath(stems[k], 0, IF requested # <<>> /\ requested[1] = root THEN 1 ELSE 0)]

Extended(path, edge, surface, tail, bits, consumed) ==
    LET derivative == States[edge.to].derivative
    IN [path EXCEPT !.nodes = Append(@, [state |-> edge.to, morpheme |-> edge.morpheme,
                                         surface |-> surface, derivative |-> derivative]),
                    !.tail = tail, !.bits = bits, !.consumed = consumed,
                    !.derivation = @ \/ derivative,
                    !.suffix = @ \/ surface # <<>>]

(* The edge k of the path's state, as a sequence of no or one path. *)
TryEdge(word, path, k) ==
    LET from == Current(path).state
        edge == States[from].edges[k]
        tail == SubSeq(word, path.tail + 1, Len(word))
        surface == GenerateSurface(edge.template, path.bits)
    IN IF tail = <<>> /\ edge.template # <<>> THEN <<>>
       ELSE IF ~IsPrefix(surface, tail) THEN <<>>
       ELSE IF ~Evaluate(Programs[from][k], path, tail # <<>>) THEN <<>>
       ELSE <<Extended(path, edge, surface, path.tail + Len(surface),
                       NextAttributes(path.bits, surface, edge.template, tail = surface), 0)>>

(* Only a requested morpheme may be spelled; a silent one may be passed. *)
TryGenerationEdge(path, k, requested) ==
    LET from == Current(path).state
        edge == States[from].edges[k]
        wanted == path.consumed < Len(requested) /\ requested[path.consumed + 1] = edge.morpheme
        surface == GenerateSurface(edge.template, path.bits)
    IN IF edge.template # <<>> /\ ~wanted THEN <<>>
       ELSE IF ~Evaluate(Programs[from][k], path, TRUE) THEN <<>>
       ELSE <<Extended(path, edge, surface, 0,
                       NextAttributes(path.bits, surface, edge.template, FALSE),
                       path.consumed + IF wanted THEN 1 ELSE 0)>>

MayTerminate(path) ==
    States[Current(path).state].terminal /\ "CannotTerminate" \notin path.bits
AcceptsFinished(word, path) == path.tail = Len(word) /\ MayTerminate(path)
(* Fault: a generated path may end where a vowel is expected. *)
AcceptsTerminal(requested, path) ==
    path.consumed = Len(requested) /\ States[Current(path).state].terminal

AcceptsGenerated(requested, path) == path.consumed = Len(requested) /\ MayTerminate(path)

EdgesFrom(path) == DOMAIN States[Current(path).state].edges

----------------------------------------------------------------------------
(* Analyses.                                                               *)

(* materialize_analysis: a dummy item stands for the one it refers to, and *)
(* the nominative and the missing possessive are left out.                 *)
Materialize(path) ==
    LET source == Dictionary[path.dictionary]
        item == IF "Dummy" \in source.attributes THEN source.reference ELSE path.dictionary
        named(nodes) == SelectSeq(nodes, LAMBDA node : node.morpheme \notin {"Nom", "Pnon"})
        kept == named(path.nodes)
    IN [item |-> Dictionary[item].lemma, primary |-> Dictionary[item].primary,
        secondary |-> Dictionary[item].secondary, stem |-> path.nodes[1].surface,
        ending |-> SurfacesOf(named(Tail(path.nodes))),
        morphemes |-> [k \in DOMAIN kept |-> [id |-> kept[k].morpheme, surface |-> kept[k].surface]]]

Canonical(analysis) ==
    <<analysis.item, analysis.primary, analysis.secondary, analysis.morphemes>>

Deduplicate(analyses) ==
    FoldLeft(LAMBDA out, a : IF \E k \in DOMAIN out : Canonical(out[k]) = Canonical(a) THEN out
                             ELSE Append(out, a), <<>>, analyses)

Materialized(paths) == [k \in DOMAIN paths |-> Materialize(paths[k])]

----------------------------------------------------------------------------
(* Tokens.                                                                 *)

Digits == <<"0", "1", "2", "3", "4", "5", "6", "7", "8", "9">>
DigitSet == ToSet(Digits)
DigitValue(c) == SelectInSeq(Digits, LAMBDA d : d = c) - 1
Capitals == << <<"A", "a">>, <<"B", "b">>, <<"C", "c">>, <<"D", "d">>, <<"E", "e">>, <<"Id", "i">>,
               <<"L", "l">>, <<"M", "m">>, <<"T", "t">>, <<"V", "v">>, <<"W", "w">>, <<"X", "x">> >>
CapitalLetters == {"I"} \cup {Capitals[k][1] : k \in DOMAIN Capitals}

Each(word, f(_)) == [k \in DOMAIN word |-> f(word[k])]
Lowered(c) ==
    IF \E k \in DOMAIN Capitals : Capitals[k][1] = c
    THEN Capitals[CHOOSE k \in DOMAIN Capitals : Capitals[k][1] = c][2] ELSE c
TurkishLower(word) == Each(word, LAMBDA c : IF c = "I" THEN "ii" ELSE Lowered(c))
AsciiLower(word) == Each(word, LAMBDA c : IF c = "I" THEN "i" ELSE IF c = "Id" THEN c ELSE Lowered(c))
NormalizeCircumflex(word) ==
    Each(word, LAMBDA c : CASE c = "a^" -> "a" [] c = "i^" -> "i" [] c = "u^" -> "u" [] OTHER -> c)
NormalizeApostrophes(word) == Each(word, LAMBDA c : IF c = "ap" THEN "'" ELSE c)
Without(word, c) == SelectSeq(word, LAMBDA x : x # c)
Plain(word) == NormalizeCircumflex(TurkishLower(word))

NormalizeForAnalysis(word) ==
    LET lowered == Plain(word)
        noDots == Without(lowered, ".")
    IN NormalizeApostrophes(IF noDots = <<>> THEN lowered ELSE noDots)

NormalizeComponent(word) ==
    Each(Plain(word), LAMBDA c : CASE c = "a:" -> "a"
                                   [] c \in TurkishLetters \cup {".", "-"} -> c
                                   [] OTHER -> "?")

(* turkish_capitalize; only the identity of the lemma matters. *)
Capitalized(word) == <<"Capitalized">> \o TurkishLower(word)

----------------------------------------------------------------------------
(* Splitting.                                                              *)

Apostrophe(word) == SelectInSeq(word, LAMBDA c : c \in {"'", "ap"})
StemOf(word) == IF Apostrophe(word) = 0 THEN word ELSE SubSeq(word, 1, Apostrophe(word) - 1)
EndingOf(word) ==
    IF Apostrophe(word) = 0 THEN <<>> ELSE SubSeq(word, Apostrophe(word) + 1, Len(word))
InnerApostrophe(word) == Apostrophe(word) \notin {0, 1, Len(word)}

(* split_numeral: without an apostrophe the last digit or dot ends the stem. *)
NumeralCut(word) ==
    IF Apostrophe(word) # 0 THEN Apostrophe(word) - 1
    ELSE SelectLastInSeq(word, LAMBDA c : c = "." \/ c \in DigitSet)
NumeralStem(word) == SubSeq(word, 1, NumeralCut(word))
NumeralEnding(word) ==
    SubSeq(word, NumeralCut(word) + (IF Apostrophe(word) = 0 THEN 1 ELSE 2), Len(word))

(* Everything between separators, as str::split gives it. *)
Parts(word, separator) ==
    LET at == {k \in DOMAIN word : word[k] = separator}
        edges == SetToSortSeq(at \cup {0, Len(word) + 1}, <)
    IN [k \in 1..(Len(edges) - 1) |-> SubSeq(word, edges[k] + 1, edges[k + 1] - 1)]

HasPart(word, part) == \E k \in 0..(Len(word) - Len(part)) : SubSeq(word, k + 1, k + Len(part)) = part

----------------------------------------------------------------------------
(* Which kind a token is.                                                  *)

WebStarts == { <<"h", "t", "t", "p", ":", "/", "/">>, <<"w", "w", "w", ".">> }
WebDomains == { <<".", "c", "o", "m">>, <<".", "n", "e", "t">>, <<".", "o", "r", "g">> }
IsUrl(token) ==
    LET lower == AsciiLower(StemOf(token))
    IN IF \E start \in WebStarts : IsPrefix(start, lower)
       THEN Len(lower) > 4 /\ "." \in ToSet(lower)
       ELSE \E domain \in WebDomains : HasPart(Parts(lower, "/")[1], domain)

RomanValue == [I |-> 1, V |-> 5, X |-> 10, L |-> 50, C |-> 100, D |-> 500, M |-> 1000]
RomanSteps ==
    << <<1000, <<"M">> >>, <<900, <<"C", "M">> >>, <<500, <<"D">> >>, <<400, <<"C", "D">> >>,
       <<100, <<"C">> >>, <<90, <<"X", "C">> >>, <<50, <<"L">> >>, <<40, <<"X", "L">> >>,
       <<10, <<"X">> >>, <<9, <<"I", "X">> >>, <<5, <<"V">> >>, <<4, <<"I", "V">> >>,
       <<1, <<"I">> >> >>

DecimalToRoman(value) ==
    FoldLeft(LAMBDA acc, step :
                 [left |-> acc.left % step[1],
                  text |-> acc.text \o FlattenSeq([k \in 1..(acc.left \div step[1]) |-> step[2]])],
             [left |-> value, text |-> <<>>], RomanSteps).text

(* roman_to_decimal: read from the right, a smaller digit counts down; the *)
(* value must spell back.  0 is none.                                      *)
RomanTotal(numeral) ==
    FoldRight(LAMBDA c, acc :
                  IF RomanValue[c] < acc.previous THEN [acc EXCEPT !.total = @ - RomanValue[c]]
                  ELSE [total |-> acc.total + RomanValue[c], previous |-> RomanValue[c]],
              numeral, [total |-> 0, previous |-> 0]).total
RomanToDecimal(numeral) ==
    LET total == RomanTotal(numeral)
    IN IF total \in 1..3999 /\ DecimalToRoman(total) = numeral THEN total ELSE 0

RomanNumeral(token) ==
    LET stem == StemOf(token)
    IN IF stem # <<>> /\ Last(stem) = "." THEN Front(stem) ELSE stem
IsRoman(token) ==
    LET numeral == RomanNumeral(token)
    IN numeral # <<>> /\ ToSet(numeral) \subseteq DOMAIN RomanValue /\ RomanToDecimal(numeral) # 0

IsDottedAbbreviation(token) ==
    LET stem == StemOf(token)
    IN /\ EndingOf(token) # <<>> /\ "." \in ToSet(stem) /\ Len(stem) % 2 = 0
       /\ \A k \in DOMAIN stem : IF k % 2 = 1 THEN stem[k] \in CapitalLetters ELSE stem[k] = "."

HasDigit(token) == ToSet(token) \cap DigitSet # {}

Unsigned(word) == IF word # <<>> /\ word[1] \in {"+", "-"} THEN Tail(word) ELSE word
AllDigits(word) == word # <<>> /\ ToSet(word) \subseteq DigitSet
IsSignedDigits(word) == AllDigits(Unsigned(word))
IsPair(word, separator) ==
    LET parts == Parts(Unsigned(word), separator)
    IN Len(parts) = 2 /\ AllDigits(parts[1]) /\ AllDigits(parts[2])
IsReal(word) == IsPair(word, ",") \/ IsPair(word, ".")
IsDistribution(word) ==
    \E n \in 1..(Len(word) - 1) :
        AllDigits(SubSeq(word, 1, n)) /\ ~HasDigit(SubSeq(word, n + 1, Len(word)))
IsPercentage(word) ==
    LET body == Unsigned(word)
    IN body # <<>> /\ body[1] = "%" /\ (IsSignedDigits(Tail(body)) \/ IsReal(Tail(body)))

(* str::parse::<u8> takes a plus sign; NONE beyond 255. *)
ParsedByte(word) ==
    LET digits == IF word # <<>> /\ word[1] = "+" THEN Tail(word) ELSE word
        value == FoldLeft(LAMBDA n, c : n * 10 + DigitValue(c), 0, digits)
    IN IF AllDigits(digits) /\ value <= 255 THEN value ELSE 256
IsClock(word) ==
    \E separator \in {":", "."} :
        LET parts == Parts(word, separator)
        IN /\ Len(parts) = 2 /\ Len(parts[2]) = 2 /\ AllDigits(parts[2])
           /\ ParsedByte(parts[1]) \in 1..29 /\ ParsedByte(parts[2]) <= 59
IsDate(word) ==
    \E separator \in {".", "/"} :
        LET parts == Parts(word, separator)
        IN /\ Len(parts) = 3 /\ Len(parts[3]) = 4 /\ AllDigits(parts[3])
           /\ ParsedByte(parts[1]) <= 39 /\ ParsedByte(parts[2]) <= 19

(* RuntimeNumeralKind::classify, in its order. *)
Kinds(stem) ==
    LET test == << <<"Card", IsSignedDigits(stem)>>,
                   <<"Ord", stem # <<>> /\ Last(stem) = "." /\ IsSignedDigits(Front(stem))>>,
                   <<"Range", IsPair(stem, "-")>>, <<"Ratio", IsPair(stem, "/")>>,
                   <<"Real", IsReal(stem)>>, <<"Dist", IsDistribution(stem)>>,
                   <<"Percent", IsPercentage(stem)>>, <<"Clock", IsClock(stem)>>,
                   <<"Date", IsDate(stem)>> >>
        yes == SelectSeq(test, LAMBDA t : t[2])
    IN [k \in DOMAIN yes |-> yes[k][1]]

-----------------------------------------------------------------------------
(***************************************************************************)
(* The graph queries a runtime token becomes, and the analyses rewritten   *)
(* from their results (analyze_runtime_* of binary/runtime.rs).            *)
(*                                                                         *)
(* A query is a sequence of no or one [word, stem, item, primary,          *)
(* secondaries, anchor]: the word to parse, the stem and item to write     *)
(* over the root of what is found, and the lexicon stem that stood in for  *)
(* the token, 0 for a number word.                                         *)
(***************************************************************************)

Ones == << <<"b", "i", "r">>, <<"i", "k", "i">>, <<"ue", "ch">>, <<"d", "oe", "r", "t">>,
           <<"b", "e", "sh">>, <<"a", "l", "t", "ii">>, <<"y", "e", "d", "i">>,
           <<"s", "e", "k", "i", "z">>, <<"d", "o", "k", "u", "z">> >>
Tens == << <<"o", "n">>, <<"y", "i", "r", "m", "i">>, <<"o", "t", "u", "z">>,
           <<"k", "ii", "r", "k">>, <<"e", "l", "l", "i">>, <<"a", "l", "t", "m", "ii", "sh">>,
           <<"y", "e", "t", "m", "i", "sh">>, <<"s", "e", "k", "s", "e", "n">>,
           <<"d", "o", "k", "s", "a", "n">> >>
ZeroWord == <<"s", "ii", "f", "ii", "r">>
Hundred == <<"y", "ue", "z">>
Large == << <<"b", "i", "n">>, <<"m", "i", "l", "y", "o", "n">>, <<"m", "i", "l", "y", "a", "r">> >>

(* The word for a power of ten, from its zeros. *)
PowerWord(zeros) ==
    CASE zeros = 2 -> Hundred
      [] zeros \in 3..11 -> Large[zeros \div 3]
      [] OTHER -> <<>>

(* numeral_ending_lemma: the last number word one says when reading the    *)
(* digits at the end; <<>> when there is none.                             *)
NumberWord(text) ==
    LET digitsFrom == SelectLastInSeq(text, LAMBDA c : c \notin DigitSet) + 1
        digits == SubSeq(text, digitsFrom, Len(text))
        last == SelectLastInSeq(digits, LAMBDA c : c # "0")
        zeros == Len(digits) - last
        one == DigitValue(digits[last])
    IN CASE digits = <<>> -> <<>>
         [] last # 0 -> IF zeros = 0 THEN Ones[one] ELSE IF zeros = 1 THEN Tens[one] ELSE PowerWord(zeros)
         [] digitsFrom > 1 /\ zeros >= 2 -> ZeroWord
         [] zeros = 1 -> ZeroWord
         [] OTHER -> PowerWord(zeros)

(* The ordinals of the table follow vowel harmony; the t of four softens. *)
OrdinalWord(word) ==
    LET base == IF word = Ones[4] THEN <<"d", "oe", "r", "d">> ELSE word
        bits == MorphemicAttributes(base, {})
        vowel == IVowel(bits)
    IN IF word = <<>> THEN <<>>
       ELSE base \o (IF "LastLetterVowel" \in bits THEN <<>> ELSE <<vowel>>) \o <<"n", "c", vowel>>

(* The word to parse for a number with an ending. *)
NumberToParse(word, ending) ==
    IF word = Ones[4] /\ ending # <<>> /\ ending[1] \in Vowels
    THEN <<"d", "oe", "r", "d">> \o ending ELSE word \o ending

NumberQuery(stem, word, ending, secondaries) ==
    IF word = <<>> \/ secondaries = <<>> THEN <<>>
    ELSE << [word |-> NumberToParse(word, ending), stem |-> stem, item |-> stem,
             primary |-> "Num", secondaries |-> secondaries, anchor |-> 0] >>

LastWord(stem, digits) ==
    IF stem # <<>> /\ Last(stem) = "." THEN OrdinalWord(NumberWord(digits)) ELSE NumberWord(digits)

NumeralQuery(token) ==
    LET stem == NumeralStem(token)
        trimmed == SubSeq(stem, 1, SelectLastInSeq(stem, LAMBDA c : c # "."))
    IN NumberQuery(stem, LastWord(stem, trimmed), NumeralEnding(token), Kinds(stem))

RECURSIVE Decimal(_)
Decimal(n) == (IF n < 10 THEN <<>> ELSE Decimal(n \div 10)) \o <<Digits[(n % 10) + 1]>>

RomanQuery(token) ==
    LET decimal == RomanToDecimal(RomanNumeral(token))
    IN NumberQuery(StemOf(token), LastWord(StemOf(token), Decimal(decimal)),
                   Plain(EndingOf(token)), <<"RomanNumeral">>)

----------------------------------------------------------------------------
(* noun_state_candidate: the first noun of the lexicon that starts in the  *)
(* same state with exactly these attributes.                               *)
Candidate(bits, state) ==
    SelectInSeq(Stems, LAMBDA s : /\ s.bits = bits /\ s.state = state
                                  /\ Dictionary[s.dictionary].primary = "Noun"
                                  /\ "Dummy" \notin Dictionary[s.dictionary].attributes)

NounQuery(lemma, secondary, root, pronunciation, ending, state) ==
    LET anchor == Candidate(MorphemicAttributes(pronunciation, {}), state)
    IN IF ~HasVowel(pronunciation) \/ anchor = 0 THEN <<>>
       ELSE << [word |-> Surfaces[Stems[anchor].surface] \o ending, stem |-> root, item |-> lemma,
                primary |-> "Noun", secondaries |-> <<secondary>>, anchor |-> anchor] >>

UrlQuery(token) ==
    LET root == IF Apostrophe(token) = 0 THEN Plain(token) ELSE Without(Plain(StemOf(token)), ".")
        lemma == IF Apostrophe(token) = 0 THEN root ELSE StemOf(token)
    IN NounQuery(lemma, "Url", root, SelectSeq(root, LAMBDA c : c \in TurkishLetters),
                 Plain(EndingOf(token)), "nounProper_S")

(* How a letter is called. *)
LetterName(c) == IF c \in Vowels THEN <<c>> ELSE <<c, "e">>
Pronounced(root) ==
    IF HasVowel(root) THEN root
    ELSE FlattenSeq([k \in DOMAIN root |->
                        IF root[k] = "k" /\ k = Len(root) THEN <<"k", "a">> ELSE LetterName(root[k])])

AbbreviationQuery(token) ==
    LET root == Without(Plain(StemOf(token)), ".")
    IN IF ~InnerApostrophe(token) THEN <<>>
       ELSE NounQuery(Capitalized(token), "Abbrv", root, Pronounced(root),
                      Plain(EndingOf(token)), "nounAbbrv_S")

ProperQuery(token) ==
    LET stem == Without(NormalizeComponent(StemOf(token)), ".")
    IN IF ~InnerApostrophe(token) THEN <<>>
       ELSE NounQuery(Capitalized(token), "Prop", stem, stem,
                      NormalizeComponent(EndingOf(token)), "nounProper_S")

(* The static reading that analyze_runtime_proper adds to its own. *)
StaticWord(token) ==
    Without(NormalizeComponent(StemOf(token)), ".") \o NormalizeComponent(EndingOf(token))

----------------------------------------------------------------------------
(* Fault: the item is rewritten, its surface is not. *)
RewriteItemOnly(analysis, query, secondary) ==
    [analysis EXCEPT !.item = query.item, !.primary = query.primary, !.secondary = secondary]

(* rewrite_analysis_root. *)
Rewrite(analysis, query, secondary) ==
    [analysis EXCEPT !.item = query.item, !.primary = query.primary, !.secondary = secondary,
                     !.stem = query.stem, !.morphemes[1].surface = query.stem]

(* The analyses of the parsed word that speak of the stand-in. *)
Anchored(query, analysis) ==
    IF query.anchor = 0 THEN analysis.primary = "Num"
    ELSE LET stem == Stems[query.anchor]
         IN /\ analysis.item = Dictionary[stem.dictionary].lemma
            /\ analysis.secondary = Dictionary[stem.dictionary].secondary
            /\ analysis.stem = Surfaces[stem.surface]

Rewritten(query, analyses) ==
    LET kept == SelectSeq(analyses, LAMBDA a : Anchored(query, a))
    IN Deduplicate(FlattenSeq(
           [k \in DOMAIN query.secondaries |->
               [j \in DOMAIN kept |-> Rewrite(kept[j], query, query.secondaries[k])]]))

(* What analyze_with_limits keeps of a word with an apostrophe inside. *)
KeptOfApostrophe(word, analyses) ==
    SelectSeq(analyses, LAMBDA a : /\ a.primary = "Noun"
                                   /\ \/ a.stem = StemOf(word)
                                      \/ \E k \in DOMAIN a.morphemes : a.morphemes[k].id = "P3sg")
=============================================================================
