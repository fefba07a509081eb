------------------------------ MODULE CodeSpans ------------------------------
(***************************************************************************)
(* code.rs.  A line is a sequence of tokens, the smallest pieces its rules *)
(* tell apart: words by what they say about code and prose, single         *)
(* characters otherwise.  The first part judges one line; the second is    *)
(* auto_code_spans, pass by pass: the scanner's hints, explicit backtick   *)
(* regions, inferred blocks of lines, inline artifacts, and the merge.     *)
(* Positions are tokens; a span is from its start up to, without, its end. *)
(* The lines of a document are judged once, when they are read.            *)
(***************************************************************************)
EXTENDS Lexical, Integers

CONSTANTS Lines,      \* the lines documents are made of
          Documents   \* sequences of lines

ASSUME LinesAssumption == Lines \subseteq Seq(STRING)
ASSUME DocumentsAssumption == Documents \subseteq Seq(Lines)

\* Words: a declaration, a control word, names, a capitalised word, a Turkish
\* word, an upper-case letter in the middle, an underscore; http stands for
\* every literal known by its own characters.
TokenBytes ==
  [fn |-> <<"f", "n">>, if |-> <<"i", "f">>, foo |-> <<"f", "o", "o">>, Foo |-> <<"F", "o", "o">>,
   uc |-> <<"C3", "BC", "n">>, aB |-> <<"a", "B">>, a_b |-> <<"a", "_", "b">>, lt |-> <<"l", "t">>,
   http |-> <<"h", "t", "t", "p", ":", "/", "/", "w", ".", "a">>, arrow |-> <<"=", ">">>,
   comment |-> <<"/", "/">>, include |-> <<"i", "n", "l", "u">>]
BytesOf(token) == IF token \in DOMAIN TokenBytes THEN TokenBytes[token] ELSE <<token>>

Names == {"fn", "if", "foo", "Foo", "aB", "a_b", "lt", "include"}  \* ASCII identifiers
Words == Names \cup {"uc"}
CodeNames == Names \ {"Foo"}                                 \* named the way code names
Openers == {"{", "(", "["}
Delimiters == {"{", "}", "[", "]", "(", ")", ",", ";"}
CodePunctuation == {"=", "arrow", ";", "{", "}", "(", ")", "[", "]", "<", ">", ":"}

Has(line, tokens) == \E i \in DOMAIN line : line[i] \in tokens
Starts(line, prefix) == IsPrefix(prefix, line)
Ends(line, tokens) == line # <<>> /\ Last(line) \in tokens
From(line, i) == SubSeq(line, i, Len(line))

\* trim_start and trim_ascii.
First(line) == IF \E i \in DOMAIN line : line[i] # " "
               THEN CHOOSE i \in DOMAIN line : line[i] # " " /\ \A j \in 1..(i - 1) : line[j] = " "
               ELSE Len(line) + 1
TrimStart(line) == From(line, First(line))
Trim(line) == Reverse(TrimStart(Reverse(TrimStart(line))))

\* The position behind the tokens of a set that follow i.
Behind(line, i, tokens) ==
  CHOOSE j \in i..(Len(line) + 1) :
    /\ j = Len(line) + 1 \/ line[j] \notin tokens
    /\ \A k \in i..(j - 1) : line[k] \in tokens
IndexOf(line, token) == CHOOSE i \in DOMAIN line :
                          line[i] = token /\ \A j \in 1..(i - 1) : line[j] # token

----------------------------------------------------------------------------
(* Shapes.                                                                 *)

\* A declaration, or a control word with a block, condition or colon.
StartsWithKeyword(line) ==
  \/ line[1] = "fn"
  \/ line[1] = "if" /\ Has(line, {"{", ":", ";", "(", "arrow"})

LooksLikeAssignment(line) ==
  LET lhs == Behind(line, 2, Names \cup {"0", "1", ".", "[", "]", "-"})
      operator == Behind(line, lhs, {" "})
  IN /\ line[1] \in Names
     /\ operator + 1 <= Len(line) /\ line[operator] = "=" /\ line[operator + 1] # "="

LooksLikeToml(line) ==
  /\ LooksLikeAssignment(line)
  /\ LET rhs == TrimStart(From(line, IndexOf(line, "=") + 1))
     IN rhs # <<>> /\ rhs[1] \in {"quotation", "'", "[", "{", "+", "-", "0", "1"}

LooksLikeJsonKey(line) ==
  LET rest == Tail(line)
  IN Has(rest, {"quotation"})
       /\ Starts(TrimStart(From(rest, IndexOf(rest, "quotation") + 1)), <<":">>)

LooksLikeSection(line) ==
  LET inner == SubSeq(line, 2, Len(line) - 1)
  IN Ends(line, {"]"}) /\ inner # <<>> /\ Chars(inner) \subseteq Names \cup {".", ":", "-", "0", "1"}

LooksLikeMarkup(line) == Len(line) > 1 /\ line[2] \in Names /\ Has(line, {">"})
LooksLikeCss(line) == Has(line, {"{"}) /\ Has(line, Names)

\* What a line of data or markup looks like, by its first token.
Structured(line) ==
  CASE line[1] = "quotation" -> LooksLikeJsonKey(line)
    [] line[1] = "{" -> Has(line, {":"}) /\ Has(line, {"quotation"})
    [] line[1] = "[" -> LooksLikeSection(line)
    [] line[1] = "<" -> LooksLikeMarkup(line)
    [] line[1] \in {".", "#", "@"} -> LooksLikeCss(line)
    [] OTHER -> LooksLikeToml(line)

HardStart(line) == Starts(line, <<"comment">>) \/ Starts(line, <<"#", "!">>) \/ Starts(line, <<"#", "[">>)
                     \/ Starts(line, <<"#", "include">>)

\* A name of code with arguments, and behind them nothing, a block or an end.
LooksLikeCall(line) ==
  \E i \in DOMAIN line :
    /\ line[i] \in CodeNames \/ (line[i] \in Names /\ i > 1 /\ line[i - 1] \in {".", ":"})
    /\ LET open == Behind(line, i + 1, {" "})
           close == Behind(line, open, STRING \ {")"})
       IN /\ open <= Len(line) /\ line[open] = "(" /\ close <= Len(line)
          /\ LET suffix == TrimStart(From(line, close + 1))
             IN suffix = <<>> \/ suffix[1] \in {"{", ";", "arrow", "?"}

Operators(line) == Min({2, Cardinality({i \in DOMAIN line : line[i] = "arrow"})})

\* prose_stats.
WordsOf(token) == CASE token = "http" -> 3 [] token = "a_b" -> 2 [] token \in Words \ {"a_b"} -> 1 [] OTHER -> 0
MarksOf(token) == CASE token = "http" -> 4 [] token \in {"arrow", "comment"} -> 2
                    [] token \in (Words \ {"a_b"}) \cup {" ", "0", "1"} -> 0 [] OTHER -> 1
WordCount(line) == FoldLeft(LAMBDA n, token : n + WordsOf(token), 0, line)
MarkCount(line) == FoldLeft(LAMBDA n, token : n + MarksOf(token), 0, line)
IsTurkish(line) == Has(line, {"uc"})

----------------------------------------------------------------------------
(* analyze_code_line: how strongly a line is code, whether it is code on   *)
(* its own, and whether it may continue code next to it.                   *)

Strong == 7
Moderate == 3
Adjacent == 8

Points(holds, n) == IF holds THEN n ELSE 0

ProsePenalty(line) ==
  LET words == WordCount(line)
  IN Points(words >= 12, 10) + Points(words \in 9..11, 6)
       + (IF words >= 4 /\ IsTurkish(line) THEN IF words >= 8 THEN 6 ELSE 3
          ELSE Points(words >= 6 /\ MarkCount(line) <= 2, 3))
       + Points(Ends(line, {".", "!", "?"}), 2)

Score(line, hard) ==
  LET parens == Has(line, {"("}) /\ Has(line, {")"})
      score == Points(hard, 4) + 2 * Operators(line) + Points(LooksLikeAssignment(line), 4)
                 + Points(parens /\ LooksLikeCall(line), 6) + Points(Has(line, {";"}), 2)
                 + Points(Has(line, {"{", "}"}), 1) + Points(parens, 1)
                 + Points(Has(line, {"["}) /\ Has(line, {"]"}), 1)
                 + Points(Has(line, {"a_b"}), 1) + Points(Has(line, {"aB"}), 1)
  IN IF ~hard /\ score >= Moderate THEN score - ProsePenalty(line) ELSE score

KeywordPrefix(line) == line[1] \in {"fn", "if"} /\ Len(line) > 1 /\ line[2] = " "
IsCandidate(line) == KeywordPrefix(line) \/ HardStart(line)
                       \/ Has(line, CodePunctuation \cup {"a_b", "#", "comment", "http"})

AnalyzeLine(raw) ==
  LET line == Trim(raw)
      Nothing(weak) == [score |-> 0, hard |-> FALSE, weak |-> weak]
      hard == HardStart(line) \/ StartsWithKeyword(line) \/ Structured(line)
  IN CASE line = <<>> -> Nothing(TRUE)
       [] line # <<>> /\ line[1] = "backtick"
            /\ (Ends(line, {"backtick"}) \/ Starts(line, <<"backtick", "backtick", "backtick">>)) ->
            Nothing(FALSE)
       [] line # <<>> /\ ~IsCandidate(line) -> Nothing(Starts(line, <<"*", " ">>))
       [] OTHER ->
            [score |-> Score(line, hard), hard |-> hard,
             weak |-> \/ Chars(line) \subseteq Delimiters
                      \/ Starts(line, <<"comment">>) \/ Starts(line, <<"*", " ">>) \/ Starts(line, <<"#", " ">>)
                      \/ raw[1] = " " /\ Has(line, CodePunctuation)
                      \/ Ends(line, Openers \cup {",", ";", "arrow"})
                      \/ Structured(line)]

IsBlank(raw) == Trim(raw) = <<>>

\* line_is_natural_prose.
IsProse(raw) ==
  LET line == Trim(raw)
  IN /\ line # <<>>
     /\ ~KeywordPrefix(line) /\ ~HardStart(line) /\ line[1] # "<"
     /\ ~Starts(line, <<"*", " ">>) /\ ~Starts(line, <<"#", " ">>)
     /\ ~Ends(line, {";", "{", "}", ",", "arrow"})
     /\ \A i \in 2..(Len(line) - 1) : ~(line[i - 1] = " " /\ line[i] = "=" /\ line[i + 1] = " ")
     /\ \/ IsTurkish(line) /\ WordCount(line) >= 2
        \/ WordCount(line) >= 8
        \/ WordCount(line) >= 1 /\ MarkCount(line) <= 8 /\ Ends(line, {".", "!", "?"})
----------------------------------------------------------------------------
(* A call of auto_code_spans.                                              *)

VARIABLES doc,       \* the lines
          judged,    \* hints, score, hard, weak, prose, blank of each line (code_lines)
          pass,      \* what comes next
          index,     \* the line the continuation pass is at
          selected,  \* the lines taken as code
          spans      \* what the passes so far found

vars == <<doc, judged, pass, index, selected, spans>>

Passes == {"explicit", "strong", "adjacent", "dense", "continue", "emit", "artifacts", "merge", "done"}

----------------------------------------------------------------------------
(* The document as tokens, its line starts, and the scanner's hints.       *)

\* The text of the first k lines.
Before == LET text[k \in 0..Len(doc)] == IF k = 0 THEN <<>> ELSE text[k - 1] \o doc[k] \o <<"\n">>
          IN text
Text == Before[Len(doc)]
LineStart(k) == Len(Before[k - 1]) + 1
LineEnd(k) == Len(Before[k]) + 1

\* A line as the scanner reads it, and the hint tracker behind its k-th unit.
Bytes(line) ==
  LET bytes[k \in 0..Len(line)] == IF k = 0 THEN <<>> ELSE bytes[k - 1] \o BytesOf(line[k])
  IN bytes[Len(line)] \o <<"\n">>
Scan(raw) ==
  LET scan[k \in 0..Len(raw)] ==
        IF k = 0 THEN [index |-> 1, tracker |-> NewTracker]
        ELSE LET s == scan[k - 1]
                 unit == UnitAt(raw, s.index)
             IN IF s.index > Len(raw) THEN s
                ELSE [index |-> unit.end,
                      tracker |-> Observe(s.tracker, unit.kind, SubSeq(raw, s.index, unit.end - 1))]
  IN scan

LineHints == [l \in Lines |-> Finish(Scan(Bytes(l))[Len(Bytes(l))].tracker)]
Hint(name) == \E k \in DOMAIN doc : judged[k].hints[name]

Judged == [l \in Lines |->
  [hints |-> LineHints[l], analysis |-> AnalyzeLine(l), prose |-> IsProse(l), blank |-> IsBlank(l)]]

TypeOK ==
  /\ doc \in Seq(Lines)
  /\ judged = [k \in DOMAIN doc |-> Judged[doc[k]]]
  /\ pass \in Passes
  /\ index \in 0..(Len(doc) + 1)
  /\ selected \subseteq DOMAIN doc
  /\ \A s \in spans : s[1] \in 1..(Len(Text) + 1) /\ s[2] \in 1..(Len(Text) + 1)

Init ==
  /\ doc \in Documents
  /\ judged = [k \in DOMAIN doc |-> Judged[doc[k]]]
  /\ pass = "explicit"
  /\ index = 0
  /\ selected = {}
  /\ spans = {}

----------------------------------------------------------------------------
(* explicit_code_spans: a run of three or more backticks closes at a run   *)
(* at least as long, any other backtick at the next one.                   *)

RunLength(text, i) == Behind(text, i, {"backtick"}) - i

\* The regions from i on.
RegionsFrom(text) ==
  LET from[i \in 1..(Len(text) + 1)] ==
        IF i > Len(text) THEN {}
        ELSE LET run == RunLength(text, i)
                 delimiter == IF run >= 3 THEN run ELSE 1
                 closing == {j \in (i + delimiter)..Len(text) : RunLength(text, j) >= delimiter}
             IN IF run = 0 THEN from[i + 1]
                ELSE IF closing = {} THEN from[i + run]
                ELSE {<<i, Min(closing) + delimiter>>} \cup from[Min(closing) + delimiter]
  IN from
ExplicitSpans == RegionsFrom(Text)[1]

Explicit ==
  /\ pass = "explicit"
  /\ spans' = IF Hint("backtick") THEN ExplicitSpans ELSE {}
  /\ pass' = IF Hint("unmarked") THEN "strong" ELSE "artifacts"
  /\ UNCHANGED <<doc, judged, index, selected>>

----------------------------------------------------------------------------
(* inferred_code_spans.                                                    *)

ScoreOf(k) == judged[k].analysis.score
Hard(k) == judged[k].analysis.hard
Full == {k \in DOMAIN doc : ~judged[k].blank}
IsScript == Full # {} /\ Starts(Trim(doc[Min(Full)]), <<"#", "!">>)

\* A script is code from its first byte to its last; otherwise every strong
\* line is an anchor.
SelectStrong ==
  /\ pass = "strong"
  /\ IF IsScript
     THEN /\ spans' = spans \cup {<<1, Len(Text) + 1>>}
          /\ pass' = "artifacts"
          /\ UNCHANGED selected
     ELSE /\ selected' = {k \in DOMAIN doc : Hard(k) \/ ScoreOf(k) >= Strong}
          /\ pass' = "adjacent"
          /\ UNCHANGED spans
  /\ UNCHANGED <<doc, judged, index>>

\* Two moderate lines in a row are code together.
Pairs == {k \in 1..(Len(doc) - 1) :
            /\ ScoreOf(k) >= Moderate /\ ScoreOf(k + 1) >= Moderate
            /\ ScoreOf(k) + ScoreOf(k + 1) >= Adjacent}

SelectAdjacent ==
  /\ pass = "adjacent"
  /\ selected' = selected \cup Pairs \cup {k + 1 : k \in Pairs}
  /\ pass' = "dense"
  /\ UNCHANGED <<doc, judged, index, spans>>

\* Where a third of the lines are anchors, all between the first and the
\* last but prose is code.
Anchors == {k \in DOMAIN doc : Hard(k) \/ ScoreOf(k) >= Moderate}
IsDense == Cardinality(Anchors) >= 3 /\ Cardinality(Anchors) * 100 >= Cardinality(Full) * 35
SafeContinuation(k) == judged[k].analysis.weak /\ ~judged[k].prose

SelectDense ==
  /\ pass = "dense"
  /\ selected' = IF IsDense
                 THEN selected \cup {k \in Min(Anchors)..Max(Anchors) : SafeContinuation(k) \/ ~judged[k].prose}
                 ELSE selected
  /\ pass' = "continue"
  /\ index' = 1
  /\ UNCHANGED <<doc, judged, spans>>

\* From each line selected by now, up to two continuation lines backward and
\* forward.  A line taken forward is a line to continue from in its turn.
Distance == 2
\* Fault: a line that is no continuation is stepped over.
ReachOver(step) == {k \in DOMAIN doc : step * (k - index) \in 1..Distance /\ SafeContinuation(k)}

Reach(step) == {k \in DOMAIN doc :
  /\ step * (k - index) \in 1..Distance
  /\ \A j \in DOMAIN doc : step * (j - index) \in 1..(step * (k - index)) => SafeContinuation(j)}

Continue ==
  /\ pass = "continue"
  /\ index <= Len(doc)
  /\ selected' = IF index \in selected THEN selected \cup Reach(-1) \cup Reach(1) ELSE selected
  /\ index' = index + 1
  /\ UNCHANGED <<doc, judged, pass, spans>>

ContinueDone ==
  /\ pass = "continue"
  /\ index > Len(doc)
  /\ pass' = "emit"
  /\ UNCHANGED <<doc, judged, index, selected, spans>>

\* Fault: the inferred spans take the place of the explicit ones.
EmitAnew ==
  /\ pass = "emit"
  /\ spans' =
       {<<LineStart(r[1]), LineEnd(r[2])>> : r \in {r \in selected \X selected :
          /\ r[1] <= r[2] /\ r[1]..r[2] \subseteq selected
          /\ r[1] - 1 \notin selected /\ r[2] + 1 \notin selected}}
  /\ pass' = "artifacts"
  /\ UNCHANGED <<doc, judged, index, selected>>

\* A span for every run of selected lines.
Emit ==
  /\ pass = "emit"
  /\ spans' = spans \cup
       {<<LineStart(r[1]), LineEnd(r[2])>> : r \in {r \in selected \X selected :
          /\ r[1] <= r[2] /\ r[1]..r[2] \subseteq selected
          /\ r[1] - 1 \notin selected /\ r[2] + 1 \notin selected}}
  /\ pass' = "artifacts"
  /\ UNCHANGED <<doc, judged, index, selected>>

----------------------------------------------------------------------------
(* inline_artifact_spans: chunks between separators, without the brackets  *)
(* and stops around them, that are a literal or an assignment to a name    *)
(* built of parts.                                                         *)

Separators == {" ", "\n", "backtick"}
Around == {"(", "[", "{", "<", "quotation", "'"}
Behinds == {".", ",", ";", "!", "?", ")", "]", "}", ">", "quotation", "'"}

IsLiteral(chunk) ==
  \/ chunk[1] = "http"
  \/ Len(chunk) >= 3 /\ chunk[1] = "a_b" /\ chunk[2] = "=" /\ chunk[3] # "="

ArtifactSpans ==
  LET text == Text
      Chunks == {c \in (DOMAIN text) \X (DOMAIN text) :
        /\ c[1] <= c[2]
        /\ \A i \in c[1]..c[2] : text[i] \notin Separators
        /\ c[1] = 1 \/ text[c[1] - 1] \in Separators
        /\ c[2] = Len(text) \/ text[c[2] + 1] \in Separators}
      left(c) == Behind(SubSeq(text, 1, c[2]), c[1], Around)
      right(c) == c[2] + 1 - (Behind(Reverse(SubSeq(text, left(c), c[2])), 1, Behinds) - 1)
  IN {<<left(c), right(c)>> : c \in {c \in Chunks :
        left(c) < right(c) /\ IsLiteral(SubSeq(text, left(c), right(c) - 1))}}

Artifacts ==
  /\ pass = "artifacts"
  /\ spans' = IF Hint("artifact") \/ Hint("unmarked") THEN spans \cup ArtifactSpans ELSE spans
  /\ pass' = "merge"
  /\ UNCHANGED <<doc, judged, index, selected>>

\* merge_spans: spans that touch or overlap become one.
MergeSpans(found) ==
  LET covered == UNION {s[1]..(s[2] - 1) : s \in found}
      \* Positions that a span covers together with the one before.
      joined == {i \in covered : i - 1 \in covered}
      starts == covered \ joined
  IN {<<i, Min({j \in i..(Max(covered) + 1) : j \notin covered})>> : i \in starts}

Merge ==
  /\ pass = "merge"
  /\ spans' = MergeSpans(spans)
  /\ pass' = "done"
  /\ UNCHANGED <<doc, judged, index, selected>>

Next == \/ Explicit \/ SelectStrong \/ SelectAdjacent \/ SelectDense \/ Continue \/ ContinueDone
        \/ Emit \/ Artifacts \/ Merge

Spec == Init /\ [][Next]_vars

----------------------------------------------------------------------------
(* Properties.                                                             *)

Done == pass = "done"
Covered == UNION {s[1]..(s[2] - 1) : s \in spans}
LineTokens(k) == LineStart(k)..(LineEnd(k) - 1)

\* code.rs:20: the spans that auto_code_spans returns are merged and do not
\* overlap or touch, and each is part of the document; split_units walks
\* them side by side with the units.
SpansAreApart ==
  Done => /\ \A s \in spans : s[1] < s[2] /\ s[2] <= Len(Text) + 1
          /\ \A s, r \in spans : s # r => s[2] < r[1] \/ r[2] < s[1]

\* code.rs:15: explicit backtick regions are always retained, and what is
\* between two of them is not lost to a region that never closes.
ExplicitRetained ==
  Done => \A s \in ExplicitSpans : s[1]..(s[2] - 1) \subseteq Covered

\* A line of prose is code for what it is or for its neighbour, never because
\* code around it spread: it has the score of an anchor itself.
ProseStaysProse ==
  \A k \in selected : judged[k].prose => Hard(k) \/ ScoreOf(k) >= Moderate

\* With the hint for unmarked code, a strong line ends up in a span whole.
StrongLinesAreCode ==
  (Done /\ Hint("unmarked")) =>
    \A k \in DOMAIN doc : (Hard(k) \/ ScoreOf(k) >= Strong) => LineTokens(k) \subseteq Covered

\* A line is code as a whole or only where it has a region or a literal of
\* its own: a block of code never begins or ends within a line.
BlocksAreLines ==
  Done => \A k \in DOMAIN doc :
    \/ LineTokens(k) \subseteq Covered
    \/ LineTokens(k) \cap Covered \subseteq
         UNION {s[1]..(s[2] - 1) : s \in ExplicitSpans \cup ArtifactSpans}

\* The lines that found a block: strong ones, pairs of moderate ones and, in a
\* dense document, what is not prose between the first and the last anchor.
Established ==
  {k \in DOMAIN doc : Hard(k) \/ ScoreOf(k) >= Strong} \cup Pairs \cup {k + 1 : k \in Pairs}
BlockLines ==
  Established \cup (IF IsDense THEN {k \in Min(Anchors)..Max(Anchors) : SafeContinuation(k) \/ ~judged[k].prose}
                    ELSE {})

\* Continuation lines behind a block, as many as follow one another, and at
\* most two before one.
AttachedBehind ==
  {k \in DOMAIN doc : \E a \in BlockLines : a < k /\ \A j \in (a + 1)..k : SafeContinuation(j)}
AttachedBefore ==
  {k \in DOMAIN doc : \E a \in BlockLines : a - k \in 1..Distance /\ \A j \in k..(a - 1) : SafeContinuation(j)}

\* The loop of code.rs:409 changes the list of selected lines it walks.  What
\* it makes of it is told without it: the blocks, two continuation lines
\* before each and every unbroken one behind, no line less and none more.
SpreadsOverContinuations ==
  /\ selected \subseteq BlockLines \cup AttachedBehind \cup AttachedBefore
  /\ pass = "emit" => selected = BlockLines \cup AttachedBehind \cup AttachedBefore

\* The documentation of auto_code_spans (code.rs:13): strong lines and pairs of
\* moderate ones establish a block, and at most two continuation lines are
\* attached on either side.  Dense documents are left out, which it does not
\* speak of.
AtMostTwoAttached ==
  ~IsDense => \A k \in selected : \E e \in Established : k - e \in -Distance..Distance

\* The spans are those of the document: apart from each other, with every
\* explicit region inside one, and inferred blocks made of whole lines.
SpansExact == TypeOK /\ SpansAreApart /\ ExplicitRetained /\ BlocksAreLines

\* Which lines become code: every line with a strong score, no prose but what
\* has the score of an anchor, and exactly the continuation lines of blocks.
LinesAreClassified == StrongLinesAreCode /\ ProseStaysProse /\ SpreadsOverContinuations
=============================================================================
