------------------------------- MODULE Lexical -------------------------------
(***************************************************************************)
(* The lexical rules of scanner.rs as operators on byte strings.  A byte   *)
(* string is a sequence of symbols: an ASCII byte is its character, any    *)
(* other byte its two hexadecimal digits.  Of the scalars beyond ASCII the *)
(* model knows one for every class the rules tell apart (Scalars); every   *)
(* other run of such bytes is invalid UTF-8.                               *)
(*                                                                         *)
(* Offsets start at 1 and an end is the offset behind the last byte.       *)
(***************************************************************************)
EXTENDS Naturals, Sequences, SequencesExt

CONSTANT CodeWords   \* the words (byte strings) that start a line of code

Kinds == {"Whitespace", "LineBreak", "Word", "Number", "Punctuation", "Symbol",
          "Control", "Opaque"}

Chars(s) == {s[i] : i \in DOMAIN s}
LowerLetters == {"a", "b", "e", "f", "h", "i", "l", "n", "o", "p", "t", "u", "w", "x"}
UpperLetters == {"B", "E", "F", "O", "T", "X"}
Letters == LowerLetters \cup UpperLetters \cup {"_"}
Digits == {"0", "1", "2"}
Blanks == {" ", "\t"}
Controls == {"NUL", "DEL"}
AsciiPunctuation == {".", ",", ";", ":", "!", "?", "'", "quotation", "(", ")", "[", "]",
                     "{", "}", "<", ">", "-", "/", "backslash", "backtick"}
AsciiSymbols == {"=", "*", "&", "|", "+", "%", "^", "@", "#", "$", "~"}
Ascii == Letters \cup Digits \cup Blanks \cup Controls \cup AsciiPunctuation
           \cup AsciiSymbols \cup {"\r", "\n"}

----------------------------------------------------------------------------
(* Scalars beyond ASCII: as the char predicates class them, and their names.    *)

Scalars ==
  {[bytes |-> <<"C3", "BC">>,             kind |-> "Word",        name |-> "u umlaut"],
   [bytes |-> <<"CC", "87">>,             kind |-> "Word",        name |-> "combining dot"],
   [bytes |-> <<"D9", "A3">>,             kind |-> "Number",      name |-> "arabic three"],
   [bytes |-> <<"D9", "AB">>,             kind |-> "Symbol",      name |-> "decimal separator"],
   [bytes |-> <<"E2", "80", "99">>,       kind |-> "Punctuation", name |-> "quote"],
   [bytes |-> <<"E2", "80", "90">>,       kind |-> "Punctuation", name |-> "hyphen"],
   [bytes |-> <<"E2", "80", "8D">>,       kind |-> "Punctuation", name |-> "joiner"],
   [bytes |-> <<"E2", "80", "A8">>,       kind |-> "LineBreak",   name |-> "line separator"],
   [bytes |-> <<"C2", "A0">>,             kind |-> "Whitespace",  name |-> "no-break space"],
   [bytes |-> <<"C2", "80">>,             kind |-> "Control",     name |-> "control"],
   [bytes |-> <<"F0", "9F", "98", "80">>, kind |-> "Symbol",      name |-> "smiley"]}

NoScalar == [bytes |-> <<>>, kind |-> "Opaque", name |-> "none"]

\* The scalar that starts at i: a lead byte with all its continuation bytes.
DecodeUtf8(raw, i) ==
  LET found == {s \in Scalars : IsPrefix(s.bytes, SubSeq(raw, i, Len(raw)))}
  IN IF found = {} THEN NoScalar ELSE CHOOSE s \in found : TRUE

----------------------------------------------------------------------------
(* Operators and single characters.                                        *)

\* Pairs that take a third "=", and pairs that do not.
LongOperators == {<<"=", "=">>, <<"!", "=">>, <<"<", "<">>, <<">", ">">>, <<"*", "*">>,
                  <<"/", "/">>, <<"?", "?">>}
ShortOperators ==
  {<<c, "=">> : c \in {"<", ">", "+", "-", "*", "/", "%", "&", "|", "^"}}
    \cup {<<"-", ">">>, <<"=", ">">>, <<":", ":">>, <<"&", "&">>, <<"|", "|">>, <<"+", "+">>,
          <<"-", "-">>, <<"/", "*">>, <<"*", "/">>, <<"?", ".">>}

\* Fault: an operator is seen only where a third byte follows it.
OperatorWidthInside(raw, i) ==
  IF i + 2 > Len(raw) THEN 0
  ELSE LET pair == <<raw[i], raw[i + 1]>>
       IN IF pair \in LongOperators THEN IF raw[i + 2] = "=" THEN 3 ELSE 2
          ELSE IF pair \in ShortOperators THEN 2 ELSE 0

\* 0 where no operator starts.
OperatorWidth(raw, i) ==
  LET pair == IF i < Len(raw) THEN <<raw[i], raw[i + 1]>> ELSE <<raw[i]>>
  IN IF pair \in LongOperators
     THEN IF i + 2 <= Len(raw) /\ raw[i + 2] = "=" THEN 3 ELSE 2
     ELSE IF pair \in ShortOperators THEN 2 ELSE 0

ClassifyAscii(raw, i) ==
  LET c == raw[i]
      Of(kind) == [kind |-> kind, width |-> 1]
  IN CASE c = "\r" -> [kind |-> "LineBreak",
                       width |-> IF i < Len(raw) /\ raw[i + 1] = "\n" THEN 2 ELSE 1]
       [] c = "\n" -> Of("LineBreak")
       [] c \in Blanks -> Of("Whitespace")
       [] c \in Controls -> Of("Control")
       [] c \in Letters -> Of("Word")
       [] c \in Digits -> Of("Number")
       [] c \in AsciiPunctuation -> Of("Punctuation")
       [] OTHER -> Of("Symbol")

\* The kind of what starts at i, and how many bytes that is: an operator, an
\* ASCII character, a scalar, or one byte that is no text.
Classify(raw, i) ==
  LET operator == OperatorWidth(raw, i)
      scalar == DecodeUtf8(raw, i)
  IN IF raw[i] \in Ascii
     THEN IF operator > 0 THEN [kind |-> "Symbol", width |-> operator]
          ELSE ClassifyAscii(raw, i)
     ELSE IF scalar = NoScalar THEN [kind |-> "Opaque", width |-> 1]
          ELSE [kind |-> scalar.kind, width |-> Len(scalar.bytes)]

KindAt(raw, i) == Classify(raw, i).kind

\* A scalar's name: an ASCII character names itself.
NameAt(raw, i) == IF raw[i] \in Ascii THEN raw[i] ELSE DecodeUtf8(raw, i).name
WidthAt(raw, i) == IF raw[i] \in Ascii THEN 1 ELSE Len(DecodeUtf8(raw, i).bytes)

----------------------------------------------------------------------------
(* Runs.  width[j] is how far a run reaches on from j, 0 at its end.       *)

RunEnds(raw, width) ==
  LET end[j \in 1..(Len(raw) + 1)] ==
        IF j > Len(raw) THEN j
        ELSE LET w == width[j] IN IF w = 0 THEN j ELSE end[j + w]
  IN end
Extend(raw, i, width) == RunEnds(raw, width)[i]

KindWidths(raw, kind) ==
  [j \in DOMAIN raw |-> LET c == Classify(raw, j) IN IF c.kind = kind THEN c.width ELSE 0]

\* Fault: invalid bytes extend over every byte that is not ASCII.
ConsumeKindByByte(raw, i, kind) ==
  Extend(raw, i, [j \in DOMAIN raw |->
    LET c == Classify(raw, j)
    IN IF c.kind = kind THEN c.width ELSE IF kind = "Opaque" /\ raw[j] \notin Ascii THEN 1 ELSE 0])

\* Whitespace, line breaks, controls, invalid bytes and punctuation extend
\* over their kind; punctuation ends where an operator starts.
ConsumeKind(raw, i, kind) == Extend(raw, i, KindWidths(raw, kind))

\* Symbols take operators in, and a joiner with the symbol behind it.
SymbolWidths(raw) ==
  [j \in DOMAIN raw |->
    LET c == Classify(raw, j)
        next == j + c.width
    IN IF c.kind = "Symbol" THEN c.width
       ELSE IF NameAt(raw, j) = "joiner" /\ next <= Len(raw) /\ KindAt(raw, next) = "Symbol"
       THEN c.width + Classify(raw, next).width ELSE 0]
ConsumeSymbols(raw, i) == Extend(raw, i, SymbolWidths(raw))

IsWordAt(raw, i) == i <= Len(raw) /\ KindAt(raw, i) = "Word"
IsNumberAt(raw, i) == i <= Len(raw) /\ KindAt(raw, i) = "Number"

WordConnectors == {"'", "quote", "-", "hyphen"}
NumberSeparators == {".", ",", ":", "/", "-", "decimal separator"}

\* Words take digits in, and a connector with a letter or digit behind it.
WordWidths(raw) ==
  [j \in DOMAIN raw |->
    LET width == WidthAt(raw, j)
    IN IF IsWordAt(raw, j) \/ IsNumberAt(raw, j) THEN width
       ELSE IF NameAt(raw, j) \in WordConnectors
                 /\ (IsWordAt(raw, j + width) \/ IsNumberAt(raw, j + width))
       THEN width ELSE 0]
ConsumeWord(raw, i) == Extend(raw, i, WordWidths(raw))

\* Numbers take separators in that a digit follows; an apostrophe with a
\* letter behind it turns the rest into a word.
NumberWidths(raw) ==
  [j \in DOMAIN raw |->
    LET width == WidthAt(raw, j)
    IN IF IsNumberAt(raw, j) THEN width
       ELSE IF NameAt(raw, j) \in NumberSeparators /\ IsNumberAt(raw, j + width)
       THEN width ELSE 0]
ConsumeNumber(raw, i) ==
  LET end == Extend(raw, i, NumberWidths(raw))
  IN IF /\ end <= Len(raw)
        /\ NameAt(raw, end) \in {"'", "quote"}
        /\ IsWordAt(raw, end + WidthAt(raw, end))
     THEN ConsumeWord(raw, end + WidthAt(raw, end))
     ELSE end

\* The unit that starts at i: its kind and its end.
UnitAt(raw, i) ==
  LET c == Classify(raw, i)
      next == i + c.width
  IN [kind |-> c.kind, start |-> i,
      end |-> CASE c.kind = "Word" -> ConsumeWord(raw, next)
                [] c.kind = "Number" -> ConsumeNumber(raw, next)
                [] c.kind = "Symbol" -> ConsumeSymbols(raw, next)
                [] OTHER -> ConsumeKind(raw, next, c.kind)]

-----------------------------------------------------------------------------
(***************************************************************************)
(* CodeHintTracker: what the scanner notes, unit by unit, about code in a  *)
(* document.  The three hints decide which detectors of code.rs run at     *)
(* all; the other fields remember the current line.  Once unmarked code is *)
(* suspected the code leaves those as they are and reads none of them      *)
(* again, so they are reset here.                                          *)
(***************************************************************************)

NewLine == [first |-> TRUE, call |-> FALSE, member |-> FALSE, quote |-> 0, section |-> 0,
            escaped |-> 0, hash |-> FALSE, number |-> FALSE, zero |-> FALSE]
NoHints == [unmarked |-> FALSE, artifact |-> FALSE, backtick |-> FALSE]
NewTracker == [hints |-> NoHints, line |-> NewLine]

Trackers ==
  [hints : [unmarked : BOOLEAN, artifact : BOOLEAN, backtick : BOOLEAN],
   line : [first : BOOLEAN, call : BOOLEAN, member : BOOLEAN, quote : 0..2, section : 0..2,
           escaped : 0..2, hash : BOOLEAN, number : BOOLEAN, zero : BOOLEAN]]

Suspect(t) == [hints |-> [t.hints EXCEPT !.unmarked = TRUE], line |-> NewLine]

StrongSignals == {<<"=", ">">>, <<":", ":">>, <<"-", ">">>, <<"+", "=">>, <<"-", "=">>, <<"*", "=">>,
                  <<"/", "=">>, <<"%", "=">>, <<"=", "=">>, <<"!", "=">>, <<"<", "=">>, <<">", "=">>,
                  <<"&", "&">>, <<"|", "|">>, <<"?", "?">>, <<"?", ".">>, <<":", "=">>, <<"<", "<">>,
                  <<">", ">">>}
IsStrongSignal(bytes) == Chars(bytes) \cap {"{", "}"} # {} \/ bytes \in StrongSignals

IsTimeTail(bytes) == Len(bytes) >= 3 /\ bytes[1] \in {"T", "t"} /\ {bytes[2], bytes[3]} \subseteq Digits

\* The letters behind a number: a radix, an exponent or a type suffix.
IsNumericTail(bytes, zero) ==
  LET rest == Tail(bytes)
      exponent == IF rest # <<>> /\ rest[1] \in {"+", "-"} THEN Tail(rest) ELSE rest
  IN IF zero /\ bytes[1] \in {"x", "X", "b", "B", "o", "O"}
     THEN rest # <<>> /\ Chars(rest) \subseteq Digits \cup {"a", "b", "e", "f", "B", "E", "F", "_"}
     ELSE IF bytes[1] \in {"e", "E"}
     THEN exponent # <<>> /\ Chars(exponent) \subseteq Digits \cup {"_"}
     ELSE bytes[1] \in {"f", "F", "i", "u"} /\ rest # <<>> /\ Chars(rest) \subseteq Digits

IsCodeLeadingWord(bytes) == bytes \in CodeWords

\* The bytes behind the first quotation mark of a unit; <<":">> ends a key.
HasQuote(bytes) == "quotation" \in Chars(bytes)
BehindQuote(bytes) == SubSeq(bytes, 1 + CHOOSE i \in DOMAIN bytes :
                               /\ bytes[i] = "quotation"
                               /\ \A j \in 1..(i - 1) : bytes[j] # "quotation", Len(bytes))
KeyState(suffix) == IF suffix = <<>> THEN 2 ELSE 0

HasScheme(bytes) == \E i \in 1..(Len(bytes) - 2) : SubSeq(bytes, i, i + 2) = <<":", "/", "/">>
Web == {<<"h", "t", "t", "p">>, <<"h", "t", "t", "p", "s">>, <<"w", "w", "w">>}

Mark(kind) == kind \in {"Symbol", "Punctuation"}

\* A unit that may belong to a URL, an address, an assignment or a timestamp.
IsArtifact(line, kind, bytes) ==
  \/ Mark(kind) /\ (Chars(bytes) \cap {"@", "="} # {} \/ HasScheme(bytes))
  \/ kind = "Word" /\ (bytes \in Web \/ (line.number /\ IsTimeTail(bytes)))

\* A unit that makes the line look like code.
IsSignal(line, kind, bytes) ==
  \/ line.quote = 2 /\ bytes = <<":">>
  \/ line.quote = 1 /\ Mark(kind) /\ HasQuote(bytes) /\ BehindQuote(bytes) = <<":">>
  \/ line.escaped = 2 /\ kind = "Punctuation" /\ ";" \in Chars(bytes)
  \/ kind = "Word" /\ \/ line.number /\ IsNumericTail(bytes, line.zero)
                      \/ line.first /\ IsCodeLeadingWord(bytes)
  \/ Mark(kind) /\ \/ line.first /\ \/ bytes[1] = "<"
                                    \/ bytes \in {<<"/", "/">>, <<"/", "*">>, <<"#", "!">>, <<"#", "[">>}
                   \/ bytes = <<"=">> /\ line.call
                   \/ IsStrongSignal(bytes)
                   \/ "(" \in Chars(bytes) /\ line.call
                   \/ line.hash /\ "!" \in Chars(bytes)
  \/ line.first /\ bytes[1] = "quotation" /\ HasQuote(Tail(bytes)) /\ BehindQuote(Tail(bytes)) = <<":">>

\* What a unit without a signal leaves behind.
Remember(line, kind, bytes) ==
  LET reset == kind \in {"Control", "Opaque"}
      quote == CASE line.quote = 2 \/ reset -> 0
                 [] line.quote = 1 /\ Mark(kind) /\ HasQuote(bytes) -> KeyState(BehindQuote(bytes))
                 [] OTHER -> line.quote
      section == CASE line.section # 1 \/ reset -> 0
                   [] Mark(kind) /\ Chars(bytes) = {"]"} -> 2
                   [] Mark(kind) /\ ~(Chars(bytes) \subseteq {".", ":", "-", "["}) -> 0
                   [] OTHER -> 1
  IN [first   |-> FALSE,
      call    |-> CASE kind = "Word" -> bytes[1] \in LowerLetters /\ (line.first \/ line.member)
                    [] Mark(kind) -> line.call /\ bytes \in {<<"!">>, <<".">>, <<":", ":">>}
                    [] OTHER -> FALSE,
      member  |-> Mark(kind) /\ bytes \in {<<".">>, <<":", ":">>},
      quote   |-> CASE line.first /\ bytes[1] = "quotation" /\ HasQuote(Tail(bytes)) ->
                         KeyState(BehindQuote(Tail(bytes)))
                    [] line.first /\ bytes[1] = "quotation" -> 1
                    [] OTHER -> quote,
      section |-> IF line.first /\ Chars(bytes) = {"["} THEN 1 ELSE section,
      escaped |-> CASE line.first /\ bytes = <<"&">> -> 1
                    [] line.escaped = 1 /\ kind = "Word" /\ bytes = <<"l", "t">> -> 2
                    [] OTHER -> 0,
      hash    |-> IF line.first THEN bytes[1] = "#" ELSE line.hash,
      number  |-> kind = "Number",
      zero    |-> kind = "Number" /\ bytes = <<"0">>]

\* Fault: only the first word of a line is looked for anew.
ObserveLineBreakKeeping(t) ==
  IF t.line.section = 2 THEN Suspect(t) ELSE [t EXCEPT !.line.first = TRUE]

\* CodeHintTracker::observe for line breaks, spaces and every other unit.
ObserveLineBreak(t) == IF t.line.section = 2 THEN Suspect(t) ELSE [t EXCEPT !.line = NewLine]

ObserveSpace(t) ==
  [t EXCEPT !.line.number = FALSE, !.line.zero = FALSE,
            !.line.section = IF @ = 1 THEN 0 ELSE @]

ObserveText(t, kind, bytes) ==
  LET noted == [t EXCEPT !.hints.backtick = @ \/ (kind = "Punctuation" /\ "backtick" \in Chars(bytes)),
                         !.hints.artifact = @ \/ IsArtifact(t.line, kind, bytes)]
  IN CASE t.hints.unmarked -> noted
       [] ~t.hints.unmarked /\ IsSignal(t.line, kind, bytes) -> Suspect(noted)
       [] OTHER -> [noted EXCEPT !.line = Remember(t.line, kind, bytes)]

Observe(t, kind, bytes) ==
  CASE kind = "LineBreak" -> ObserveLineBreak(t)
    [] kind = "Whitespace" -> ObserveSpace(t)
    [] OTHER -> ObserveText(t, kind, bytes)

\* CodeHintTracker::finish.
Finish(t) == [t.hints EXCEPT !.unmarked = @ \/ t.line.section = 2]
=============================================================================
