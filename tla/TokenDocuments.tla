--------------------------- MODULE TokenDocuments ---------------------------
(***************************************************************************)
(* Tokenized documents: how an analysis is laid over the bytes of a word   *)
(* (alignment.rs) and what a document has to satisfy before anything is    *)
(* written from it (lib.rs, nedo-format).                                  *)
(*                                                                         *)
(* A scalar is a name; a byte is a scalar and its place in it, so <<c, 2>> *)
(* is the second byte of a two-byte scalar c.  Offsets start at 1, a span  *)
(* [start, end] is without its end.                                        *)
(***************************************************************************)
EXTENDS Integers, SequencesExt

CONSTANT NONE   \* no analysis, no result

\* The scalars of the documents, in the order of their code points.
ScalarOrder == <<"\n", " ", "'", "-", ".", "0", ":", "=", "A", "I", "_", "a", "b", "c", "d", "i", "m", "n", "r", "s",
                 "a acute", "a hat", "dotless i", "s cedilla", "cedilla">>
TwoByte == {"a hat", "a acute", "dotless i", "s cedilla", "cedilla"}
Width(c) == IF c \in TwoByte THEN 2 ELSE 1
ScalarBytes(c) == [k \in 1..Width(c) |-> <<c, k>>]
Spell(scalars) == FlattenSeq([i \in DOMAIN scalars |-> ScalarBytes(scalars[i])])
WidthOf(scalars) == FoldLeft(LAMBDA n, c : n + Width(c), 0, scalars)

\* decode_scalar: the scalar whose bytes are all at i, or NONE.
DecodeScalar(raw, i) ==
  LET c == raw[i][1]
  IN IF IsPrefix(ScalarBytes(c), SubSeq(raw, i, Len(raw))) THEN c ELSE NONE

----------------------------------------------------------------------------
(* alignment.rs: the morphemes of an analysis are strings in lower case;   *)
(* the word has capitals, apostrophes, accents and dots.                   *)

Apostrophes == {"'"}
NormalizeChar(c) == CASE c = "A" -> "a" [] c = "I" -> "dotless i" [] c = "a hat" -> "a" [] OTHER -> c
ForeignToTurkish(c) == IF c = "a acute" THEN "a" ELSE c
Known(c) == IF c \in {"a", "b", "c", "d", "i", "m", "n", "r", "s", "dotless i", "s cedilla", ".", "-"} THEN c ELSE "?"
Mapped(chars, F(_)) == [i \in DOMAIN chars |-> F(chars[i])]

\* The word and the analysis agree as they are, with foreign accents
\* dropped, or with every character unknown to the lexicon turned to "?".
NormalizationMatches(actual, expected) ==
  LET foreign == Mapped(actual, ForeignToTurkish)
  IN expected \in {actual, foreign, Mapped(foreign, Known)}

IsDottedAbbreviation(token) ==
  LET stem == SelectSeq(SubSeq(token, 1, SelectInSeq(token \o <<"'">>, LAMBDA c : c \in Apostrophes) - 1),
                        LAMBDA c : c # ".")
  IN /\ Len(stem) < Len(token) /\ stem # <<>>
     /\ \A i \in DOMAIN stem : stem[i] \notin {"-", "0"}
     /\ \E i \in DOMAIN token : token[i] = "." /\ \A j \in 1..(i - 1) : token[j] \notin Apostrophes

\* The scalars of a word with the span each takes, connectors apart.
Placed(token) == [i \in DOMAIN token |->
  [char |-> token[i], start |-> WidthOf(SubSeq(token, 1, i - 1)), end |-> WidthOf(SubSeq(token, 1, i))]]
Connectors(token) == SelectSeq(Placed(token), LAMBDA p : p.char \in Apostrophes)
NormalizeInput(token) ==
  SelectSeq(Placed(token), LAMBDA p : p.char \notin Apostrophes
                                        /\ ~(p.char = "." /\ IsDottedAbbreviation(token)))

Listed(seq) == seq \o <<>>   \* the same sequence, which TLC then evaluates once

\* The spans of the morphemes on the scalars placed in a word, and whether a
\* cut follows.  One without a surface stands where the last one ended.
MorphemeSpans(placed, morphemes) ==
  LET cursor(k) == FoldLeft(LAMBDA n, m : n + Len(m), 0, SubSeq(morphemes, 1, k))
      reached(n) == IF n = 0 THEN 0 ELSE placed[n].end
      span(from, to) == [start |-> IF from = to THEN reached(to) ELSE placed[from + 1].start, end |-> reached(to),
                         cut |-> from < to /\ to < Len(placed)]
  IN [k \in DOMAIN morphemes |-> span(cursor(k - 1), cursor(k))]

\* align_analysis: the spans of the morphemes and the cuts between them.
InnerCuts(token, spans) ==
  {c \in {s.end : s \in {s \in ToSet(spans) : s.cut}} \cup UNION {{p.start, p.end} : p \in ToSet(Connectors(token))} :
     0 < c /\ c < WidthOf(token)}
Laid(token, first, morphemes, spans) ==
  [cuts |-> SetToSortSeq({first + c : c \in InnerCuts(token, spans)}, <),
   morphemes |-> [k \in DOMAIN morphemes |->
     [id |-> k, surface |-> morphemes[k], start |-> first + spans[k].start, end |-> first + spans[k].end]]]

AlignPlaced(token, placed, first, morphemes) ==
  IF NormalizationMatches([i \in DOMAIN placed |-> NormalizeChar(placed[i].char)],
                          FlattenSeq([k \in DOMAIN morphemes |-> Mapped(morphemes[k], NormalizeChar)]))
  THEN Laid(token, first, morphemes, Listed(MorphemeSpans(placed, morphemes))) ELSE NONE
AlignAnalysis(token, first, morphemes) == AlignPlaced(token, NormalizeInput(token), first, morphemes)

----------------------------------------------------------------------------
(* What a document has to satisfy.                                         *)

\* SurfaceUnit::validate.
ValidSurface(unit) ==
  /\ unit.start < unit.end
  /\ \A i \in DOMAIN unit.cuts :
       /\ unit.start < unit.cuts[i] /\ unit.cuts[i] < unit.end
       /\ i > 1 => unit.cuts[i - 1] < unit.cuts[i]

\* LosslessDocument::validate: units may leave gaps, not overlap.
ValidLossless(raw, units) ==
  \A i \in DOMAIN units :
    /\ ValidSurface(units[i])
    /\ units[i].end <= Len(raw) + 1
    /\ i > 1 => units[i - 1].end <= units[i].start

\* validate_unit_metadata and validate_analysis_metadata.
UnknownRoot == 0
ModeStatus == {<<"Turkish", "Structural">>, <<"Turkish", "Morphological">>, <<"Turkish", "Unknown">>,
               <<"Code", "Code">>, <<"Opaque", "Opaque">>}

ValidAnalysis(unit) ==
  LET morphemes == unit.analysis.morphemes
      reached(k) == FoldLeft(LAMBDA e, m : IF m.end > e THEN m.end ELSE e, unit.start, SubSeq(morphemes, 1, k))
  IN /\ morphemes # <<>>
     /\ (unit.status = "Unknown") = (unit.analysis.root = UnknownRoot)
     /\ \A k \in DOMAIN morphemes :
          /\ unit.start <= morphemes[k].start /\ morphemes[k].end <= unit.end
          /\ morphemes[k].start <= morphemes[k].end
          /\ reached(k - 1) <= morphemes[k].start
          /\ (morphemes[k].surface = <<>>) = (morphemes[k].start = morphemes[k].end)

ValidMetadata(unit) ==
  /\ <<unit.mode, unit.status>> \in ModeStatus
  /\ (unit.kind \in {"Opaque", "Control"}) = (unit.mode = "Opaque")
  /\ (unit.status \in {"Morphological", "Unknown"}) = (unit.analysis # NONE)
  /\ unit.analysis # NONE => ValidAnalysis(unit)

\* validate_flat_units: the units cover the bytes without gaps, cuts rise inside.
Covers(d) ==
  /\ \A i \in DOMAIN d.units :
       /\ d.units[i].start = IF i = 1 THEN 1 ELSE d.units[i - 1].end
       /\ d.units[i].end <= Len(d.raw) + 1
       /\ ValidSurface(d.units[i])
  /\ Len(d.raw) + 1 = IF d.units = <<>> THEN 1 ELSE Last(d.units).end

\* TokenizedDocument::validate.
ValidDocument(d) == Covers(d) /\ \A i \in DOMAIN d.units : ValidMetadata(d.units[i])

\* TokenizedDocument::lossless_document.
Lossless(d) == [raw |-> d.raw, units |-> [i \in DOMAIN d.units |->
                 [start |-> d.units[i].start, end |-> d.units[i].end, cuts |-> d.units[i].cuts]]]

-----------------------------------------------------------------------------
(***************************************************************************)
(* The document files: NEDOFMT of nedo-format, which has no checksum, and  *)
(* NDTOK001 of codec.rs, whose payload has one.  A file is a sequence of   *)
(* cells, one for every field and every byte of the document; a cell says  *)
(* what it holds, and a reader that wants a number takes only a number.    *)
(***************************************************************************)

Number(n) == <<"number", n>>
IsNumber(cell) == cell[1] = "number"
IsByte(cell) == cell[1] \in ToSet(ScalarOrder) \cup {"invalid"}
Take(cells, n) == SubSeq(cells, 1, n)
Drop(cells, n) == SubSeq(cells, n + 1, Len(cells))
Values(cells) == [i \in DOMAIN cells |-> cells[i][2]]

\* The next n cells are there and hold numbers.
Numbers(cells, n) == n <= Len(cells) /\ \A i \in 1..n : IsNumber(cells[i])

\* n items off the front of cells, each taken by Read; NONE if one is not.
ReadAll(cells, n, Read(_)) ==
  FoldLeft(LAMBDA state, i : IF state = NONE THEN NONE ELSE Read(state),
           [items |-> <<>>, rest |-> cells], [i \in 1..n |-> i])

----------------------------------------------------------------------------
(* NEDOFMT.                                                                *)

FormatHeader == <<<<"magic", "NEDOFMT">>, Number(1)>>
CutCells(cuts) == <<Number(Len(cuts))>> \o [i \in DOMAIN cuts |-> Number(cuts[i])]

EncodeBinary(d) ==
  IF ~ValidLossless(d.raw, d.units) THEN NONE
  ELSE FormatHeader \o <<Number(Len(d.raw)), Number(Len(d.units))>> \o d.raw
         \o FlattenSeq([i \in DOMAIN d.units |->
              <<Number(d.units[i].start), Number(d.units[i].end)>> \o CutCells(d.units[i].cuts)])

ReadSurface(state) ==
  LET cells == state.rest
      cuts == SubSeq(cells, 4, 3 + cells[3][2])
      unit == [start |-> cells[1][2], end |-> cells[2][2], cuts |-> Values(cuts)]
  IN IF /\ Numbers(cells, 3)
        /\ cells[3][2] <= Len(cells) - 3
        /\ Numbers(cuts, cells[3][2])
        /\ ValidSurface(unit)
     THEN [items |-> Append(state.items, unit), rest |-> Drop(cells, 3 + cells[3][2])]
     ELSE NONE

\* Fault: bytes behind the last unit are not looked at.
DecodeBinaryLoose(file) ==
  LET length == file[3][2]
      count == file[4][2]
      raw == SubSeq(file, 5, 4 + length)
      body == Drop(file, 4 + length)
      read == ReadAll(body, count, ReadSurface)
  IN IF /\ Len(file) >= 4 /\ Take(file, 2) = FormatHeader
        /\ IsNumber(file[3]) /\ IsNumber(file[4])
        /\ length <= Len(file) - 4
        /\ \A i \in DOMAIN raw : IsByte(raw[i])
        /\ 3 * count <= Len(body)
        /\ read # NONE
     THEN IF ValidLossless(raw, read.items)
          THEN [raw |-> raw, units |-> read.items] ELSE NONE
     ELSE NONE

DecodeBinary(file) ==
  LET length == file[3][2]
      count == file[4][2]
      raw == SubSeq(file, 5, 4 + length)
      body == Drop(file, 4 + length)
      read == ReadAll(body, count, ReadSurface)
  IN IF /\ Len(file) >= 4 /\ Take(file, 2) = FormatHeader
        /\ IsNumber(file[3]) /\ IsNumber(file[4])
        /\ length <= Len(file) - 4
        /\ \A i \in DOMAIN raw : IsByte(raw[i])
        /\ 3 * count <= Len(body)
        /\ read # NONE
     THEN IF read.rest = <<>> /\ ValidLossless(raw, read.items)
          THEN [raw |-> raw, units |-> read.items] ELSE NONE
     ELSE NONE

----------------------------------------------------------------------------
(* NDTOK001.  SHA-256 is modelled as a function without collisions.        *)

Sha(payload) == <<"sha", payload>>
CodecHeader == <<<<"magic", "NDTOK001">>, Number(1), <<"morphology and model", "sha">>>>

MorphemeCells(m) == <<Number(m.id), <<"text", m.surface>>, Number(m.start), Number(m.end)>>
AnalysisCells(analysis) ==
  IF analysis = NONE THEN <<>>
  ELSE <<Number(analysis.root), Number(Len(analysis.morphemes))>>
         \o FlattenSeq([k \in DOMAIN analysis.morphemes |-> MorphemeCells(analysis.morphemes[k])])
UnitCells(unit) ==
  <<Number(unit.start), Number(unit.end), <<"enums", <<unit.kind, unit.mode, unit.status>>>>,
    <<"flag", unit.analysis # NONE>>, <<"group", unit.group>>>>
    \o CutCells(unit.cuts) \o AnalysisCells(unit.analysis)
Payload(d) == d.raw \o FlattenSeq([i \in DOMAIN d.units |-> UnitCells(d.units[i])])

Encode(d) ==
  IF ~ValidDocument(d) THEN NONE
  ELSE CodecHeader \o <<Number(Len(d.raw)), Number(Len(d.units)), Sha(Payload(d))>> \o Payload(d)

ReadMorpheme(state) ==
  LET cells == state.rest
  IN IF Len(cells) >= 4 /\ cells[2][1] = "text" /\ IsNumber(cells[1]) /\ IsNumber(cells[3]) /\ IsNumber(cells[4])
     THEN [items |-> Append(state.items, [id |-> cells[1][2], surface |-> cells[2][2],
                                          start |-> cells[3][2], end |-> cells[4][2]]),
           rest |-> Drop(cells, 4)]
     ELSE NONE

\* The analysis behind the cuts of a unit, and what is left.
ReadAnalysis(cells) ==
  LET read == ReadAll(Drop(cells, 2), cells[2][2], ReadMorpheme)
  IN IF Numbers(cells, 2) /\ 4 * cells[2][2] <= Len(cells) - 2 /\ read # NONE
     THEN [analysis |-> [root |-> cells[1][2], morphemes |-> read.items], rest |-> read.rest]
     ELSE NONE

ReadUnit(state) ==
  LET cells == state.rest
      cuts == SubSeq(cells, 7, 6 + cells[6][2])
      behind == Drop(cells, 6 + cells[6][2])
      read == IF cells[4][2] THEN ReadAnalysis(behind) ELSE [analysis |-> NONE, rest |-> behind]
  IN IF /\ Numbers(cells, 2) /\ Len(cells) >= 6
        /\ cells[3][1] = "enums" /\ cells[4][1] = "flag" /\ cells[5][1] = "group" /\ IsNumber(cells[6])
        /\ cells[6][2] <= Len(cells) - 6
        /\ Numbers(cuts, cells[6][2])
        /\ read # NONE
     THEN [items |-> Append(state.items,
             [start |-> cells[1][2], end |-> cells[2][2], kind |-> cells[3][2][1], mode |-> cells[3][2][2],
              status |-> cells[3][2][3], group |-> cells[5][2], cuts |-> Values(cuts),
              analysis |-> read.analysis]), rest |-> read.rest]
     ELSE NONE

Decode(file) ==
  LET payload == Drop(file, 6)
      length == file[4][2]
      count == file[5][2]
      raw == Take(payload, length)
      body == Drop(payload, length)
      read == ReadAll(body, count, ReadUnit)
  IN IF /\ Len(file) >= 6 /\ Take(file, 3) = CodecHeader
        /\ IsNumber(file[4]) /\ IsNumber(file[5]) /\ file[6] = Sha(payload)
        /\ length <= Len(payload)
        /\ \A i \in DOMAIN raw : IsByte(raw[i])
        /\ 5 * count <= Len(body)
        /\ read # NONE
     THEN IF read.rest = <<>> /\ ValidDocument([raw |-> raw, units |-> read.items])
          THEN [raw |-> raw, units |-> read.items] ELSE NONE
     ELSE NONE
=============================================================================
