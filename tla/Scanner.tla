------------------------------- MODULE Scanner -------------------------------
(***************************************************************************)
(* The four scanners of scanner.rs.  Each walks a document unit by unit:   *)
(* scan builds a document of spans and validates it, scan_compact builds   *)
(* spans and kinds only, scan_lexical_spans streams spans and notes        *)
(* nothing about code, scan_lexical_spans_with_hints streams and notes.    *)
(***************************************************************************)
EXTENDS Lexical

CONSTANT Templates   \* quadruples of sets of byte strings: what documents are strung from

ASSUME TemplatesAssumption == \A t \in Templates : \A n \in 1..4 : t[n] \subseteq Seq(STRING)

VARIABLES scanner,   \* which of the four
          raw,       \* the document
          cursor,    \* the offset of the next unit
          units,     \* what has been pushed or yielded
          tracker,   \* CodeHintTracker
          result     \* "none", "ok" or "invalid" (scan rejects its own result)

scanVars == <<scanner, raw, cursor, units, tracker, result>>

Scanners == {"scan", "compact", "stream", "hinted"}

ScanTypeOK ==
  /\ scanner \in Scanners
  /\ raw \in Seq(STRING)
  /\ cursor \in 1..(Len(raw) + 1)
  /\ units \in Seq([kind : Kinds, start : DOMAIN raw, end : 2..(Len(raw) + 1)])
  /\ tracker \in Trackers
  /\ result \in {"none", "ok", "invalid"}

ScanInit ==
  /\ scanner \in Scanners
  /\ \E t \in Templates : \E a \in t[1], b \in t[2], c \in t[3], d \in t[4] : raw = a \o b \o c \o d
  /\ cursor = 1
  /\ units = <<>>
  /\ tracker = NewTracker
  /\ result = "none"

UnitBytes(unit) == SubSeq(raw, unit.start, unit.end - 1)

Unread == result = "none" /\ cursor <= Len(raw)

Push(unit) == /\ units' = Append(units, unit)
              /\ cursor' = unit.end
              /\ UNCHANGED <<scanner, raw, result>>

Note(unit) == tracker' = Observe(tracker, unit.kind, UnitBytes(unit))

\* One turn of the loop of each scanner.
ScanUnit ==
  /\ scanner = "scan" /\ Unread
  /\ \E unit \in {UnitAt(raw, cursor)} : Note(unit) /\ Push(unit)

CompactUnit ==
  /\ scanner = "compact" /\ Unread
  /\ \E unit \in {UnitAt(raw, cursor)} : Push(unit) /\ Note(unit)

StreamUnit ==
  /\ scanner = "stream" /\ Unread
  /\ \E unit \in {UnitAt(raw, cursor)} : Push(unit)
  /\ UNCHANGED tracker

HintedUnit ==
  /\ scanner = "hinted" /\ Unread
  /\ \E unit \in {UnitAt(raw, cursor)} : Note(unit) /\ Push(unit)

\* ScanResult::validate: the spans follow one another from the first byte to
\* the last.
Validate(spans, length) ==
  /\ \A k \in DOMAIN spans : spans[k].start = IF k = 1 THEN 1 ELSE spans[k - 1].end
  /\ length + 1 = IF spans = <<>> THEN 1 ELSE spans[Len(spans)].end

Finished(ok) == /\ result' = IF ok THEN "ok" ELSE "invalid"
                /\ tracker' = [tracker EXCEPT !.hints = Finish(tracker)]
                /\ UNCHANGED <<scanner, raw, cursor, units>>

Return ==
  /\ result = "none" /\ cursor > Len(raw)
  /\ Finished(scanner = "scan" => Validate(units, Len(raw)))

ScanNext == ScanUnit \/ CompactUnit \/ StreamUnit \/ HintedUnit \/ Return

ScanSpec == ScanInit /\ [][ScanNext]_scanVars

----------------------------------------------------------------------------
(* Properties.                                                             *)

Returned == result # "none"

\* scanner.rs:3: the units cover the document without gaps or overlaps, for
\* the three scanners that do not check it as for the one that does; every
\* unit takes at least one byte, or the loops would not end.
UnitsPartitionDocument ==
  /\ \A k \in DOMAIN units : units[k].start < units[k].end
  /\ Returned => Validate(units, Len(raw))
  /\ result # "invalid"

\* A unit scanned on its own is the same unit again: analyses and programs
\* are cached under a unit's bytes and used wherever those bytes come up, so
\* where a unit ends may not depend on what surrounds it.
UnitsScanAlone ==
  \A k \in DOMAIN units :
    LET alone == UnitAt(UnitBytes(units[k]), 1)
    IN alone.kind = units[k].kind /\ alone.end = Len(UnitBytes(units[k])) + 1

\* The bytes of a unit, and of the scalars in the document.
Span(unit) == unit.start..(unit.end - 1)
ScalarSpan(i) == i..(i + Len(DecodeUtf8(raw, i).bytes) - 1)
ScalarSpans == {ScalarSpan(i) : i \in DOMAIN raw}

\* Units of text are text: no scalar is cut in two and no invalid byte gets
\* into a unit that is not Opaque, whatever the runs took in; an Opaque unit
\* holds no byte that is text.
TextUnitsAreText ==
  \A k \in DOMAIN units :
    /\ \A scalar \in ScalarSpans : scalar \subseteq Span(units[k]) \/ scalar \cap Span(units[k]) = {}
    /\ \A i \in Span(units[k]) :
         units[k].kind = "Opaque" <=> raw[i] \notin Ascii /\ i \notin UNION ScalarSpans

\* No operator is hidden in or cut by a unit of punctuation: the detectors of
\* code look for operators as units of their own.
OperatorsStandAlone ==
  \A k \in DOMAIN units :
    units[k].kind = "Punctuation" =>
      \A i \in units[k].start..(units[k].end - 1) : OperatorWidth(raw, i) = 0

\* The tracker behind unit k of a scan that begins anew with every line.
LineTrackers ==
  LET behind[k \in 0..Len(units)] ==
        IF k = 0 THEN NewTracker
        ELSE Observe(IF k = 1 \/ units[k - 1].kind = "LineBreak" THEN NewTracker ELSE behind[k - 1],
                     units[k].kind, UnitBytes(units[k]))
  IN behind

HintsOfLines == {Finish(LineTrackers[k]) :
                k \in {k \in DOMAIN units : k = Len(units) \/ units[k].kind = "LineBreak"}}

\* The hints of a document are those of its lines together: no line hides
\* what another shows.  Once code is suspected the tracker forgets a number
\* in front of a time, so the artifact hint alone may be missed then; the
\* detectors run for either hint.
HintsAreOfLines ==
  (Returned /\ scanner # "stream") =>
    /\ tracker.hints.unmarked = \E h \in HintsOfLines : h.unmarked
    /\ tracker.hints.backtick = \E h \in HintsOfLines : h.backtick
    /\ (tracker.hints.artifact \/ tracker.hints.unmarked)
         = \E h \in HintsOfLines : h.artifact \/ h.unmarked

\* The units are the document: they follow each other without a gap or an
\* overlap, text units hold text of their kind, operators and brackets are
\* units of their own.
UnitsWellFormed == ScanTypeOK /\ UnitsPartitionDocument /\ TextUnitsAreText /\ OperatorsStandAlone
=============================================================================
