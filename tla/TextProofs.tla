----------------------------- MODULE TextProofs -----------------------------
(***************************************************************************)
(* Theorems about Scanner and CodeSpans, for every document.  The units of *)
(* a scan partition the document, hold text of their kind, and are the     *)
(* same when they are scanned on their own; the hints about code are those *)
(* of its lines together.  The spans of code are apart, keep every         *)
(* explicit region and never cut a line for a block; the lines taken as    *)
(* code are the strong ones and those that continue an anchor.             *)
(***************************************************************************)
EXTENDS Scanner, CodeSpans, LexicalProofs, FiniteSetTheorems

-----------------------------------------------------------------------------
(* Scanner.                                                                *)

\* What has been pushed is what was found, unit by unit, from boundary to
\* boundary, up to where the next is looked for.
UnitRecords == [kind : Kinds, start : DOMAIN raw, end : 2..(Len(raw) + 1)]

UnitFound(k) ==
  /\ units[k].start \in 1..Len(raw) /\ units[k].start \in Whole(raw)
  /\ units[k] = UnitAt(raw, units[k].start)
  /\ units[k].start = IF k = 1 THEN 1 ELSE units[k - 1].end

UnitsFound ==
  /\ cursor \in Whole(raw)
  /\ cursor = IF units = <<>> THEN 1 ELSE units[Len(units)].end
  /\ \A k \in DOMAIN units : UnitFound(k)
  /\ result # "none" => cursor = Len(raw) + 1
  /\ result # "invalid"

ScanIInv == ScanTypeOK /\ UnitsFound

LEMMA InitFound == ScanInit => ScanIInv
<1> SUFFICES ASSUME ScanInit PROVE ScanIInv
  OBVIOUS
<1>1. raw \in Seq(STRING)
  <2>1. PICK t \in Templates : \E a \in t[1], b \in t[2], c \in t[3], d \in t[4] : raw = a \o b \o c \o d
    BY DEF ScanInit
  <2>2. t[1] \subseteq Seq(STRING) /\ t[2] \subseteq Seq(STRING) /\ t[3] \subseteq Seq(STRING) /\ t[4] \subseteq Seq(STRING)
    BY TemplatesAssumption
  <2>3. PICK a \in Seq(STRING), b \in Seq(STRING), c \in Seq(STRING), d \in Seq(STRING) : raw = a \o b \o c \o d
    BY <2>1, <2>2
  <2> QED
    BY <2>3, ConcatProperties
<1>2. tracker \in Trackers
  BY TrackerRecords DEF ScanInit
<1>3. 1 \in 1..(Len(raw) + 1) /\ Len(raw) \in Nat
  BY <1>1
<1>4. units \in Seq(UnitRecords) /\ DOMAIN units = {}
  BY DEF ScanInit
<1>5. ScanTypeOK
  BY <1>1, <1>2, <1>3, <1>4 DEF ScanInit, ScanTypeOK, UnitRecords
<1>6. 1 \in Whole(raw)
  BY <1>3 DEF Whole
<1>7. UnitsFound
  BY <1>4, <1>6 DEF ScanInit, UnitsFound
<1> QED
  BY <1>5, <1>7 DEF ScanIInv

\* One turn of any of the four loops pushes the unit at cursor.
Pushed ==
  /\ Unread
  /\ Push(UnitAt(raw, cursor))
  /\ tracker' \in {tracker, Observe(tracker, UnitAt(raw, cursor).kind, UnitBytes(UnitAt(raw, cursor)))}

LEMMA PushFound ==
  ASSUME ScanIInv, Pushed
  PROVE  ScanIInv'
<1> DEFINE unit == UnitAt(raw, cursor)
<1>1. /\ raw \in Seq(STRING) /\ Len(raw) \in Nat /\ DOMAIN raw = 1..Len(raw)
      /\ units \in Seq(UnitRecords) /\ cursor \in 1..Len(raw) /\ cursor \in Whole(raw)
  BY DEF ScanIInv, ScanTypeOK, UnitsFound, Pushed, Unread, UnitRecords
<1>2. /\ unit = [kind |-> KindAt(raw, cursor), start |-> cursor, end |-> unit.end]
      /\ KindAt(raw, cursor) \in Kinds
      /\ unit.end \in (cursor + 1)..(Len(raw) + 1)
      /\ unit.end \in Whole(raw)
  BY <1>1, UnitShape
<1>3. /\ units' = Append(units, unit) /\ cursor' = unit.end /\ raw' = raw /\ scanner' = scanner
      /\ result' = result /\ result = "none"
  BY DEF Pushed, Push, Unread
<1>4. tracker' \in Trackers
  BY ObserveType DEF ScanIInv, ScanTypeOK, Pushed
<1> HIDE DEF unit
<1>5. unit \in UnitRecords
  BY <1>1, <1>2 DEF UnitRecords
<1>6. /\ units' \in Seq(UnitRecords) /\ Len(units') = Len(units) + 1 /\ Len(units) \in Nat
      /\ \A k \in 1..Len(units) : units'[k] = units[k]
      /\ units'[Len(units) + 1] = unit
  BY <1>1, <1>3, <1>5, AppendProperties
<1>7. ScanTypeOK'
  BY <1>1, <1>2, <1>3, <1>4, <1>6 DEF ScanIInv, ScanTypeOK, UnitRecords
<1>8. cursor' = IF units' = <<>> THEN 1 ELSE units'[Len(units')].end
  BY <1>3, <1>6
<1>9. ASSUME NEW k \in DOMAIN units' PROVE UnitFound(k)'
  <2>1. DOMAIN units' = 1..(Len(units) + 1) /\ DOMAIN units = 1..Len(units)
    BY <1>1, <1>6
  <2>2. CASE k \in 1..Len(units)
    <3>1. UnitFound(k)
      BY <2>1, <2>2 DEF ScanIInv, UnitsFound
    <3>2. k # 1 => k - 1 \in 1..Len(units)
      BY <2>2
    <3> QED
      BY <1>3, <1>6, <2>2, <3>1, <3>2 DEF UnitFound
  <2>3. CASE k = Len(units) + 1
    <3>1. units'[k] = UnitAt(raw, cursor) /\ units'[k].start = cursor
      BY <1>2, <1>6, <2>3 DEF unit
    <3>2. cursor = IF k = 1 THEN 1 ELSE units'[k - 1].end
      <4>1. CASE k = 1
        <5>1. units = <<>>
          BY <1>1, <1>6, <2>3, <4>1
        <5> QED
          BY <4>1, <5>1 DEF ScanIInv, UnitsFound
      <4>2. CASE k # 1
        <5>1. Len(units) \in 1..Len(units) /\ units # <<>> /\ k - 1 = Len(units)
          BY <1>1, <1>6, <2>3, <4>2
        <5> QED
          BY <1>6, <4>2, <5>1 DEF ScanIInv, UnitsFound
      <4> QED
        BY <4>1, <4>2
    <3> QED
      BY <1>1, <1>3, <3>1, <3>2 DEF UnitFound
  <2> QED
    BY <2>1, <2>2, <2>3
<1>10. UnitsFound'
  BY <1>2, <1>3, <1>8, <1>9 DEF UnitsFound
<1> QED
  BY <1>7, <1>10 DEF ScanIInv

LEMMA ReturnFound ==
  ASSUME ScanIInv, Return
  PROVE  ScanIInv'
<1>1. /\ raw' = raw /\ scanner' = scanner /\ cursor' = cursor /\ units' = units
      /\ tracker' = [tracker EXCEPT !.hints = Finish(tracker)]
      /\ result = "none" /\ cursor > Len(raw)
  BY DEF Return, Finished
<1>2. /\ raw \in Seq(STRING) /\ Len(raw) \in Nat /\ cursor \in 1..(Len(raw) + 1)
      /\ units \in Seq(UnitRecords)
  BY DEF ScanIInv, ScanTypeOK, UnitRecords
<1>3. tracker' \in Trackers
  BY <1>1, FinishType DEF ScanIInv, ScanTypeOK
<1>4. cursor = Len(raw) + 1
  BY <1>1, <1>2
<1>5. Validate(units, Len(raw))
  <2>1. \A k \in DOMAIN units : units[k].start = IF k = 1 THEN 1 ELSE units[k - 1].end
    BY DEF ScanIInv, UnitsFound, UnitFound
  <2> QED
    BY <1>4, <2>1 DEF ScanIInv, UnitsFound, Validate
<1>6. result' = "ok"
  BY <1>5 DEF Return, Finished
<1>7. ScanTypeOK'
  BY <1>1, <1>2, <1>3, <1>6 DEF ScanIInv, ScanTypeOK
<1>8. \A k \in DOMAIN units : UnitFound(k)'
  BY <1>1 DEF ScanIInv, UnitsFound, UnitFound
<1>9. UnitsFound'
  BY <1>1, <1>4, <1>6, <1>8 DEF ScanIInv, UnitsFound
<1> QED
  BY <1>7, <1>9 DEF ScanIInv

LEMMA NextUnitFound == ScanIInv /\ [ScanNext]_scanVars => ScanIInv'
<1> SUFFICES ASSUME ScanIInv, [ScanNext]_scanVars PROVE ScanIInv'
  OBVIOUS
<1>1. CASE ScanUnit
  BY <1>1, PushFound DEF ScanUnit, Pushed, Note
<1>2. CASE CompactUnit
  BY <1>2, PushFound DEF CompactUnit, Pushed, Note
<1>3. CASE StreamUnit
  BY <1>3, PushFound DEF StreamUnit, Pushed
<1>4. CASE HintedUnit
  BY <1>4, PushFound DEF HintedUnit, Pushed, Note
<1>5. CASE Return
  BY <1>5, ReturnFound
<1>6. CASE UNCHANGED scanVars
  <2>1. ScanTypeOK'
    BY <1>6 DEF ScanIInv, ScanTypeOK, scanVars
  <2>2. UnitsFound'
    BY <1>6 DEF ScanIInv, UnitsFound, UnitFound, scanVars
  <2> QED
    BY <2>1, <2>2 DEF ScanIInv
<1> QED
  BY <1>1, <1>2, <1>3, <1>4, <1>5, <1>6 DEF ScanNext

LEMMA AlwaysFound == ScanSpec => []ScanIInv
<1>1. ScanSpec => ScanInit /\ [][ScanNext]_scanVars
  BY PTL DEF ScanSpec
<1> QED
  BY <1>1, InitFound, NextUnitFound, PTL

-----------------------------------------------------------------------------
(* What the invariant says about the units.                                *)

\* Every unit of the document is a unit where it starts, and reaches from
\* boundary to boundary.
LEMMA Placed ==
  ASSUME ScanIInv, NEW k \in DOMAIN units
  PROVE  /\ raw \in Seq(STRING) /\ Len(raw) \in Nat /\ DOMAIN raw = 1..Len(raw)
         /\ units[k].start \in 1..Len(raw) /\ units[k].start \in Whole(raw)
         /\ units[k].end \in (units[k].start + 1)..(Len(raw) + 1) /\ units[k].end \in Whole(raw)
         /\ units[k].kind = KindAt(raw, units[k].start)
         /\ \A p \in units[k].start..(units[k].end - 1) : p \in Content(raw, units[k].kind)
<1> DEFINE i == units[k].start
<1>1. raw \in Seq(STRING) /\ Len(raw) \in Nat /\ DOMAIN raw = 1..Len(raw)
  BY DEF ScanIInv, ScanTypeOK
<1>2. i \in 1..Len(raw) /\ i \in Whole(raw) /\ units[k] = UnitAt(raw, i)
  BY DEF ScanIInv, UnitsFound, UnitFound
<1> HIDE DEF i
<1>3. /\ UnitAt(raw, i) = [kind |-> KindAt(raw, i), start |-> i, end |-> UnitAt(raw, i).end]
      /\ UnitAt(raw, i).end \in (i + 1)..(Len(raw) + 1) /\ UnitAt(raw, i).end \in Whole(raw)
      /\ \A p \in i..(UnitAt(raw, i).end - 1) : p \in Content(raw, KindAt(raw, i))
  BY <1>1, <1>2, UnitShape
<1> QED
  BY <1>1, <1>2, <1>3 DEF i

LEMMA Partition == ScanIInv => UnitsPartitionDocument
<1> SUFFICES ASSUME ScanIInv PROVE UnitsPartitionDocument
  OBVIOUS
<1>1. \A k \in DOMAIN units : units[k].start < units[k].end
  BY Placed
<1>2. ASSUME Returned PROVE Validate(units, Len(raw))
  <2>1. \A k \in DOMAIN units : units[k].start = IF k = 1 THEN 1 ELSE units[k - 1].end
    BY DEF ScanIInv, UnitsFound, UnitFound
  <2> QED
    BY <1>2, <2>1 DEF ScanIInv, UnitsFound, Validate, Returned
<1> QED
  BY <1>1, <1>2 DEF UnitsPartitionDocument, ScanIInv, UnitsFound

LEMMA Texts == ScanIInv => TextUnitsAreText
<1> SUFFICES ASSUME ScanIInv, NEW k \in DOMAIN units
             PROVE  /\ \A scalar \in ScalarSpans : scalar \subseteq Span(units[k]) \/ scalar \cap Span(units[k]) = {}
                    /\ \A i \in Span(units[k]) :
                         units[k].kind = "Opaque" <=> raw[i] \notin Ascii /\ i \notin UNION ScalarSpans
  BY DEF TextUnitsAreText
<1>1. PICK n \in Nat : n = Len(raw) /\ DOMAIN raw = 1..n
  BY Placed
<1>2. PICK start \in 1..n : start = units[k].start /\ start \in Whole(raw)
  BY <1>1, Placed
<1>3. PICK end \in (start + 1)..(n + 1) : end = units[k].end /\ end \in Whole(raw)
  BY <1>1, <1>2, Placed
<1>4. Span(units[k]) = start..(end - 1)
  BY <1>2, <1>3 DEF Span
<1>5. ASSUME NEW i \in 1..n PROVE ScalarSpan(i) = ScalarBytes(raw, i)
  BY DEF ScalarSpan, ScalarBytes
<1>6. ASSUME NEW i \in 1..n
      PROVE  ScalarBytes(raw, i) \subseteq start..(end - 1) \/ ScalarBytes(raw, i) \cap (start..(end - 1)) = {}
  <2>1. PICK last \in Int : ScalarBytes(raw, i) = i..last
    <3>1. Len(DecodeUtf8(raw, i).bytes) \in Nat
      <4>1. CASE DecodeUtf8(raw, i) = NoScalar
        BY <4>1 DEF NoScalar
      <4>2. CASE DecodeUtf8(raw, i) # NoScalar
        BY <1>1, <4>2, Placed, ScalarAt
      <4> QED
        BY <4>1, <4>2
    <3>2. PICK l \in Nat : l = Len(DecodeUtf8(raw, i).bytes)
      BY <3>1
    <3>3. ScalarBytes(raw, i) = i..(i + l - 1) /\ i + l - 1 \in Int
      BY <3>2 DEF ScalarBytes
    <3> QED
      BY <3>3
  <2>2. i < start => start \notin i..last
    BY <1>1, <1>2, <2>1 DEF Whole
  <2>3. i < end => end \notin i..last
    BY <1>1, <1>3, <2>1 DEF Whole
  <2> QED
    BY <2>1, <2>2, <2>3
<1>7. \A scalar \in ScalarSpans : scalar \subseteq Span(units[k]) \/ scalar \cap Span(units[k]) = {}
  BY <1>1, <1>4, <1>5, <1>6 DEF ScalarSpans
<1>8. ASSUME NEW i \in start..(end - 1)
      PROVE  units[k].kind = "Opaque" <=> raw[i] \notin Ascii /\ i \notin UNION ScalarSpans
  <2>1. units[k].kind = "Opaque" <=> ~IsText(raw, i)
    BY <1>2, <1>3, Placed DEF Content
  <2>2. i \in UNION ScalarSpans <=> \E j \in 1..n : i \in ScalarBytes(raw, j)
    BY <1>1, <1>5 DEF ScalarSpans
  <2> QED
    BY <1>1, <2>1, <2>2 DEF IsText
<1> QED
  BY <1>4, <1>7, <1>8

LEMMA OperatorsAlone == ScanIInv => OperatorsStandAlone
BY Placed DEF OperatorsStandAlone, Content

\* The units are the document, for every document: without a gap or an
\* overlap, text units hold text of their kind and no scalar is cut in two,
\* punctuation hides no operator, and scan never rejects its own result
\* (scan, scan_compact, scan_lexical_spans).
THEOREM UnitsAreWellFormed == ScanSpec => []UnitsWellFormed
<1>1. ScanIInv => UnitsWellFormed
  BY Partition, Texts, OperatorsAlone DEF ScanIInv, UnitsWellFormed
<1> QED
  BY <1>1, AlwaysFound, PTL

\* A unit is the same when it is scanned on its own, whatever surrounds it: its
\* bytes may stand for it in the caches of analyses and programs
\* (lib.rs, the entries of the analysis cache and segment_programs).
LEMMA Alone == ScanIInv => UnitsScanAlone
<1> SUFFICES ASSUME ScanIInv, NEW k \in DOMAIN units
             PROVE  LET alone == UnitAt(UnitBytes(units[k]), 1)
                    IN alone.kind = units[k].kind /\ alone.end = Len(UnitBytes(units[k])) + 1
  BY DEF UnitsScanAlone
<1>1. raw \in Seq(STRING) /\ units[k].start \in 1..Len(raw)
  BY Placed
<1>2. PICK i \in 1..Len(raw) : i = units[k].start
  BY <1>1
<1>3. units[k] = UnitAt(raw, i)
  BY <1>2 DEF ScanIInv, UnitsFound, UnitFound
<1>4. UnitBytes(units[k]) = SubSeq(raw, i, UnitAt(raw, i).end - 1)
  BY <1>2, <1>3 DEF UnitBytes
<1>5. /\ UnitAt(SubSeq(raw, i, UnitAt(raw, i).end - 1), 1).kind = UnitAt(raw, i).kind
      /\ UnitAt(SubSeq(raw, i, UnitAt(raw, i).end - 1), 1).end
           = Len(SubSeq(raw, i, UnitAt(raw, i).end - 1)) + 1
  <2>1. PICK bytes : bytes = raw
    OBVIOUS
  <2>2. bytes \in Seq(STRING) /\ i \in 1..Len(bytes)
    BY <1>1, <1>2, <2>1
  <2>3. LET sub == SubSeq(bytes, i, UnitAt(bytes, i).end - 1)
        IN /\ UnitAt(sub, 1).kind = UnitAt(bytes, i).kind
           /\ UnitAt(sub, 1).end = Len(sub) + 1
    BY <2>2, UnitAlone
  <2> QED
    BY <2>1, <2>3
<1> QED
  BY <1>3, <1>4, <1>5

\* In every reachable state a unit is what scanning its bytes alone gives, the
\* premise of all caches keyed by the bytes of a unit (lib.rs).
THEOREM UnitsScanTheSameAlone == ScanSpec => []UnitsScanAlone
BY Alone, AlwaysFound, PTL

-----------------------------------------------------------------------------
(* Hints about code.  The tracker of a scan sums up the lines that ended   *)
(* and the tracker of the line it is in.                                   *)

\* t sums up a tracker c that begins anew with every line, and the hints d of
\* the lines before.
Sums(t, c, d) ==
  /\ t.hints.unmarked = (c.hints.unmarked \/ d.unmarked)
  /\ t.hints.backtick = (c.hints.backtick \/ d.backtick)
  /\ (t.hints.artifact \/ t.hints.unmarked)
       = (c.hints.artifact \/ c.hints.unmarked \/ d.artifact \/ d.unmarked)
  /\ t.line = IF t.hints.unmarked THEN NewLine ELSE c.line
  /\ c.hints.unmarked => c.line = NewLine

LEMMA SumsStep ==
  ASSUME NEW t \in Trackers, NEW c \in Trackers, NEW d \in HintRecords, Sums(t, c, d), NEW kind, NEW bytes
  PROVE  Sums(Observe(t, kind, bytes), Observe(c, kind, bytes), d)
<1>1. /\ t.hints.unmarked \in BOOLEAN /\ t.hints.artifact \in BOOLEAN /\ t.hints.backtick \in BOOLEAN
      /\ c.hints.unmarked \in BOOLEAN /\ c.hints.artifact \in BOOLEAN /\ c.hints.backtick \in BOOLEAN
      /\ d.unmarked \in BOOLEAN /\ d.artifact \in BOOLEAN /\ d.backtick \in BOOLEAN
  BY TrackerRecords DEF HintRecords
<1> DEFINE signal == Signal(t.line, kind, bytes)
           artifact == Artifact(t.line, kind, bytes)
           backtick == Backtick(kind, bytes)
           kept == Kept(t.line, kind, bytes)
<1>2. /\ Observe(t, kind, bytes).hints.unmarked = (t.hints.unmarked \/ signal)
      /\ Observe(t, kind, bytes).hints.backtick = (t.hints.backtick \/ backtick)
      /\ Observe(t, kind, bytes).hints.artifact = (t.hints.artifact \/ artifact)
      /\ ~t.hints.unmarked => Observe(t, kind, bytes).line = kept
      /\ (t.hints.unmarked /\ t.line = NewLine) => Observe(t, kind, bytes).line = NewLine
  BY ObserveEffects
<1>3. /\ Observe(c, kind, bytes).hints.unmarked = (c.hints.unmarked \/ Signal(c.line, kind, bytes))
      /\ Observe(c, kind, bytes).hints.backtick = (c.hints.backtick \/ backtick)
      /\ Observe(c, kind, bytes).hints.artifact = (c.hints.artifact \/ Artifact(c.line, kind, bytes))
      /\ ~c.hints.unmarked => Observe(c, kind, bytes).line = Kept(c.line, kind, bytes)
      /\ (c.hints.unmarked /\ c.line = NewLine) => Observe(c, kind, bytes).line = NewLine
  BY ObserveEffects
<1>4. signal \in BOOLEAN /\ artifact \in BOOLEAN /\ backtick \in BOOLEAN
  BY DEF Signal, Artifact, Backtick
<1>5. signal => kept = NewLine
  BY DEF Kept, Signal
<1>6. Signal(c.line, kind, bytes) \in BOOLEAN /\ Artifact(c.line, kind, bytes) \in BOOLEAN
      /\ (Signal(c.line, kind, bytes) => Kept(c.line, kind, bytes) = NewLine)
  BY DEF Signal, Artifact, Kept
<1>7. ~t.hints.unmarked => Signal(c.line, kind, bytes) = signal /\ Artifact(c.line, kind, bytes) = artifact
                             /\ Kept(c.line, kind, bytes) = kept /\ ~c.hints.unmarked
  BY <1>1 DEF Sums
<1> HIDE DEF signal, artifact, backtick, kept
<1> DEFINE x == Observe(t, kind, bytes)
           y == Observe(c, kind, bytes)
<1>8. y.hints.unmarked => y.line = NewLine
  BY <1>1, <1>3, <1>6 DEF Sums
<1> HIDE DEF x, y
<1>9. CASE t.hints.unmarked
  BY <1>1, <1>2, <1>3, <1>4, <1>6, <1>8, <1>9 DEF Sums, x, y
<1>10. CASE ~t.hints.unmarked
  BY <1>1, <1>2, <1>3, <1>4, <1>5, <1>7, <1>8, <1>10 DEF Sums, x, y
<1> QED
  BY <1>1, <1>9, <1>10

\* When a line ends its hints join those of the lines before.
Joined(d, h) == [unmarked |-> d.unmarked \/ h.unmarked, artifact |-> d.artifact \/ h.artifact,
                 backtick |-> d.backtick \/ h.backtick]

LEMMA SumsBreak ==
  ASSUME NEW t \in Trackers, NEW c \in Trackers, NEW d \in HintRecords, Sums(t, c, d), c.line = NewLine
  PROVE  Sums(t, NewTracker, Joined(d, Finish(c)))
<1>1. /\ t.hints.unmarked \in BOOLEAN /\ t.hints.artifact \in BOOLEAN /\ t.hints.backtick \in BOOLEAN
      /\ c.hints \in HintRecords
      /\ c.hints.unmarked \in BOOLEAN /\ c.hints.artifact \in BOOLEAN /\ c.hints.backtick \in BOOLEAN
      /\ d.unmarked \in BOOLEAN /\ d.artifact \in BOOLEAN /\ d.backtick \in BOOLEAN
  BY TrackerRecords DEF HintRecords
<1>2. NewLine.section = 0
  BY DEF NewLine
<1>3. Finish(c).unmarked = c.hints.unmarked /\ Finish(c).artifact = c.hints.artifact
      /\ Finish(c).backtick = c.hints.backtick
  BY <1>1, <1>2 DEF Finish, HintRecords
<1>4. /\ NewTracker.hints.unmarked = FALSE /\ NewTracker.hints.artifact = FALSE
      /\ NewTracker.hints.backtick = FALSE /\ NewTracker.line = NewLine
  BY DEF NewTracker, NoHints
<1>5. /\ Joined(d, Finish(c)).unmarked = (d.unmarked \/ c.hints.unmarked)
      /\ Joined(d, Finish(c)).artifact = (d.artifact \/ c.hints.artifact)
      /\ Joined(d, Finish(c)).backtick = (d.backtick \/ c.hints.backtick)
  BY <1>3 DEF Joined
<1> QED
  BY <1>1, <1>4, <1>5 DEF Sums

\* At the end of the document the hints are those of its lines.
LEMMA SumsFinish ==
  ASSUME NEW t \in Trackers, NEW c \in Trackers, NEW d \in HintRecords, Sums(t, c, d)
  PROVE  /\ Finish(t).unmarked = (d.unmarked \/ Finish(c).unmarked)
         /\ Finish(t).backtick = (d.backtick \/ Finish(c).backtick)
         /\ (Finish(t).artifact \/ Finish(t).unmarked)
              = (d.artifact \/ d.unmarked \/ Finish(c).artifact \/ Finish(c).unmarked)
<1>1. /\ t.hints.unmarked \in BOOLEAN /\ t.hints.artifact \in BOOLEAN /\ t.hints.backtick \in BOOLEAN
      /\ t.hints \in HintRecords /\ c.hints \in HintRecords
      /\ c.hints.unmarked \in BOOLEAN /\ c.hints.artifact \in BOOLEAN /\ c.hints.backtick \in BOOLEAN
      /\ d.unmarked \in BOOLEAN /\ d.artifact \in BOOLEAN /\ d.backtick \in BOOLEAN
  BY TrackerRecords DEF HintRecords
<1>2. NewLine.section # 2
  BY DEF NewLine
<1>3. \A x \in Trackers : /\ Finish(x).unmarked = (x.hints.unmarked \/ x.line.section = 2)
                          /\ Finish(x).artifact = x.hints.artifact /\ Finish(x).backtick = x.hints.backtick
  BY TrackerRecords DEF Finish, HintRecords
<1> QED
  BY <1>1, <1>2, <1>3 DEF Sums

\* The trackers of a scan that begins anew with every line, one behind each
\* unit, exist.
Follows(text, us, f) ==
  /\ f \in [0..Len(us) -> Trackers] /\ f[0] = NewTracker
  /\ \A k \in 1..Len(us) :
       f[k] = Observe(IF k = 1 \/ us[k - 1].kind = "LineBreak" THEN NewTracker ELSE f[k - 1],
                      us[k].kind, SubSeq(text, us[k].start, us[k].end - 1))

TrackersOf(text, us) ==
  LET behind[k \in 0..Len(us)] ==
        IF k = 0 THEN NewTracker
        ELSE Observe(IF k = 1 \/ us[k - 1].kind = "LineBreak" THEN NewTracker ELSE behind[k - 1],
                     us[k].kind, SubSeq(text, us[k].start, us[k].end - 1))
  IN behind

LEMMA TrackersFollow ==
  ASSUME NEW text, NEW us, Len(us) \in Nat
  PROVE  Follows(text, us, TrackersOf(text, us))
<1> DEFINE n == Len(us)
           g == [p \in (1..n) \X Trackers |->
                  Observe(IF p[1] = 1 \/ us[p[1] - 1].kind = "LineBreak" THEN NewTracker ELSE p[2],
                          us[p[1]].kind, SubSeq(text, us[p[1]].start, us[p[1]].end - 1))]
<1>1. NewTracker \in Trackers
  BY TrackerRecords
<1>2. g \in [(1..n) \X Trackers -> Trackers]
  BY <1>1, ObserveType
<1> DEFINE Right(f) == f = [k \in 0..n |->
             IF k = 0 THEN NewTracker
             ELSE Observe(IF k = 1 \/ us[k - 1].kind = "LineBreak" THEN NewTracker ELSE f[k - 1],
                          us[k].kind, SubSeq(text, us[k].start, us[k].end - 1))]
<1>3. \E f : Right(f)
  <2> HIDE DEF g
  <2>a. Iterates(n, Trackers, NewTracker, g)
    BY <1>1, <1>2 DEF Iterates
  <2>1. PICK f \in [0..n -> Trackers] : f[0] = NewTracker /\ \A k \in 1..n : f[k] = g[<<k, f[k - 1]>>]
    BY <2>a, Iteration
  <2>2. ASSUME NEW k \in 1..n
        PROVE  f[k] = Observe(IF k = 1 \/ us[k - 1].kind = "LineBreak" THEN NewTracker ELSE f[k - 1],
                              us[k].kind, SubSeq(text, us[k].start, us[k].end - 1))
    <3>1. f[k - 1] \in Trackers
      BY <2>1
    <3>2. <<k, f[k - 1]>> \in (1..n) \X Trackers
      BY <3>1
    <3> QED
      BY <2>1, <3>2 DEF g
  <2>3. Right(f)
    BY <2>1, <2>2
  <2> QED
    BY <2>3
<1>4. TrackersOf(text, us) = CHOOSE f : Right(f)
  BY DEF TrackersOf
<1>5. Right(TrackersOf(text, us))
  <2> HIDE DEF Right
  <2> QED
    BY <1>3, <1>4
<1> DEFINE f == TrackersOf(text, us)
<1> HIDE DEF f
<1>6. /\ f[0] = NewTracker
      /\ \A k \in 1..n : f[k] = Observe(IF k = 1 \/ us[k - 1].kind = "LineBreak" THEN NewTracker ELSE f[k - 1],
                                        us[k].kind, SubSeq(text, us[k].start, us[k].end - 1))
  BY <1>5 DEF f
<1>7. DOMAIN f = 0..n /\ f = [k \in 0..n |-> f[k]]
  BY <1>5 DEF f
<1> HIDE DEF Right
<1> DEFINE T == {k \in Nat : k <= n => f[k] \in Trackers}
<1>8. \A k \in Nat : k \in T
  <2>1. 0 \in T
    BY <1>1, <1>6
  <2>2. ASSUME NEW k \in Nat, k \in T PROVE k + 1 \in T
    <3> SUFFICES ASSUME k + 1 <= n PROVE f[k + 1] \in Trackers
      OBVIOUS
    <3>1. k + 1 \in 1..n /\ (k + 1) - 1 = k /\ f[k] \in Trackers
      BY <2>2
    <3>2. (IF k + 1 = 1 \/ us[(k + 1) - 1].kind = "LineBreak" THEN NewTracker ELSE f[(k + 1) - 1]) \in Trackers
      BY <1>1, <3>1
    <3> QED
      BY <1>6, <3>1, <3>2, ObserveType
  <2> HIDE DEF T
  <2> QED
    BY <2>1, <2>2, Induct
<1>9. f \in [0..n -> Trackers]
  BY <1>7, <1>8
<1> QED
  BY <1>6, <1>9 DEF Follows, f

\* A unit more leaves the trackers behind the others as they are.
LEMMA TrackersExtend ==
  ASSUME NEW text, NEW us, NEW more, NEW f, NEW g, Len(us) \in Nat, Len(more) = Len(us) + 1,
         \A k \in 1..Len(us) : more[k] = us[k], Follows(text, us, f), Follows(text, more, g)
  PROVE  \A k \in 0..Len(us) : g[k] = f[k]
<1> DEFINE n == Len(us)
           T == {k \in Nat : k <= n => g[k] = f[k]}
<1>1. 0 \in T
  BY DEF Follows
<1>2. ASSUME NEW k \in Nat, k \in T PROVE k + 1 \in T
  <2> SUFFICES ASSUME k + 1 <= n PROVE g[k + 1] = f[k + 1]
    OBVIOUS
  <2>1. k + 1 \in 1..n /\ k + 1 \in 1..Len(more) /\ (k + 1) - 1 = k /\ g[k] = f[k]
    BY <1>2
  <2>2. k # 0 => k \in 1..n
    BY <2>1
  <2>3. more[k + 1] = us[k + 1] /\ (k # 0 => more[k] = us[k])
    BY <2>1, <2>2
  <2>4. f[k + 1] = Observe(IF k + 1 = 1 \/ us[k].kind = "LineBreak" THEN NewTracker ELSE f[k],
                           us[k + 1].kind, SubSeq(text, us[k + 1].start, us[k + 1].end - 1))
    BY <2>1 DEF Follows
  <2>5. g[k + 1] = Observe(IF k + 1 = 1 \/ more[k].kind = "LineBreak" THEN NewTracker ELSE g[k],
                           more[k + 1].kind, SubSeq(text, more[k + 1].start, more[k + 1].end - 1))
    BY <2>1 DEF Follows
  <2> QED
    BY <2>1, <2>3, <2>4, <2>5
<1> HIDE DEF T
<1>3. Nat \subseteq T
  BY <1>1, <1>2, Induct
<1> QED
  BY <1>3 DEF T

\* The lines that ended, the hints of theirs, and the tracker of the line that
\* the scan is in.
Ended(us) == {k \in 1..Len(us) : us[k].kind = "LineBreak"}
EndedHints(us, f) == [unmarked |-> \E k \in Ended(us) : Finish(f[k]).unmarked,
                      artifact |-> \E k \in Ended(us) : Finish(f[k]).artifact,
                      backtick |-> \E k \in Ended(us) : Finish(f[k]).backtick]
Current(us, f) == IF Len(us) = 0 \/ us[Len(us)].kind = "LineBreak" THEN NewTracker ELSE f[Len(us)]

LEMMA EndedHintsType ==
  ASSUME NEW us, NEW f
  PROVE  EndedHints(us, f) \in HintRecords
<1> DEFINE u == \E k \in Ended(us) : Finish(f[k]).unmarked
           a == \E k \in Ended(us) : Finish(f[k]).artifact
           b == \E k \in Ended(us) : Finish(f[k]).backtick
<1>1. u \in BOOLEAN /\ a \in BOOLEAN /\ b \in BOOLEAN
  OBVIOUS
<1>2. EndedHints(us, f) = [unmarked |-> u, artifact |-> a, backtick |-> b]
  BY DEF EndedHints
<1> HIDE DEF u, a, b
<1> QED
  BY <1>1, <1>2 DEF HintRecords

Summed(text, us, t) ==
  Sums(t, Current(us, TrackersOf(text, us)), EndedHints(us, TrackersOf(text, us)))

LEMMA SummedPush ==
  ASSUME NEW text, NEW S, NEW us \in Seq(S), NEW unit \in S, NEW t \in Trackers, Summed(text, us, t)
  PROVE  Summed(text, Append(us, unit),
                Observe(t, unit.kind, SubSeq(text, unit.start, unit.end - 1)))
<1>1. PICK n \in Nat : n = Len(us)
  OBVIOUS
<1>2. PICK more \in Seq(S) : /\ more = Append(us, unit) /\ Len(more) = n + 1 /\ more[n + 1] = unit
                             /\ \A k \in 1..n : more[k] = us[k]
  <2>1. Append(us, unit) \in Seq(S) /\ Len(Append(us, unit)) = Len(us) + 1
        /\ Append(us, unit)[Len(us) + 1] = unit
        /\ \A k \in 1..Len(us) : Append(us, unit)[k] = us[k]
    BY AppendProperties
  <2> QED
    BY <1>1, <2>1
<1>3. PICK f : f = TrackersOf(text, us)
  OBVIOUS
<1>4. PICK g : g = TrackersOf(text, more)
  OBVIOUS
<1>5. Follows(text, us, f) /\ Follows(text, more, g)
  BY <1>1, <1>2, <1>3, <1>4, TrackersFollow
<1>6. \A k \in 0..n : g[k] = f[k]
  <2>1. /\ Len(us) \in Nat /\ Len(more) = Len(us) + 1 /\ \A k \in 1..Len(us) : more[k] = us[k]
    BY <1>1, <1>2
  <2>2. \A k \in 0..Len(us) : g[k] = f[k]
    BY <1>5, <2>1, TrackersExtend
  <2> QED
    BY <1>1, <2>2
<1>7. PICK bytes : bytes = SubSeq(text, unit.start, unit.end - 1)
  OBVIOUS
<1>8. PICK c \in Trackers : c = Current(us, f)
  BY <1>1, <1>5, TrackerRecords DEF Current, Follows
<1>9. PICK d \in HintRecords : d = EndedHints(us, f)
  BY EndedHintsType
<1>10. Sums(t, c, d)
  BY <1>3, <1>8, <1>9 DEF Summed
<1>11. PICK last \in Trackers : last = g[n + 1]
  BY <1>1, <1>2, <1>5 DEF Follows
<1>12. last = Observe(c, unit.kind, bytes)
  <2>1. n + 1 \in 1..Len(more) /\ (n + 1) - 1 = n
    BY <1>2
  <2>2. g[n + 1] = Observe(IF n + 1 = 1 \/ more[n].kind = "LineBreak" THEN NewTracker ELSE g[n],
                           unit.kind, bytes)
    BY <1>2, <1>5, <1>7, <2>1 DEF Follows
  <2>3. (IF n + 1 = 1 \/ more[n].kind = "LineBreak" THEN NewTracker ELSE g[n]) = c
    <3>1. CASE n = 0
      BY <1>1, <1>8, <3>1 DEF Current
    <3>2. CASE n # 0
      <4>1. n \in 1..n /\ n \in 0..n /\ n + 1 # 1
        BY <3>2
      <4>2. more[n] = us[n] /\ g[n] = f[n]
        BY <1>2, <1>6, <4>1
      <4> QED
        BY <1>1, <1>8, <3>2, <4>1, <4>2 DEF Current
    <3> QED
      BY <3>1, <3>2
  <2> QED
    BY <1>11, <2>2, <2>3
<1>13. PICK u \in Trackers : u = Observe(t, unit.kind, bytes)
  BY ObserveType
<1>14. Sums(u, last, d)
  BY <1>10, <1>12, <1>13, SumsStep
<1>15. \A k \in Ended(us) : k \in 1..n /\ g[k] = f[k]
  BY <1>1, <1>6 DEF Ended
<1>16. EndedHints(us, f) = EndedHints(us, g)
  BY <1>15 DEF EndedHints
<1>17. CASE unit.kind # "LineBreak"
  <2>1. Ended(more) = Ended(us)
    BY <1>1, <1>2, <1>17 DEF Ended
  <2>2. Current(more, g) = last
    BY <1>2, <1>11, <1>17 DEF Current
  <2>3. EndedHints(more, g) = d
    BY <1>9, <1>16, <2>1 DEF EndedHints
  <2> QED
    BY <1>2, <1>4, <1>7, <1>13, <1>14, <2>2, <2>3 DEF Summed
<1>18. CASE unit.kind = "LineBreak"
  <2>1. Ended(more) = Ended(us) \cup {n + 1}
    BY <1>1, <1>2, <1>18 DEF Ended
  <2>2. Current(more, g) = NewTracker
    BY <1>2, <1>18 DEF Current
  <2>3. EndedHints(more, g) = Joined(d, Finish(last))
    <3>1. /\ d.unmarked = \E k \in Ended(us) : Finish(g[k]).unmarked
          /\ d.artifact = \E k \in Ended(us) : Finish(g[k]).artifact
          /\ d.backtick = \E k \in Ended(us) : Finish(g[k]).backtick
      BY <1>9, <1>16 DEF EndedHints
    <3>2. /\ (\E k \in Ended(more) : Finish(g[k]).unmarked) = (d.unmarked \/ Finish(last).unmarked)
          /\ (\E k \in Ended(more) : Finish(g[k]).artifact) = (d.artifact \/ Finish(last).artifact)
          /\ (\E k \in Ended(more) : Finish(g[k]).backtick) = (d.backtick \/ Finish(last).backtick)
      BY <1>11, <2>1, <3>1
    <3> QED
      BY <3>2 DEF EndedHints, Joined
  <2>4. last.line = NewLine
    BY <1>12, <1>18, TrackerRecords DEF Observe, ObserveLineBreak, Suspect
  <2>5. Sums(u, NewTracker, Joined(d, Finish(last)))
    BY <1>14, <2>4, SumsBreak
  <2> QED
    BY <1>2, <1>4, <1>7, <1>13, <2>2, <2>3, <2>5 DEF Summed
<1> QED
  BY <1>17, <1>18

\* The tracker's flags stand for the lines so far and for the line it is in.
HintsSum == (scanner # "stream" /\ result = "none") => Summed(raw, units, tracker)

HInv == ScanIInv /\ HintsSum /\ HintsAreOfLines

LEMMA InitHints == ScanInit => HInv
<1> SUFFICES ASSUME ScanInit PROVE HInv
  OBVIOUS
<1>1. Len(units) = 0
  BY DEF ScanInit
<1>2. Current(units, TrackersOf(raw, units)) = NewTracker
  BY <1>1 DEF Current
<1>3. Ended(units) = {}
  BY <1>1 DEF Ended
<1>4. EndedHints(units, TrackersOf(raw, units)) = [unmarked |-> FALSE, artifact |-> FALSE, backtick |-> FALSE]
  BY <1>3 DEF EndedHints
<1>5. tracker = NewTracker
  BY DEF ScanInit
<1>6. Summed(raw, units, tracker)
  <2>1. /\ NewTracker.hints.unmarked = FALSE /\ NewTracker.hints.artifact = FALSE
        /\ NewTracker.hints.backtick = FALSE /\ NewTracker.line = NewLine
    BY DEF NewTracker, NoHints
  <2>2. Sums(NewTracker, NewTracker, [unmarked |-> FALSE, artifact |-> FALSE, backtick |-> FALSE])
    BY <2>1 DEF Sums
  <2> QED
    BY <1>2, <1>4, <1>5, <2>2 DEF Summed
<1>7. HintsAreOfLines
  BY DEF ScanInit, HintsAreOfLines, Returned
<1> QED
  BY <1>6, <1>7, InitFound DEF HInv, HintsSum

LEMMA ReturnHints ==
  ASSUME HInv, Return
  PROVE  HintsAreOfLines'
<1> SUFFICES ASSUME scanner # "stream" PROVE HintsAreOfLines'
  BY DEF HintsAreOfLines, Return, Finished
<1>1. /\ raw' = raw /\ units' = units /\ tracker' = [tracker EXCEPT !.hints = Finish(tracker)]
      /\ result = "none"
  BY DEF Return, Finished
<1>2. tracker \in Trackers /\ units \in Seq(UnitRecords)
  BY DEF HInv, ScanIInv, ScanTypeOK, UnitRecords
<1>3. PICK n \in Nat : n = Len(units) /\ DOMAIN units = 1..n
  BY <1>2
<1>4. PICK f : f = TrackersOf(raw, units)
  OBVIOUS
<1>5. Follows(raw, units, f)
  BY <1>3, <1>4, TrackersFollow
<1>6. PICK c \in Trackers : c = Current(units, f)
  BY <1>3, <1>5, TrackerRecords DEF Current, Follows
<1>7. PICK d \in HintRecords : d = EndedHints(units, f)
  BY EndedHintsType
<1>8. Sums(tracker, c, d)
  BY <1>1, <1>4, <1>6, <1>7 DEF HInv, HintsSum, Summed
<1>9. /\ Finish(tracker).unmarked = (d.unmarked \/ Finish(c).unmarked)
      /\ Finish(tracker).backtick = (d.backtick \/ Finish(c).backtick)
      /\ (Finish(tracker).artifact \/ Finish(tracker).unmarked)
           = (d.artifact \/ d.unmarked \/ Finish(c).artifact \/ Finish(c).unmarked)
  BY <1>2, <1>8, SumsFinish
<1>10. tracker'.hints = Finish(tracker)
  BY <1>1, <1>2, TrackerRecords
<1>11. HintsOfLines' = {Finish(f[k]) : k \in {k \in 1..n : k = n \/ units[k].kind = "LineBreak"}}
  <2>1. LineTrackers' = TrackersOf(raw', units')
    BY DEF LineTrackers, TrackersOf, UnitBytes
  <2>2. LineTrackers' = f
    BY <1>1, <1>4, <2>1
  <2>3. HintsOfLines' = {Finish(LineTrackers'[k]) :
                        k \in {k \in DOMAIN units' : k = Len(units') \/ units'[k].kind = "LineBreak"}}
    BY DEF HintsOfLines
  <2> QED
    BY <1>1, <1>3, <2>2, <2>3
<1>12. /\ d.unmarked = \E k \in Ended(units) : Finish(f[k]).unmarked
       /\ d.artifact = \E k \in Ended(units) : Finish(f[k]).artifact
       /\ d.backtick = \E k \in Ended(units) : Finish(f[k]).backtick
  BY <1>7 DEF EndedHints
<1>13. Ended(units) = {k \in 1..n : units[k].kind = "LineBreak"}
  BY <1>3 DEF Ended
<1>14. Finish(NewTracker).unmarked = FALSE /\ Finish(NewTracker).artifact = FALSE
       /\ Finish(NewTracker).backtick = FALSE
  <2>1. /\ NewTracker.hints = NoHints /\ NewTracker.line.section = 0
        /\ NoHints.unmarked = FALSE /\ NoHints.artifact = FALSE /\ NoHints.backtick = FALSE
    BY DEF NewTracker, NoHints, NewLine
  <2>2. NoHints \in HintRecords
    BY TrackerRecords
  <2> QED
    BY <2>1, <2>2 DEF Finish, HintRecords
<1>15. c = IF n = 0 \/ units[n].kind = "LineBreak" THEN NewTracker ELSE f[n]
  BY <1>3, <1>6 DEF Current
<1>16. /\ (\E h \in HintsOfLines' : h.unmarked) <=> d.unmarked \/ Finish(c).unmarked
       /\ (\E h \in HintsOfLines' : h.artifact) <=> d.artifact \/ Finish(c).artifact
       /\ (\E h \in HintsOfLines' : h.backtick) <=> d.backtick \/ Finish(c).backtick
  <2>1. CASE n = 0
    <3>1. HintsOfLines' = {} /\ Ended(units) = {}
      BY <1>11, <1>13, <2>1
    <3> QED
      BY <1>12, <1>14, <1>15, <2>1, <3>1
  <2>2. CASE n # 0 /\ units[n].kind = "LineBreak"
    <3>1. HintsOfLines' = {Finish(f[k]) : k \in Ended(units)}
      BY <1>11, <1>13, <2>2
    <3> QED
      BY <1>12, <1>14, <1>15, <2>2, <3>1
  <2>3. CASE n # 0 /\ units[n].kind # "LineBreak"
    <3>1. n \in 1..n
      BY <2>3
    <3>2. HintsOfLines' = {Finish(f[k]) : k \in Ended(units)} \cup {Finish(f[n])}
      BY <1>11, <1>13, <2>3, <3>1
    <3>3. c = f[n]
      BY <1>15, <2>3
    <3> QED
      BY <1>12, <3>2, <3>3
  <2> QED
    BY <2>1, <2>2, <2>3
<1>17. d.unmarked \in BOOLEAN /\ d.backtick \in BOOLEAN /\ d.artifact \in BOOLEAN
       /\ Finish(c).unmarked \in BOOLEAN /\ Finish(c).artifact \in BOOLEAN /\ Finish(c).backtick \in BOOLEAN
  BY FinishType DEF HintRecords
<1>18. (\E h \in HintsOfLines' : h.artifact \/ h.unmarked)
         <=> (\E h \in HintsOfLines' : h.artifact) \/ (\E h \in HintsOfLines' : h.unmarked)
  OBVIOUS
<1> QED
  BY <1>9, <1>10, <1>16, <1>17, <1>18 DEF HintsAreOfLines

\* Whatever was pushed, the tracker keeps summing up.
LEMMA PushHints ==
  ASSUME HInv, Unread, Push(UnitAt(raw, cursor)), scanner # "stream" => Note(UnitAt(raw, cursor))
  PROVE  HintsSum' /\ HintsAreOfLines'
<1> DEFINE unit == UnitAt(raw, cursor)
<1>1. /\ raw \in Seq(STRING) /\ cursor \in 1..Len(raw) /\ units \in Seq(UnitRecords) /\ tracker \in Trackers
      /\ DOMAIN raw = 1..Len(raw) /\ Len(raw) \in Nat
  BY DEF HInv, ScanIInv, ScanTypeOK, Unread, UnitRecords
<1>2. unit \in UnitRecords
  <2>1. /\ unit = [kind |-> KindAt(raw, cursor), start |-> cursor, end |-> unit.end]
        /\ KindAt(raw, cursor) \in Kinds
        /\ unit.end \in (cursor + 1)..(Len(raw) + 1)
    BY <1>1, UnitShape
  <2> HIDE DEF unit
  <2> QED
    BY <1>1, <2>1 DEF UnitRecords
<1>3. /\ units' = Append(units, unit) /\ raw' = raw /\ scanner' = scanner /\ result' = result
      /\ result = "none"
  BY DEF Push, Unread
<1>4. HintsAreOfLines'
  BY <1>3 DEF HintsAreOfLines, Returned
<1>5. ASSUME scanner # "stream" PROVE Summed(raw', units', tracker')
  <2>1. tracker' = Observe(tracker, unit.kind, SubSeq(raw, unit.start, unit.end - 1))
    BY <1>5 DEF Note, UnitBytes
  <2>2. Summed(raw, units, tracker)
    BY <1>3, <1>5 DEF HInv, HintsSum
  <2> HIDE DEF unit
  <2>3. Summed(raw, Append(units, unit), Observe(tracker, unit.kind, SubSeq(raw, unit.start, unit.end - 1)))
    BY <1>1, <1>2, <2>2, SummedPush
  <2> QED
    BY <1>3, <2>1, <2>3
<1> QED
  BY <1>3, <1>4, <1>5 DEF HintsSum

LEMMA NextHints == HInv /\ [ScanNext]_scanVars => HInv'
<1> SUFFICES ASSUME HInv, [ScanNext]_scanVars PROVE HInv'
  OBVIOUS
<1>1. ScanIInv'
  BY NextUnitFound DEF HInv
<1>2. HintsSum' /\ HintsAreOfLines'
  <2>1. CASE ScanUnit
    BY <2>1, PushHints DEF ScanUnit
  <2>2. CASE CompactUnit
    BY <2>2, PushHints DEF CompactUnit
  <2>3. CASE StreamUnit
    BY <2>3, PushHints DEF StreamUnit
  <2>4. CASE HintedUnit
    BY <2>4, PushHints DEF HintedUnit
  <2>5. CASE Return
    <3>1. HintsSum'
      BY <2>5 DEF HintsSum, Return, Finished
    <3> QED
      BY <2>5, <3>1, ReturnHints
  <2>6. CASE UNCHANGED scanVars
    <3>1. HintsSum'
      BY <2>6 DEF HInv, HintsSum, scanVars
    <3>2. HintsAreOfLines'
      <4>1. LineTrackers = TrackersOf(raw, units) /\ LineTrackers' = TrackersOf(raw', units')
        BY DEF LineTrackers, TrackersOf, UnitBytes
      <4>2. raw' = raw /\ units' = units
        BY <2>6 DEF scanVars
      <4>3. LineTrackers' = LineTrackers
        BY <4>1, <4>2
      <4>4. HintsOfLines' = {Finish(LineTrackers'[k]) :
                            k \in {k \in DOMAIN units' : k = Len(units') \/ units'[k].kind = "LineBreak"}}
        BY DEF HintsOfLines
      <4>5. HintsOfLines' = HintsOfLines
        BY <4>2, <4>3, <4>4 DEF HintsOfLines
      <4> QED
        BY <2>6, <4>5 DEF HInv, HintsAreOfLines, Returned, scanVars
    <3> QED
      BY <3>1, <3>2
  <2> QED
    BY <2>1, <2>2, <2>3, <2>4, <2>5, <2>6 DEF ScanNext
<1> QED
  BY <1>1, <1>2 DEF HInv

\* The hints of every document are those of its lines together: no line
\* hides what another one shows (CodeHintTracker, which forgets the line but
\* not the hints).
THEOREM HintsAreThoseOfTheLines == ScanSpec => []HintsAreOfLines
<1>1. ScanSpec => ScanInit /\ [][ScanNext]_scanVars
  BY PTL DEF ScanSpec
<1>2. HInv => HintsAreOfLines
  BY DEF HInv
<1> QED
  BY <1>1, <1>2, InitHints, NextHints, PTL

-----------------------------------------------------------------------------
(* Least and greatest elements.                                            *)

LEMMA MinOf ==
  ASSUME NEW T \in SUBSET Nat, T # {}
  PROVE  Min(T) \in T /\ \A y \in T : Min(T) <= y
<1>1. \E x \in T : \A y \in T : x <= y
  BY Least
<1>2. Min(T) = CHOOSE x \in T : \A y \in T : x <= y
  BY DEF Min
<1> QED
  BY <1>1, <1>2

LEMMA MaxOf ==
  ASSUME NEW n \in Nat, NEW T \in SUBSET (0..n), T # {}
  PROVE  Max(T) \in T /\ \A y \in T : y <= Max(T)
<1>1. \E x \in T : \A y \in T : y <= x
  BY Greatest
<1>2. Max(T) = CHOOSE x \in T : \A y \in T : x >= y
  BY DEF Max
<1> QED
  BY <1>1, <1>2

\* The position behind the tokens of a set.
LEMMA BehindAt ==
  ASSUME NEW S, NEW line \in Seq(S), NEW i \in 1..(Len(line) + 1), NEW tokens
  PROVE  /\ Behind(line, i, tokens) \in i..(Len(line) + 1)
         /\ Behind(line, i, tokens) = Len(line) + 1 \/ line[Behind(line, i, tokens)] \notin tokens
         /\ \A k \in i..(Behind(line, i, tokens) - 1) : line[k] \in tokens
<1>1. PICK n \in Nat : n = Len(line)
  OBVIOUS
<1> DEFINE T == {j \in i..(n + 1) : j = n + 1 \/ line[j] \notin tokens}
<1>2. T \in SUBSET Nat /\ n + 1 \in T
  BY <1>1
<1>3. PICK j \in T : \A k \in T : j <= k
  <2> HIDE DEF T
  <2> QED
    BY <1>2, Least
<1>4. \A k \in i..(j - 1) : line[k] \in tokens
  <2> SUFFICES ASSUME NEW k \in i..(j - 1), line[k] \notin tokens PROVE FALSE
    OBVIOUS
  <2>1. k \in T
    BY <1>3
  <2> QED
    BY <1>3, <2>1
<1>5. \E x \in i..(Len(line) + 1) : /\ x = Len(line) + 1 \/ line[x] \notin tokens
                                    /\ \A k \in i..(x - 1) : line[k] \in tokens
  BY <1>1, <1>3, <1>4
<1> QED
  BY <1>5 DEF Behind

\* From every position of a text on, what is found there and further on.
Collected(n, S, next, add, from) ==
  \E f \in [from..(n + 1) -> SUBSET S] :
    f[n + 1] = {} /\ \A j \in from..n : f[j] = add[j] \cup f[next[j]]

LEMMA Collects ==
  ASSUME NEW n \in Nat, NEW S, NEW next, NEW add,
         \A j \in 1..n : next[j] \in (j + 1)..(n + 1) /\ add[j] \in SUBSET S
  PROVE  Collected(n, S, next, add, 1)
<1> DEFINE T == {m \in Nat : m <= n => Collected(n, S, next, add, n + 1 - m)}
<1>1. 0 \in T
  <2> DEFINE f == [k \in (n + 1)..(n + 1) |-> {}]
  <2>1. f \in [(n + 1)..(n + 1) -> SUBSET S] /\ f[n + 1] = {}
    OBVIOUS
  <2>2. n + 1 - 0 = n + 1 /\ \A j \in (n + 1)..n : FALSE
    OBVIOUS
  <2> HIDE DEF f
  <2>3. Collected(n, S, next, add, n + 1)
    BY <2>1, <2>2 DEF Collected
  <2> QED
    BY <2>2, <2>3
<1>2. ASSUME NEW m \in Nat, m \in T PROVE m + 1 \in T
  <2> SUFFICES ASSUME m + 1 <= n PROVE Collected(n, S, next, add, n + 1 - (m + 1))
    OBVIOUS
  <2> DEFINE l == n + 1 - m
  <2>1. PICK f \in [l..(n + 1) -> SUBSET S] :
          f[n + 1] = {} /\ \A j \in l..n : f[j] = add[j] \cup f[next[j]]
    <3>1. Collected(n, S, next, add, l)
      BY <1>2
    <3> QED
      BY <3>1 DEF Collected
  <2>2. l \in Int /\ l > 1 /\ l - 1 \in 1..n /\ l - 1 = n + 1 - (m + 1) /\ l <= n + 1
    OBVIOUS
  <2> HIDE DEF l
  <2> DEFINE h == [j \in (l - 1)..(n + 1) |-> IF j >= l THEN f[j] ELSE add[j] \cup f[next[j]]]
  <2>3. \A j \in (l - 1)..n : next[j] \in l..(n + 1) /\ add[j] \in SUBSET S
    BY <2>2
  <2>4. h \in [(l - 1)..(n + 1) -> SUBSET S]
    <3>1. ASSUME NEW j \in (l - 1)..(n + 1) PROVE h[j] \in SUBSET S
      <4>1. CASE j >= l
        BY <2>2, <4>1
      <4>2. CASE ~(j >= l)
        <5>1. f[next[j]] \in SUBSET S /\ add[j] \in SUBSET S
          BY <2>2, <2>3, <4>2
        <5> QED
          BY <4>2, <5>1
      <4> QED
        BY <4>1, <4>2
    <3> QED
      BY <3>1
  <2>5. h[n + 1] = {}
    BY <2>1, <2>2
  <2>6. ASSUME NEW j \in (l - 1)..n PROVE h[j] = add[j] \cup h[next[j]]
    <3>1. h[next[j]] = f[next[j]]
      BY <2>2, <2>3
    <3>2. CASE j >= l
      BY <2>1, <2>2, <3>1, <3>2
    <3>3. CASE ~(j >= l)
      BY <2>2, <3>1, <3>3
    <3> QED
      BY <3>2, <3>3
  <2> HIDE DEF h
  <2>7. Collected(n, S, next, add, l - 1)
    BY <2>4, <2>5, <2>6 DEF Collected
  <2> QED
    BY <2>2, <2>7
<1> HIDE DEF T
<1>3. Nat \subseteq T
  BY <1>1, <1>2, Induct
<1>4. Collected(n, S, next, add, n + 1 - n)
  BY <1>3 DEF T
<1>5. n + 1 - n = 1
  OBVIOUS
<1> QED
  BY <1>4, <1>5

-----------------------------------------------------------------------------
(* The regions of backticks.                                               *)

\* What a region may be: it begins at a backtick and ends within the text.
Regions(text) == {s \in (1..Len(text)) \X (1..(Len(text) + 1)) : text[s[1]] = "backtick" /\ s[1] < s[2]}

\* Where the next region is looked for, and the region found.
Delimiter(text, i) == IF RunLength(text, i) >= 3 THEN RunLength(text, i) ELSE 1
Closing(text, i) == {j \in (i + Delimiter(text, i))..Len(text) : RunLength(text, j) >= Delimiter(text, i)}
Onward(text, i) == IF RunLength(text, i) = 0 THEN i + 1
                   ELSE IF Closing(text, i) = {} THEN i + RunLength(text, i)
                   ELSE Min(Closing(text, i)) + Delimiter(text, i)
Opened(text, i) == IF RunLength(text, i) # 0 /\ Closing(text, i) # {}
                   THEN {<<i, Min(Closing(text, i)) + Delimiter(text, i)>>} ELSE {}

LEMMA RunLengthAt ==
  ASSUME NEW S, NEW text \in Seq(S), NEW i \in 1..Len(text)
  PROVE  /\ RunLength(text, i) \in 0..(Len(text) + 1 - i)
         /\ RunLength(text, i) # 0 => text[i] = "backtick"
<1>1. i \in 1..(Len(text) + 1)
  OBVIOUS
<1>2. /\ Behind(text, i, {"backtick"}) \in i..(Len(text) + 1)
      /\ \A k \in i..(Behind(text, i, {"backtick"}) - 1) : text[k] \in {"backtick"}
  BY <1>1, BehindAt
<1> QED
  BY <1>2 DEF RunLength

LEMMA RegionAt ==
  ASSUME NEW S, NEW text \in Seq(S), NEW i \in 1..Len(text)
  PROVE  Onward(text, i) \in (i + 1)..(Len(text) + 1) /\ Opened(text, i) \in SUBSET Regions(text)
<1>1. PICK n \in Nat : n = Len(text)
  OBVIOUS
<1>2. PICK run \in 0..(n + 1 - i) : run = RunLength(text, i) /\ (run # 0 => text[i] = "backtick")
  BY <1>1, RunLengthAt
<1>3. CASE run = 0
  BY <1>1, <1>2, <1>3 DEF Onward, Opened
<1>4. CASE run # 0
  <2>1. PICK d \in 1..(n + 1 - i) : d = Delimiter(text, i)
    BY <1>2, <1>4 DEF Delimiter
  <2>2. PICK C \in SUBSET Nat : C = Closing(text, i)
    <3>1. PICK from \in Nat : from = i + d
      BY <2>1
    <3>2. Closing(text, i) = {j \in from..n : RunLength(text, j) >= d}
      BY <1>1, <2>1, <3>1 DEF Closing
    <3>3. Closing(text, i) \in SUBSET Nat
      BY <1>1, <3>2
    <3> QED
      BY <3>3
  <2>3. CASE C = {}
    BY <1>1, <1>2, <1>4, <2>2, <2>3 DEF Onward, Opened
  <2>4. CASE C # {}
    <3>1. PICK c \in C : c = Min(C)
      BY <2>4, MinOf
    <3>2. c \in (i + d)..n /\ RunLength(text, c) >= d
      BY <1>1, <2>1, <2>2 DEF Closing
    <3>3. RunLength(text, c) \in 0..(n + 1 - c)
      BY <1>1, <3>2, RunLengthAt
    <3>4. c + d \in (i + 1)..(n + 1)
      BY <3>2, <3>3
    <3>5. Onward(text, i) = c + d /\ Opened(text, i) = {<<i, c + d>>}
      BY <1>2, <1>4, <2>1, <2>2, <2>4, <3>1 DEF Onward, Opened
    <3>6. <<i, c + d>> \in Regions(text)
      BY <1>1, <1>2, <1>4, <3>4 DEF Regions
    <3> QED
      BY <1>1, <3>4, <3>5, <3>6
  <2> QED
    BY <2>3, <2>4
<1> QED
  BY <1>3, <1>4

\* Every region that the search finds is one.
LEMMA RegionsFound ==
  ASSUME NEW S, NEW text \in Seq(S)
  PROVE  RegionsFrom(text)[1] \in SUBSET Regions(text)
<1> DEFINE n == Len(text)
           Found(f, i) ==
             IF i > n THEN {}
             ELSE LET run == RunLength(text, i)
                      delimiter == IF run >= 3 THEN run ELSE 1
                      closing == {j \in (i + delimiter)..n : RunLength(text, j) >= delimiter}
                  IN IF run = 0 THEN f[i + 1]
                     ELSE IF closing = {} THEN f[i + run]
                     ELSE {<<i, Min(closing) + delimiter>>} \cup f[Min(closing) + delimiter]
           Collect(f, i) == IF i > n THEN {} ELSE Opened(text, i) \cup f[Onward(text, i)]
           Right(f) == f = [i \in 1..(n + 1) |-> Found(f, i)]
           Form(f) == f = [i \in 1..(n + 1) |-> Collect(f, i)]
<1>1. ASSUME NEW f PROVE Right(f) <=> Form(f)
  <2>1. ASSUME NEW i \in 1..(n + 1) PROVE Found(f, i) = Collect(f, i)
    BY DEF Opened, Onward, Closing, Delimiter
  <2> HIDE DEF Found, Collect
  <2>2. [i \in 1..(n + 1) |-> Found(f, i)] = [i \in 1..(n + 1) |-> Collect(f, i)]
    BY <2>1
  <2> QED
    BY <2>2
<1>2. \E f : Form(f)
  <2> DEFINE next == [i \in 1..n |-> Onward(text, i)]
             add == [i \in 1..n |-> Opened(text, i)]
  <2>1. \A j \in 1..n : next[j] \in (j + 1)..(n + 1) /\ add[j] \in SUBSET Regions(text)
    BY RegionAt
  <2> HIDE DEF next, add
  <2>2. Collected(n, Regions(text), next, add, 1)
    BY <2>1, Collects
  <2>3. PICK f \in [1..(n + 1) -> SUBSET Regions(text)] :
          f[n + 1] = {} /\ \A j \in 1..n : f[j] = add[j] \cup f[next[j]]
    BY <2>2 DEF Collected
  <2>4. \A j \in 1..n : f[j] = Opened(text, j) \cup f[Onward(text, j)]
    BY <2>3 DEF next, add
  <2>5. Form(f)
    BY <2>3, <2>4
  <2> QED
    BY <2>5
<1>3. RegionsFrom(text) = CHOOSE f : Right(f)
  BY DEF RegionsFrom
<1> HIDE DEF Right, Form
<1> DEFINE R == RegionsFrom(text)
<1>4. Form(R)
  BY <1>1, <1>2, <1>3
<1> HIDE DEF R
<1>b. \A i \in 1..(n + 1) : R[i] = Collect(R, i)
  <2> HIDE DEF Collect
  <2> QED
    BY <1>4 DEF Form
<1>c. R[n + 1] = {} /\ \A i \in 1..n : R[i] = Opened(text, i) \cup R[Onward(text, i)]
  <2>1. Collect(R, n + 1) = {} /\ \A i \in 1..n : Collect(R, i) = Opened(text, i) \cup R[Onward(text, i)]
    OBVIOUS
  <2> HIDE DEF Collect
  <2> QED
    BY <1>b, <2>1
<1> DEFINE T == {j \in 1..(n + 1) : R[j] \in SUBSET Regions(text)}
<1>5. n + 1 \in T
  BY <1>c
<1>6. ASSUME NEW j \in 1..n, \A k \in (j + 1)..(n + 1) : k \in T PROVE j \in T
  <2>1. Onward(text, j) \in (j + 1)..(n + 1) /\ Opened(text, j) \in SUBSET Regions(text)
    BY RegionAt
  <2>2. R[j] = Opened(text, j) \cup R[Onward(text, j)]
    BY <1>c
  <2>3. R[Onward(text, j)] \in SUBSET Regions(text)
    BY <1>6, <2>1
  <2> QED
    BY <2>1, <2>2, <2>3
<1> HIDE DEF T
<1>7. 1..(n + 1) \subseteq T
  BY <1>5, <1>6, Downward
<1> QED
  BY <1>7 DEF T, R

-----------------------------------------------------------------------------
(* The text and its lines.                                                 *)

Tokens == STRING \cup {"\n"}

\* The text with one line more.
WithLine(s, k) == s \o doc[k] \o <<"\n">>

LEMMA TextShape ==
  ASSUME doc \in Seq(Lines)
  PROVE  /\ Before \in [0..Len(doc) -> Seq(Tokens)] /\ Before[0] = <<>>
         /\ \A k \in 1..Len(doc) : Before[k] = WithLine(Before[k - 1], k)
<1> DEFINE n == Len(doc)
           S == Seq(Tokens)
           g == [p \in (1..n) \X S |-> WithLine(p[2], p[1])]
           Longer(f, k) == IF k = 0 THEN <<>> ELSE WithLine(f[k - 1], k)
           Right(f) == f = [k \in 0..n |-> Longer(f, k)]
<1>1. \A k \in 1..n : doc[k] \in Seq(Tokens)
  <2>1. \A k \in 1..n : doc[k] \in Seq(STRING)
    BY LinesAssumption
  <2> QED
    BY <2>1, SeqMonotonic DEF Tokens
<1>2. <<"\n">> \in S /\ <<>> \in S
  BY EmptySeq DEF Tokens
<1>3. \A s \in S, t \in S : s \o t \in S
  BY ConcatProperties
<1>4. g \in [(1..n) \X S -> S]
  <2>1. ASSUME NEW k \in 1..n, NEW s \in S PROVE WithLine(s, k) \in S
    BY <1>1, <1>2, <1>3 DEF WithLine
  <2> HIDE DEF S
  <2> QED
    BY <2>1
<1>5. Iterates(n, S, <<>>, g)
  BY <1>2, <1>4 DEF Iterates
<1>6. PICK f \in [0..n -> S] : f[0] = <<>> /\ \A k \in 1..n : f[k] = g[<<k, f[k - 1]>>]
  <2> HIDE DEF g, S
  <2> QED
    BY <1>5, Iteration
<1>7. \A k \in 1..n : f[k] = WithLine(f[k - 1], k)
  <2> SUFFICES ASSUME NEW k \in 1..n PROVE f[k] = WithLine(f[k - 1], k)
    OBVIOUS
  <2>1. f[k - 1] \in S
    BY <1>6
  <2> HIDE DEF S
  <2> QED
    BY <1>6, <2>1
<1>8. Right(f)
  <2>1. \A k \in 0..n : f[k] = Longer(f, k)
    BY <1>6, <1>7
  <2> HIDE DEF Longer, S
  <2> QED
    BY <1>6, <2>1
<1>9. Before = CHOOSE x : Right(x)
  BY DEF Before, WithLine
<1>10. Right(Before)
  <2> HIDE DEF Right
  <2> QED
    BY <1>8, <1>9
<1> DEFINE b == Before
<1> HIDE DEF b
<1>11. DOMAIN b = 0..n /\ b = [k \in 0..n |-> b[k]] /\ b[0] = <<>>
       /\ \A k \in 1..n : b[k] = WithLine(b[k - 1], k)
  <2>1. Longer(b, 0) = <<>> /\ \A k \in 1..n : Longer(b, k) = WithLine(b[k - 1], k)
    OBVIOUS
  <2> HIDE DEF Longer
  <2>2. b = [k \in 0..n |-> Longer(b, k)]
    BY <1>10 DEF b
  <2>3. DOMAIN b = 0..n /\ \A k \in 0..n : b[k] = Longer(b, k)
    BY <2>2
  <2>4. b = [k \in 0..n |-> b[k]]
    BY <2>2, <2>3
  <2>5. 0 \in 0..n /\ \A k \in 1..n : k \in 0..n
    OBVIOUS
  <2>6. b[0] = Longer(b, 0) /\ \A k \in 1..n : b[k] = Longer(b, k)
    BY <2>3, <2>5
  <2>7. b[0] = <<>>
    BY <2>1, <2>6
  <2>8. \A k \in 1..n : b[k] = WithLine(b[k - 1], k)
    BY <2>1, <2>6
  <2> QED
    BY <2>3, <2>4, <2>7, <2>8
<1> DEFINE T == {k \in Nat : k <= n => b[k] \in S}
<1>12. 0 \in T
  BY <1>2, <1>11
<1>13. ASSUME NEW k \in Nat, k \in T PROVE k + 1 \in T
  <2> SUFFICES ASSUME k + 1 <= n PROVE b[k + 1] \in S
    OBVIOUS
  <2>1. k + 1 \in 1..n /\ (k + 1) - 1 = k /\ b[k] \in S
    BY <1>13
  <2>2. b[k + 1] = WithLine(b[k], k + 1)
    BY <1>11, <2>1
  <2> HIDE DEF S
  <2> QED
    BY <1>1, <1>2, <1>3, <2>1, <2>2 DEF S, WithLine
<1> HIDE DEF T
<1>14. Nat \subseteq T
  BY <1>12, <1>13, Induct
<1>15. b \in [0..n -> S]
  <2>1. \A k \in 0..n : b[k] \in S
    BY <1>14 DEF T
  <2> HIDE DEF S
  <2> QED
    BY <1>11, <2>1
<1> QED
  BY <1>11, <1>15 DEF b

\* Where a line ends is where the next one starts; no line is empty, a break
\* ends it.
LEMMA TextLength ==
  ASSUME doc \in Seq(Lines)
  PROVE  /\ \A k \in 0..Len(doc) : Len(Before[k]) \in Nat
         /\ \A k \in 1..Len(doc) : Len(Before[k - 1]) < Len(Before[k])
         /\ Text \in Seq(Tokens) /\ Text = Before[Len(doc)]
<1>1. PICK n \in Nat : n = Len(doc)
  OBVIOUS
<1>2. \A k \in 0..n : Before[k] \in Seq(Tokens)
  BY <1>1, TextShape
<1>3. ASSUME NEW k \in 1..n PROVE Len(Before[k - 1]) < Len(Before[k])
  <2>1. PICK s \in Seq(Tokens) : s = Before[k - 1]
    BY <1>2
  <2>2. Before[k] = WithLine(s, k)
    BY <1>1, <2>1, TextShape
  <2>3. doc[k] \in Seq(STRING)
    BY <1>1, LinesAssumption
  <2>4. PICK t \in Seq(Tokens) : t = doc[k]
    BY <2>3, SeqMonotonic DEF Tokens
  <2>5. s \o t \in Seq(Tokens) /\ Len(s \o t) = Len(s) + Len(t)
    BY ConcatProperties
  <2>6. <<"\n">> \in Seq(Tokens) /\ Len(<<"\n">>) = 1
    BY DEF Tokens
  <2>7. Len((s \o t) \o <<"\n">>) = Len(s \o t) + Len(<<"\n">>)
    BY <2>5, <2>6, ConcatProperties
  <2>8. Len(WithLine(s, k)) = Len(s) + Len(t) + 1
    BY <2>4, <2>5, <2>6, <2>7 DEF WithLine
  <2> QED
    BY <2>1, <2>2, <2>8
<1>4. \A k \in 0..n : Len(Before[k]) \in Nat
  BY <1>2
<1>5. Text = Before[n] /\ Text \in Seq(Tokens)
  BY <1>1, <1>2 DEF Text
<1> QED
  BY <1>1, <1>3, <1>4, <1>5

LEMMA LinesInOrder ==
  ASSUME doc \in Seq(Lines), NEW j \in 0..Len(doc), NEW k \in j..Len(doc)
  PROVE  Len(Before[j]) <= Len(Before[k])
<1>1. PICK n \in Nat : n = Len(doc)
  OBVIOUS
<1> DEFINE T == {m \in Nat : (j + m <= n) => Len(Before[j]) <= Len(Before[j + m])}
<1>2. 0 \in T
  BY <1>1, TextLength
<1>3. ASSUME NEW m \in Nat, m \in T PROVE m + 1 \in T
  <2> SUFFICES ASSUME j + (m + 1) <= n PROVE Len(Before[j]) <= Len(Before[j + (m + 1)])
    OBVIOUS
  <2>1. PICK q \in 1..n : q = j + (m + 1) /\ q - 1 = j + m
    BY <1>1
  <2>2. Len(Before[q - 1]) < Len(Before[q]) /\ Len(Before[q - 1]) \in Nat /\ Len(Before[q]) \in Nat
        /\ Len(Before[j]) \in Nat
    BY <1>1, <2>1, TextLength
  <2>3. Len(Before[j]) <= Len(Before[q - 1])
    BY <1>3, <2>1
  <2> QED
    BY <2>1, <2>2, <2>3
<1> HIDE DEF T
<1>4. Nat \subseteq T
  BY <1>2, <1>3, Induct
<1>5. PICK m \in Nat : k = j + m
  BY <1>1
<1> QED
  BY <1>1, <1>4, <1>5 DEF T

LEMMA LineBounds ==
  ASSUME doc \in Seq(Lines)
  PROVE  /\ Len(Text) \in Nat
         /\ \A k \in 1..Len(doc) : /\ LineStart(k) \in 1..Len(Text)
                                   /\ LineEnd(k) \in (LineStart(k) + 1)..(Len(Text) + 1)
         /\ \A j \in 1..Len(doc), k \in 1..Len(doc) :
              /\ j < k => LineEnd(j) <= LineStart(k)
              /\ j <= k => LineStart(j) <= LineStart(k) /\ LineEnd(j) <= LineEnd(k)
<1>1. PICK n \in Nat : n = Len(doc)
  OBVIOUS
<1>2. Len(Text) = Len(Before[n]) /\ Len(Text) \in Nat
  BY <1>1, TextLength
<1>3. ASSUME NEW k \in 1..n
      PROVE  LineStart(k) \in 1..Len(Text) /\ LineEnd(k) \in (LineStart(k) + 1)..(Len(Text) + 1)
  <2>1. Len(Before[k - 1]) \in Nat /\ Len(Before[k]) \in Nat /\ Len(Before[k - 1]) < Len(Before[k])
    BY <1>1, TextLength
  <2>2. Len(Before[k]) <= Len(Before[n])
    <3>1. k \in 0..n /\ n \in k..n
      OBVIOUS
    <3> QED
      BY <1>1, <3>1, LinesInOrder
  <2> QED
    BY <1>2, <2>1, <2>2, SMTT(30) DEF LineStart, LineEnd
<1>4. ASSUME NEW j \in 1..n, NEW k \in 1..n
      PROVE  /\ j < k => LineEnd(j) <= LineStart(k)
             /\ j <= k => LineStart(j) <= LineStart(k) /\ LineEnd(j) <= LineEnd(k)
  <2>1. \A x \in 0..n : Len(Before[x]) \in Nat
    BY <1>1, TextLength
  <2>2. ASSUME NEW x \in 0..n, NEW y \in x..n PROVE Len(Before[x]) <= Len(Before[y])
    BY <1>1, LinesInOrder
  <2>3. PICK a \in 0..n : a = j - 1
    OBVIOUS
  <2>4. PICK b \in 0..n : b = k - 1
    OBVIOUS
  <2>5. j < k => Len(Before[j]) <= Len(Before[b])
    BY <2>2, <2>4
  <2>6. j <= k => Len(Before[a]) <= Len(Before[b]) /\ Len(Before[j]) <= Len(Before[k])
    BY <2>2, <2>3, <2>4
  <2> QED
    BY <2>1, <2>3, <2>4, <2>5, <2>6 DEF LineStart, LineEnd
<1> QED
  BY <1>1, <1>2, <1>3, <1>4

\* A backtick of the text is a backtick of a line.
LEMMA BacktickLine ==
  ASSUME doc \in Seq(Lines), NEW i \in 1..Len(Text), Text[i] = "backtick"
  PROVE  \E k \in 1..Len(doc) : "backtick" \in Chars(doc[k])
<1>1. PICK n \in Nat : n = Len(doc)
  OBVIOUS
<1>2. SUFFICES ASSUME \A k \in 1..n : "backtick" \notin Chars(doc[k]) PROVE FALSE
  BY <1>1
<1> DEFINE T == {k \in Nat : k <= n => \A p \in 1..Len(Before[k]) : Before[k][p] # "backtick"}
<1>3. 0 \in T
  BY TextShape
<1>4. ASSUME NEW k \in Nat, k \in T PROVE k + 1 \in T
  <2> SUFFICES ASSUME k + 1 <= n, NEW p \in 1..Len(Before[k + 1]) PROVE Before[k + 1][p] # "backtick"
    OBVIOUS
  <2>1. PICK q \in 1..n : q = k + 1 /\ q - 1 = k
    OBVIOUS
  <2>2. PICK s \in Seq(Tokens) : s = Before[k]
    <3>1. k \in 0..n
      BY <2>1
    <3> QED
      BY <1>1, <3>1, TextShape
  <2>3. Before[q] = WithLine(s, q)
    BY <1>1, <2>1, <2>2, TextShape
  <2>4. doc[q] \in Seq(STRING)
    BY <1>1, LinesAssumption
  <2>5. PICK t \in Seq(Tokens) : t = doc[q]
    BY <2>4, SeqMonotonic DEF Tokens
  <2>6. \A x \in 1..Len(s) : s[x] # "backtick"
    BY <1>4, <2>1, <2>2
  <2>7. \A x \in 1..Len(t) : t[x] # "backtick"
    BY <1>2, <2>4, <2>5 DEF Chars
  <2>8. /\ s \o t \in Seq(Tokens) /\ Len(s \o t) = Len(s) + Len(t)
        /\ \A x \in 1..(Len(s) + Len(t)) : (s \o t)[x] = IF x <= Len(s) THEN s[x] ELSE t[x - Len(s)]
    BY ConcatProperties
  <2>9. \A x \in 1..(Len(s) + Len(t)) : (s \o t)[x] # "backtick"
    BY <2>6, <2>7, <2>8
  <2>10. PICK u \in Seq(Tokens) : u = s \o t /\ Len(u) = Len(s) + Len(t)
    BY <2>8
  <2>11. PICK end \in Seq(Tokens) : end = <<"\n">> /\ Len(end) = 1 /\ end[1] # "backtick"
    <3>1. "\n" # "backtick"
      OBVIOUS
    <3>2. <<"\n">> \in Seq(Tokens) /\ Len(<<"\n">>) = 1 /\ <<"\n">>[1] = "\n"
      BY DEF Tokens
    <3> QED
      BY <3>1, <3>2
  <2>12. /\ Len(u \o end) = Len(u) + Len(end)
         /\ \A x \in 1..(Len(u) + Len(end)) : (u \o end)[x] = IF x <= Len(u) THEN u[x] ELSE end[x - Len(u)]
    BY ConcatProperties
  <2>13. \A x \in 1..Len(u) : u[x] # "backtick"
    BY <2>9, <2>10
  <2>14. \A x \in 1..Len(u \o end) : (u \o end)[x] # "backtick"
    BY <2>11, <2>12, <2>13
  <2>15. Before[q] = u \o end
    BY <2>3, <2>5, <2>10, <2>11 DEF WithLine
  <2> QED
    BY <2>1, <2>14, <2>15
<1> HIDE DEF T
<1>5. Nat \subseteq T
  BY <1>3, <1>4, Induct
<1>6. \A p \in 1..Len(Before[n]) : Before[n][p] # "backtick"
  BY <1>5 DEF T
<1>7. Text = Before[n]
  BY <1>1, TextLength
<1> QED
  BY <1>6, <1>7

-----------------------------------------------------------------------------
(* A line as the scanner reads it.                                         *)

Spelled == {"f", "n", "i", "o", "F", "C3", "BC", "a", "B", "_", "b", "l", "t", "h", "p", ":", "/",
            "w", ".", "=", ">", "u", "\n"}
ByteNames == STRING \cup Spelled

LEMMA BytesOfToken ==
  ASSUME NEW token \in STRING
  PROVE  /\ BytesOf(token) \in Seq(ByteNames)
         /\ token = "backtick" => BytesOf(token) = <<"backtick">>
<1>1. DOMAIN TokenBytes = {"fn", "if", "foo", "Foo", "uc", "aB", "a_b", "lt", "http", "arrow", "comment", "include"}
  BY DEF TokenBytes
<1>2. CASE token \notin DOMAIN TokenBytes
  <2>1. BytesOf(token) = <<token>> /\ token \in ByteNames
    BY <1>2 DEF BytesOf, ByteNames
  <2> QED
    BY <2>1
<1>3. CASE token \in DOMAIN TokenBytes
  <2>1. BytesOf(token) = TokenBytes[token] /\ token # "backtick"
    BY <1>1, <1>3 DEF BytesOf
  <2>2. /\ TokenBytes.fn = <<"f", "n">> /\ TokenBytes.if = <<"i", "f">> /\ TokenBytes.foo = <<"f", "o", "o">>
        /\ TokenBytes.Foo = <<"F", "o", "o">> /\ TokenBytes.uc = <<"C3", "BC", "n">>
        /\ TokenBytes.aB = <<"a", "B">> /\ TokenBytes.a_b = <<"a", "_", "b">> /\ TokenBytes.lt = <<"l", "t">>
        /\ TokenBytes.http = <<"h", "t", "t", "p", ":", "/", "/", "w", ".", "a">>
        /\ TokenBytes.arrow = <<"=", ">">> /\ TokenBytes.comment = <<"/", "/">>
        /\ TokenBytes.include = <<"i", "n", "l", "u">>
    BY DEF TokenBytes
  <2>3. /\ <<"f", "n">> \in Seq(ByteNames) /\ <<"i", "f">> \in Seq(ByteNames)
        /\ <<"f", "o", "o">> \in Seq(ByteNames) /\ <<"F", "o", "o">> \in Seq(ByteNames)
        /\ <<"C3", "BC", "n">> \in Seq(ByteNames) /\ <<"a", "B">> \in Seq(ByteNames)
        /\ <<"a", "_", "b">> \in Seq(ByteNames) /\ <<"l", "t">> \in Seq(ByteNames)
    BY DEF ByteNames, Spelled
  <2>4. /\ <<"h", "t", "t", "p", ":", "/", "/", "w", ".", "a">> \in Seq(ByteNames)
        /\ <<"=", ">">> \in Seq(ByteNames) /\ <<"/", "/">> \in Seq(ByteNames)
        /\ <<"i", "n", "l", "u">> \in Seq(ByteNames)
    BY DEF ByteNames, Spelled
  <2>5. TokenBytes[token] \in Seq(ByteNames)
    BY <1>1, <1>3, <2>2, <2>3, <2>4
  <2> QED
    BY <2>1, <2>5
<1> QED
  BY <1>2, <1>3

\* The bytes of the first tokens of a line.
Spelling(line) ==
  LET bytes[k \in 0..Len(line)] == IF k = 0 THEN <<>> ELSE bytes[k - 1] \o BytesOf(line[k])
  IN bytes
WithToken(s, token) == s \o BytesOf(token)

LEMMA SpellingShape ==
  ASSUME NEW line \in Seq(STRING)
  PROVE  /\ Spelling(line) \in [0..Len(line) -> Seq(ByteNames)] /\ Spelling(line)[0] = <<>>
         /\ \A k \in 1..Len(line) : Spelling(line)[k] = WithToken(Spelling(line)[k - 1], line[k])
<1> DEFINE n == Len(line)
           S == Seq(ByteNames)
           g == [p \in (1..n) \X S |-> WithToken(p[2], line[p[1]])]
           Longer(f, k) == IF k = 0 THEN <<>> ELSE WithToken(f[k - 1], line[k])
           Right(f) == f = [k \in 0..n |-> Longer(f, k)]
<1>1. <<>> \in S
  BY EmptySeq
<1>2. \A s \in S, k \in 1..n : WithToken(s, line[k]) \in S
  <2>1. ASSUME NEW s \in S, NEW k \in 1..n PROVE WithToken(s, line[k]) \in S
    <3>1. PICK token \in STRING : token = line[k]
      BY ElementOfSeq
    <3>2. BytesOf(token) \in Seq(ByteNames)
      BY BytesOfToken
    <3> QED
      BY <3>1, <3>2, ConcatProperties DEF WithToken
  <2> QED
    BY <2>1
<1>3. g \in [(1..n) \X S -> S]
  <2> HIDE DEF S
  <2> QED
    BY <1>2
<1>4. Iterates(n, S, <<>>, g)
  BY <1>1, <1>3 DEF Iterates
<1>5. PICK f \in [0..n -> S] : f[0] = <<>> /\ \A k \in 1..n : f[k] = g[<<k, f[k - 1]>>]
  <2> HIDE DEF g, S
  <2> QED
    BY <1>4, Iteration
<1>6. \A k \in 1..n : f[k] = WithToken(f[k - 1], line[k])
  <2> SUFFICES ASSUME NEW k \in 1..n PROVE f[k] = WithToken(f[k - 1], line[k])
    OBVIOUS
  <2>1. f[k - 1] \in S
    BY <1>5
  <2> HIDE DEF S
  <2> QED
    BY <1>5, <2>1
<1>7. Right(f)
  <2>1. \A k \in 0..n : f[k] = Longer(f, k)
    BY <1>5, <1>6
  <2> HIDE DEF Longer, S
  <2> QED
    BY <1>5, <2>1
<1>8. Spelling(line) = CHOOSE x : Right(x)
  BY DEF Spelling, WithToken
<1>9. Right(Spelling(line))
  <2> HIDE DEF Right
  <2> QED
    BY <1>7, <1>8
<1> DEFINE b == Spelling(line)
<1> HIDE DEF b
<1>10. DOMAIN b = 0..n /\ b = [k \in 0..n |-> b[k]] /\ b[0] = <<>>
       /\ \A k \in 1..n : b[k] = WithToken(b[k - 1], line[k])
  <2>1. Longer(b, 0) = <<>> /\ \A k \in 1..n : Longer(b, k) = WithToken(b[k - 1], line[k])
    OBVIOUS
  <2> HIDE DEF Longer
  <2>2. b = [k \in 0..n |-> Longer(b, k)]
    BY <1>9 DEF b
  <2>3. DOMAIN b = 0..n /\ \A k \in 0..n : b[k] = Longer(b, k)
    BY <2>2
  <2>4. b = [k \in 0..n |-> b[k]]
    BY <2>2, <2>3
  <2>5. 0 \in 0..n /\ \A k \in 1..n : k \in 0..n
    OBVIOUS
  <2>6. b[0] = Longer(b, 0) /\ \A k \in 1..n : b[k] = Longer(b, k)
    BY <2>3, <2>5
  <2>7. b[0] = <<>>
    BY <2>1, <2>6
  <2>8. \A k \in 1..n : b[k] = WithToken(b[k - 1], line[k])
    BY <2>1, <2>6
  <2> QED
    BY <2>3, <2>4, <2>7, <2>8
<1> DEFINE T == {k \in Nat : k <= n => b[k] \in S}
<1>11. 0 \in T
  BY <1>1, <1>10
<1>12. ASSUME NEW k \in Nat, k \in T PROVE k + 1 \in T
  <2> SUFFICES ASSUME k + 1 <= n PROVE b[k + 1] \in S
    OBVIOUS
  <2>1. k + 1 \in 1..n /\ (k + 1) - 1 = k /\ b[k] \in S
    BY <1>12
  <2>2. b[k + 1] = WithToken(b[k], line[k + 1])
    BY <1>10, <2>1
  <2> HIDE DEF S
  <2> QED
    BY <1>2, <2>1, <2>2
<1> HIDE DEF T
<1>13. Nat \subseteq T
  BY <1>11, <1>12, Induct
<1>14. b \in [0..n -> S]
  <2>1. \A k \in 0..n : b[k] \in S
    BY <1>13 DEF T
  <2> HIDE DEF S
  <2> QED
    BY <1>10, <2>1
<1> QED
  BY <1>10, <1>14 DEF b

\* What a token spells is part of the line's bytes: a backtick is.
LEMMA LineBytes ==
  ASSUME NEW line \in Seq(STRING)
  PROVE  /\ Bytes(line) \in Seq(ByteNames)
         /\ "backtick" \in Chars(line) => \E p \in 1..Len(Bytes(line)) : Bytes(line)[p] = "backtick"
<1>1. PICK n \in Nat : n = Len(line)
  OBVIOUS
<1>2. PICK b : b = Spelling(line)
  OBVIOUS
<1>3. /\ b \in [0..n -> Seq(ByteNames)] /\ b[0] = <<>>
      /\ \A k \in 1..n : b[k] = WithToken(b[k - 1], line[k])
  BY <1>1, <1>2, SpellingShape
<1>4. PICK s \in Seq(ByteNames) : s = b[n]
  BY <1>3
<1>5. PICK end \in Seq(ByteNames) : end = <<"\n">> /\ Len(end) = 1
  <2>1. "\n" \in ByteNames
    BY DEF ByteNames, Spelled
  <2>2. <<"\n">> \in Seq(ByteNames) /\ Len(<<"\n">>) = 1
    BY <2>1
  <2> QED
    BY <2>2
<1>6. Bytes(line) = s \o end
  BY <1>1, <1>2, <1>4, <1>5 DEF Bytes, Spelling
<1>7. /\ s \o end \in Seq(ByteNames) /\ Len(s \o end) = Len(s) + Len(end)
      /\ \A x \in 1..(Len(s) + Len(end)) : (s \o end)[x] = IF x <= Len(s) THEN s[x] ELSE end[x - Len(s)]
  BY ConcatProperties
<1>8. ASSUME NEW i \in 1..n, line[i] = "backtick"
      PROVE  \E p \in 1..Len(s) : s[p] = "backtick"
  <2> DEFINE T == {m \in Nat : i + m <= n => \E p \in 1..Len(b[i + m]) : b[i + m][p] = "backtick"}
  <2>1. 0 \in T
    <3>1. PICK u \in Seq(ByteNames) : u = b[i - 1]
      BY <1>3
    <3>2. PICK v \in Seq(ByteNames) : v = <<"backtick">> /\ v = BytesOf(line[i]) /\ Len(v) = 1 /\ v[1] = "backtick"
      <4>1. BytesOf(line[i]) = <<"backtick">> /\ BytesOf(line[i]) \in Seq(ByteNames)
        <5>1. PICK token \in STRING : token = line[i]
          BY <1>1, ElementOfSeq
        <5> QED
          BY <1>8, <5>1, BytesOfToken
      <4>2. Len(<<"backtick">>) = 1 /\ <<"backtick">>[1] = "backtick"
        OBVIOUS
      <4>3. PICK v \in Seq(ByteNames) : v = BytesOf(line[i])
        BY <4>1
      <4>4. Len(v) = 1 /\ v[1] = "backtick" /\ v = <<"backtick">>
        BY <4>1, <4>2, <4>3
      <4> QED
        BY <4>3, <4>4
    <3>3. b[i] = u \o v
      BY <1>3, <3>1, <3>2 DEF WithToken
    <3>4. /\ Len(u \o v) = Len(u) + Len(v)
          /\ \A x \in 1..(Len(u) + Len(v)) : (u \o v)[x] = IF x <= Len(u) THEN u[x] ELSE v[x - Len(u)]
      BY ConcatProperties
    <3>5. Len(u) + 1 \in 1..Len(u \o v) /\ (u \o v)[Len(u) + 1] = "backtick"
      BY <3>2, <3>4
    <3> QED
      BY <3>3, <3>5
  <2>2. ASSUME NEW m \in Nat, m \in T PROVE m + 1 \in T
    <3> SUFFICES ASSUME i + (m + 1) <= n
                 PROVE  \E p \in 1..Len(b[i + (m + 1)]) : b[i + (m + 1)][p] = "backtick"
      OBVIOUS
    <3>1. PICK q \in 1..n : q = i + (m + 1) /\ q - 1 = i + m
      OBVIOUS
    <3>2. PICK u \in Seq(ByteNames) : u = b[q - 1]
      BY <1>3, <3>1
    <3>3. PICK v \in Seq(ByteNames) : v = BytesOf(line[q])
      <4>1. PICK token \in STRING : token = line[q]
        BY <1>1, ElementOfSeq
      <4>2. BytesOf(token) \in Seq(ByteNames)
        BY BytesOfToken
      <4> QED
        BY <4>1, <4>2
    <3>4. b[q] = u \o v
      BY <1>3, <3>1, <3>2, <3>3 DEF WithToken
    <3>5. PICK p \in 1..Len(u) : u[p] = "backtick"
      BY <2>2, <3>1, <3>2
    <3>6. /\ Len(u \o v) = Len(u) + Len(v)
          /\ \A x \in 1..(Len(u) + Len(v)) : (u \o v)[x] = IF x <= Len(u) THEN u[x] ELSE v[x - Len(u)]
      BY ConcatProperties
    <3>7. p \in 1..Len(u \o v) /\ (u \o v)[p] = "backtick"
      BY <3>5, <3>6
    <3> QED
      BY <3>1, <3>4, <3>7
  <2> HIDE DEF T
  <2>3. Nat \subseteq T
    BY <2>1, <2>2, Induct
  <2>4. PICK m \in Nat : i + m = n
    OBVIOUS
  <2> QED
    BY <1>4, <2>3, <2>4 DEF T
<1>9. ASSUME "backtick" \in Chars(line) PROVE \E p \in 1..Len(Bytes(line)) : Bytes(line)[p] = "backtick"
  <2>1. PICK i \in 1..n : line[i] = "backtick"
    BY <1>1, <1>9 DEF Chars
  <2>2. PICK p \in 1..Len(s) : s[p] = "backtick"
    BY <1>8, <2>1
  <2>3. p \in 1..Len(s \o end) /\ (s \o end)[p] = "backtick"
    BY <1>5, <1>7, <2>2
  <2> QED
    BY <1>6, <2>3
<1> QED
  BY <1>6, <1>7, <1>9

\* The scan of a line, unit by unit.
ScanStates(text) == [index : 1..(Len(text) + 1), tracker : Trackers]
ScanStep(text, s) ==
  IF s.index > Len(text) THEN s
  ELSE [index |-> UnitAt(text, s.index).end,
        tracker |-> Observe(s.tracker, UnitAt(text, s.index).kind,
                            SubSeq(text, s.index, UnitAt(text, s.index).end - 1))]

\* How far a scan has come: at a boundary, a byte or more for every unit, and
\* no backtick passed without the hint.
Scanned(text, k, s) ==
  /\ s \in ScanStates(text)
  /\ s.index \in Whole(text)
  /\ s.index > k \/ s.index = Len(text) + 1
  /\ \A p \in 1..(s.index - 1) : text[p] = "backtick" => s.tracker.hints.backtick

LEMMA ScanOn ==
  ASSUME NEW S, NEW text \in Seq(S), NEW k \in Nat, NEW s, Scanned(text, k, s)
  PROVE  Scanned(text, k + 1, ScanStep(text, s))
<1>1. PICK n \in Nat : n = Len(text)
  OBVIOUS
<1>2. s.index \in 1..(n + 1) /\ s.index \in Whole(text) /\ s.tracker \in Trackers
  BY <1>1 DEF Scanned, ScanStates, Whole
<1>3. CASE s.index > n
  <2>1. ScanStep(text, s) = s
    BY <1>1, <1>3 DEF ScanStep
  <2>2. s.index = n + 1
    BY <1>2, <1>3
  <2> QED
    BY <1>1, <2>1, <2>2 DEF Scanned
<1>4. CASE ~(s.index > n)
  <2>1. PICK i \in 1..n : i = s.index /\ i \in Whole(text)
    BY <1>2, <1>4
  <2>2. PICK t \in Trackers : t = s.tracker
    BY <1>2
  <2>3. /\ UnitAt(text, i) = [kind |-> KindAt(text, i), start |-> i, end |-> UnitAt(text, i).end]
        /\ UnitAt(text, i).end \in (i + 1)..(n + 1)
        /\ UnitAt(text, i).end \in Whole(text)
        /\ \A p \in i..(UnitAt(text, i).end - 1) : p \in Content(text, KindAt(text, i))
    BY <1>1, <2>1, UnitShape
  <2>4. PICK e \in (i + 1)..(n + 1) : e = UnitAt(text, i).end
    BY <2>3
  <2>5. PICK kind : kind = UnitAt(text, i).kind /\ kind = KindAt(text, i)
    BY <2>3
  <2>6. PICK bytes : bytes = SubSeq(text, i, e - 1)
    OBVIOUS
  <2>7. PICK u \in Trackers : u = Observe(t, kind, bytes)
    BY ObserveType
  <2>8. ScanStep(text, s) = [index |-> e, tracker |-> u]
    BY <1>1, <1>4, <2>1, <2>2, <2>4, <2>5, <2>6, <2>7 DEF ScanStep
  <2>9. u.hints.backtick = (t.hints.backtick \/ Backtick(kind, bytes))
    BY <2>7, ObserveEffects
  <2>10. t.hints.backtick \in BOOLEAN
    BY DEF Trackers
  <2>11. ASSUME NEW p \in 1..(e - 1), text[p] = "backtick" PROVE u.hints.backtick
    <3>1. CASE p < i
      <4>1. t.hints.backtick
        BY <2>1, <2>2, <2>11, <3>1 DEF Scanned
      <4> QED
        BY <2>9, <2>10, <4>1
    <3>2. CASE ~(p < i)
      <4>1. p \in i..(e - 1)
        BY <3>2
      <4>2. kind = "Punctuation"
        BY <2>3, <2>4, <2>5, <2>11, <4>1 DEF Content
      <4>3. PICK b \in Seq(S) : b = bytes /\ Len(b) = e - i /\ Part(text, i, b)
        BY <1>1, <2>1, <2>6, SubSeqIsPart
      <4>4. PICK q \in 1..(e - i) : i + q - 1 = p
        <5>1. p - i + 1 \in 1..(e - i) /\ i + (p - i + 1) - 1 = p
          BY <4>1
        <5> QED
          BY <5>1
      <4>5. b[q] = text[p]
        BY <4>3, <4>4 DEF Part
      <4>6. "backtick" \in Chars(bytes)
        BY <2>11, <4>3, <4>4, <4>5 DEF Chars
      <4> QED
        BY <2>9, <2>10, <4>2, <4>6 DEF Backtick
    <3> QED
      BY <3>1, <3>2
  <2>12. e \in 1..(n + 1) /\ (e > k + 1 \/ e = n + 1)
    BY <1>1, <2>1 DEF Scanned
  <2> QED
    BY <1>1, <2>3, <2>4, <2>8, <2>11, <2>12 DEF Scanned, ScanStates
<1> QED
  BY <1>3, <1>4

LEMMA ScanStays ==
  ASSUME NEW S, NEW text \in Seq(S), NEW s \in ScanStates(text)
  PROVE  ScanStep(text, s) \in ScanStates(text)
<1>1. PICK n \in Nat : n = Len(text)
  OBVIOUS
<1>2. s.index \in 1..(n + 1) /\ s.tracker \in Trackers
  BY <1>1 DEF ScanStates
<1>3. CASE s.index > n
  BY <1>1, <1>3 DEF ScanStep
<1>4. CASE ~(s.index > n)
  <2>1. PICK i \in 1..n : i = s.index
    BY <1>2, <1>4
  <2>2. UnitAt(text, i).end \in 1..(n + 1)
    BY <1>1, UnitShape
  <2>3. Observe(s.tracker, UnitAt(text, i).kind, SubSeq(text, i, UnitAt(text, i).end - 1)) \in Trackers
    BY <1>2, ObserveType
  <2> QED
    BY <1>1, <1>4, <2>1, <2>2, <2>3 DEF ScanStep, ScanStates
<1> QED
  BY <1>3, <1>4

LEMMA ScanShape ==
  ASSUME NEW S, NEW text \in Seq(S)
  PROVE  \A k \in 0..Len(text) : Scanned(text, k, Scan(text)[k])
<1> DEFINE n == Len(text)
           start == [index |-> 1, tracker |-> NewTracker]
           g == [p \in (1..n) \X ScanStates(text) |-> ScanStep(text, p[2])]
           Then(f, k) == IF k = 0 THEN start ELSE ScanStep(text, f[k - 1])
           Right(f) == f = [k \in 0..n |-> Then(f, k)]
<1>1. start \in ScanStates(text)
  BY TrackerRecords DEF ScanStates
<1>2. g \in [(1..n) \X ScanStates(text) -> ScanStates(text)]
  BY ScanStays
<1> HIDE DEF start
<1>3. Iterates(n, ScanStates(text), start, g)
  BY <1>1, <1>2 DEF Iterates
<1>4. PICK f \in [0..n -> ScanStates(text)] : f[0] = start /\ \A k \in 1..n : f[k] = g[<<k, f[k - 1]>>]
  <2> HIDE DEF g
  <2> QED
    BY <1>3, Iteration
<1>5. \A k \in 1..n : f[k] = ScanStep(text, f[k - 1])
  <2> SUFFICES ASSUME NEW k \in 1..n PROVE f[k] = ScanStep(text, f[k - 1])
    OBVIOUS
  <2>1. f[k - 1] \in ScanStates(text)
    BY <1>4
  <2> QED
    BY <1>4, <2>1
<1>6. Right(f)
  <2>1. \A k \in 0..n : f[k] = Then(f, k)
    BY <1>4, <1>5
  <2> HIDE DEF Then
  <2> QED
    BY <1>4, <2>1
<1>7. Scan(text) = CHOOSE x : Right(x)
  BY DEF Scan, ScanStep, start
<1>8. Right(Scan(text))
  <2> HIDE DEF Right
  <2> QED
    BY <1>6, <1>7
<1> DEFINE b == Scan(text)
<1> HIDE DEF b
<1>9. b[0] = start /\ \A k \in 1..n : b[k] = ScanStep(text, b[k - 1])
  <2>1. Then(b, 0) = start /\ \A k \in 1..n : Then(b, k) = ScanStep(text, b[k - 1])
    OBVIOUS
  <2> HIDE DEF Then
  <2>2. b = [k \in 0..n |-> Then(b, k)]
    BY <1>8 DEF b
  <2>3. \A k \in 0..n : b[k] = Then(b, k)
    BY <2>2
  <2>4. 0 \in 0..n /\ \A k \in 1..n : k \in 0..n
    OBVIOUS
  <2> QED
    BY <2>1, <2>3, <2>4
<1> DEFINE T == {k \in Nat : k <= n => Scanned(text, k, b[k])}
<1>10. 0 \in T
  <2>1. 1 \in Whole(text) /\ start.index = 1
    BY DEF Whole, start
  <2>2. Scanned(text, 0, start)
    BY <1>1, <2>1 DEF Scanned
  <2> QED
    BY <1>9, <2>2
<1>11. ASSUME NEW k \in Nat, k \in T PROVE k + 1 \in T
  <2> SUFFICES ASSUME k + 1 <= n PROVE Scanned(text, k + 1, b[k + 1])
    OBVIOUS
  <2>1. k + 1 \in 1..n /\ (k + 1) - 1 = k
    OBVIOUS
  <2>2. PICK s : s = b[k]
    OBVIOUS
  <2>3. Scanned(text, k, s)
    BY <1>11, <2>2
  <2>4. b[k + 1] = ScanStep(text, s)
    BY <1>9, <2>1, <2>2
  <2>5. Scanned(text, k + 1, ScanStep(text, s))
    BY <2>3, ScanOn
  <2> QED
    BY <2>4, <2>5
<1> HIDE DEF T
<1>12. Nat \subseteq T
  BY <1>10, <1>11, Induct
<1> QED
  BY <1>12 DEF T, b

\* A line with a backtick has the hint.
LEMMA BacktickHint ==
  ASSUME NEW line \in Lines
  PROVE  "backtick" \in Chars(line) => LineHints[line].backtick
<1> SUFFICES ASSUME "backtick" \in Chars(line) PROVE LineHints[line].backtick
  OBVIOUS
<1>1. line \in Seq(STRING)
  BY LinesAssumption
<1>2. PICK text \in Seq(ByteNames) : text = Bytes(line)
  BY <1>1, LineBytes
<1>3. PICK p \in 1..Len(text) : text[p] = "backtick"
  BY <1>1, <1>2, LineBytes
<1>4. PICK n \in Nat : n = Len(text)
  OBVIOUS
<1>5. PICK s : s = Scan(text)[n]
  OBVIOUS
<1>6. Scanned(text, n, s)
  BY <1>4, <1>5, ScanShape
<1>7. s.tracker \in Trackers /\ p \in 1..(s.index - 1)
  BY <1>3, <1>4, <1>6 DEF Scanned, ScanStates
<1>8. s.tracker.hints.backtick
  BY <1>3, <1>6, <1>7 DEF Scanned
<1>9. Finish(s.tracker).backtick = s.tracker.hints.backtick
  BY <1>7, TrackerRecords DEF Finish, HintRecords
<1>10. LineHints[line] = Finish(s.tracker)
  BY <1>2, <1>4, <1>5 DEF LineHints
<1> QED
  BY <1>8, <1>9, <1>10

-----------------------------------------------------------------------------
(* What the passes find.                                                   *)

Covers(found) == UNION {s[1]..(s[2] - 1) : s \in found}
Inside(found, n) == \A s \in found : s[1] \in 1..(n + 1) /\ s[2] \in 1..(n + 1)

LEMMA ExplicitWithin ==
  ASSUME doc \in Seq(Lines), judged = [k \in DOMAIN doc |-> Judged[doc[k]]]
  PROVE  /\ Inside(ExplicitSpans, Len(Text))
         /\ ExplicitSpans # {} => Hint("backtick")
<1>1. Text \in Seq(Tokens)
  BY TextLength
<1>2. ExplicitSpans \in SUBSET Regions(Text)
  <2>1. PICK text \in Seq(Tokens) : text = Text
    BY <1>1
  <2>2. RegionsFrom(text)[1] \in SUBSET Regions(text)
    BY RegionsFound
  <2> QED
    BY <2>1, <2>2 DEF ExplicitSpans
<1>3. Inside(ExplicitSpans, Len(Text))
  BY <1>1, <1>2 DEF Inside, Regions
<1>4. ASSUME ExplicitSpans # {} PROVE Hint("backtick")
  <2>1. PICK s \in Regions(Text) : TRUE
    BY <1>2, <1>4
  <2>2. PICK i \in 1..Len(Text) : Text[i] = "backtick"
    BY <2>1 DEF Regions
  <2>3. PICK k \in 1..Len(doc) : "backtick" \in Chars(doc[k])
    BY <2>2, BacktickLine
  <2>4. PICK line \in Lines : line = doc[k]
    BY <2>3
  <2>5. LineHints[line].backtick
    BY <2>3, <2>4, BacktickHint
  <2>6. judged[k].hints = LineHints[line]
    BY <2>3, <2>4 DEF Judged
  <2> QED
    BY <2>3, <2>5, <2>6 DEF Hint
<1> QED
  BY <1>3, <1>4

\* Merging keeps what is covered, in spans that are apart from each other.
LEMMA Merged ==
  ASSUME NEW n \in Nat, NEW found, Inside(found, n)
  PROVE  /\ \A s \in MergeSpans(found) : s[1] \in 1..n /\ s[2] \in (s[1] + 1)..(n + 1)
         /\ \A s \in MergeSpans(found), r \in MergeSpans(found) : s # r => s[2] < r[1] \/ r[2] < s[1]
         /\ Covers(MergeSpans(found)) = Covers(found)
<1>1. PICK C : C = Covers(found)
  OBVIOUS
<1>2. C \in SUBSET (1..n)
  BY <1>1 DEF Covers, Inside
<1> DEFINE Starting == {i \in C : i - 1 \notin C}
           End(i) == Min({j \in i..(Max(C) + 1) : j \notin C})
<1>3. MergeSpans(found) = {<<i, End(i)>> : i \in Starting}
  <2>1. C \ {i \in C : i - 1 \in C} = Starting
    OBVIOUS
  <2>2. UNION {s[1]..(s[2] - 1) : s \in found} = C
    BY <1>1 DEF Covers
  <2>3. MergeSpans(found) = {<<i, Min({j \in i..(Max(C) + 1) : j \notin C})>> : i \in C \ {i \in C : i - 1 \in C}}
    BY <2>2, ZenonT(30) DEF MergeSpans
  <2> QED
    BY <2>1, <2>3
<1>4. ASSUME NEW i \in C
      PROVE  End(i) \in (i + 1)..(n + 1) /\ End(i) \notin C /\ \A j \in i..(End(i) - 1) : j \in C
  <2>1. PICK m \in 1..n : m = Max(C) /\ \A j \in C : j <= m
    <3>1. C \in SUBSET (0..n) /\ C # {}
      BY <1>2
    <3> QED
      BY <1>2, <3>1, MaxOf
  <2>2. PICK T \in SUBSET Nat : T = {j \in i..(m + 1) : j \notin C}
    <3>1. i \in 1..n
      BY <1>2
    <3>2. {j \in i..(m + 1) : j \notin C} \in SUBSET Nat
      BY <3>1
    <3> QED
      BY <3>2
  <2>3. m + 1 \in T
    BY <1>2, <2>1, <2>2
  <2>4. PICK e \in T : e = Min(T) /\ \A j \in T : e <= j
    BY <2>3, MinOf
  <2>5. e = End(i)
    BY <2>1, <2>2, <2>4
  <2>6. e \in i..(m + 1) /\ e \notin C /\ e # i
    BY <2>2, <2>4
  <2>7. ASSUME NEW j \in i..(e - 1) PROVE j \in C
    <3>1. j \notin T
      BY <1>2, <2>4
    <3> QED
      BY <1>2, <2>2, <2>6, <3>1
  <2> HIDE DEF End
  <2> QED
    BY <1>2, <2>5, <2>6, <2>7
<1> HIDE DEF End
<1>5. \A i \in Starting : i \in 1..n /\ End(i) \in (i + 1)..(n + 1)
  BY <1>2, <1>4
<1>6. ASSUME NEW i \in Starting, NEW k \in Starting, i < k PROVE End(i) < k
  <2>1. /\ i \in 1..n /\ k \in 1..n /\ End(i) \in (i + 1)..(n + 1)
        /\ k - 1 \notin C /\ \A j \in i..(End(i) - 1) : j \in C
    BY <1>4, <1>5
  <2> QED
    BY <1>6, <2>1
<1>7. \A s \in MergeSpans(found) : s[1] \in 1..n /\ s[2] \in (s[1] + 1)..(n + 1)
  BY <1>3, <1>5
<1>8. ASSUME NEW s \in MergeSpans(found), NEW r \in MergeSpans(found), s # r PROVE s[2] < r[1] \/ r[2] < s[1]
  <2>1. PICK i \in Starting : s = <<i, End(i)>>
    BY <1>3
  <2>2. PICK k \in Starting : r = <<k, End(k)>>
    BY <1>3
  <2>3. i # k /\ i \in 1..n /\ k \in 1..n
    BY <1>5, <1>8, <2>1, <2>2
  <2>4. i < k \/ k < i
    BY <2>3
  <2> QED
    BY <1>6, <2>1, <2>2, <2>4
<1>9. ASSUME NEW j \in C PROVE \E i \in Starting : j \in i..(End(i) - 1)
  <2>1. j \in 1..n
    BY <1>2
  <2>2. PICK T \in SUBSET (0..j) : T = {x \in 0..j : x \notin C}
    BY <2>1
  <2>3. 0 \in T
    BY <1>2, <2>1, <2>2
  <2>4. PICK g \in T : \A x \in T : x <= g
    <3>1. PICK l \in Nat : l = j
      BY <2>1
    <3>2. T \in SUBSET (0..l) /\ T # {}
      BY <2>3, <3>1
    <3> QED
      BY <3>2, Greatest
  <2>5. g \in 0..(j - 1) /\ g \notin C
    BY <2>1, <2>2, <2>4
  <2>6. \A x \in (g + 1)..j : x \in C
    BY <2>1, <2>2, <2>4, <2>5
  <2>7. PICK i \in 1..j : i = g + 1
    BY <2>1, <2>5
  <2>8. i \in C /\ i - 1 = g
    BY <2>5, <2>6, <2>7
  <2>9. i \in Starting
    BY <2>5, <2>8
  <2>10. End(i) \in (i + 1)..(n + 1) /\ End(i) \notin C
    BY <1>4, <2>8
  <2>11. End(i) > j
    BY <2>1, <2>5, <2>6, <2>7, <2>10
  <2> QED
    BY <2>1, <2>7, <2>9, <2>10, <2>11
<1>10. Covers(MergeSpans(found)) = C
  <2>1. ASSUME NEW i \in Starting, NEW j \in i..(End(i) - 1) PROVE j \in C
    BY <1>4
  <2>2. ASSUME NEW j PROVE j \in Covers(MergeSpans(found)) <=> \E i \in Starting : j \in i..(End(i) - 1)
    <3>1. j \in Covers(MergeSpans(found)) <=> \E s \in MergeSpans(found) : j \in s[1]..(s[2] - 1)
      BY DEF Covers
    <3>2. (\E s \in MergeSpans(found) : j \in s[1]..(s[2] - 1)) <=> \E i \in Starting : j \in i..(End(i) - 1)
      <4>1. ASSUME NEW s \in MergeSpans(found), j \in s[1]..(s[2] - 1)
            PROVE  \E i \in Starting : j \in i..(End(i) - 1)
        <5>1. PICK i \in Starting : s = <<i, End(i)>>
          BY <1>3
        <5>2. s[1] = i /\ s[2] = End(i)
          BY <5>1
        <5> QED
          BY <4>1, <5>2
      <4>2. ASSUME NEW i \in Starting, j \in i..(End(i) - 1)
            PROVE  \E s \in MergeSpans(found) : j \in s[1]..(s[2] - 1)
        <5>1. PICK s : s = <<i, End(i)>>
          OBVIOUS
        <5>2. s \in MergeSpans(found) /\ s[1] = i /\ s[2] = End(i)
          BY <1>3, <5>1
        <5> QED
          BY <4>2, <5>2
      <4> QED
        BY <4>1, <4>2
    <3> QED
      BY <3>1, <3>2
  <2> QED
    BY <1>9, <2>1, <2>2
<1> QED
  BY <1>1, <1>7, <1>8, <1>10

-----------------------------------------------------------------------------
(* Scores are numbers.                                                     *)

LEMMA TrimShape ==
  ASSUME NEW S, NEW line \in Seq(S)
  PROVE  Trim(line) \in Seq(S)
<1>1. ASSUME NEW s \in Seq(S) PROVE TrimStart(s) \in Seq(S)
  <2>1. First(s) \in 1..(Len(s) + 1)
    <3> DEFINE blank == " "
    <3>2. First(s) = IF \E i \in DOMAIN s : s[i] # blank
                     THEN CHOOSE i \in DOMAIN s : s[i] # blank /\ \A j \in 1..(i - 1) : s[j] = blank
                     ELSE Len(s) + 1
      BY DEF First
    <3> HIDE DEF blank
    <3>3. CASE \E i \in DOMAIN s : s[i] # blank
      <4> DEFINE T == {i \in 1..Len(s) : s[i] # blank}
      <4>1. T \in SUBSET Nat /\ DOMAIN s = 1..Len(s)
        OBVIOUS
      <4>2. T # {}
        BY <3>3, <4>1
      <4>3. PICK x \in T : \A y \in T : x <= y
        <5> HIDE DEF T
        <5> QED
          BY <4>1, <4>2, Least
      <4>4. x \in DOMAIN s /\ s[x] # blank /\ \A j \in 1..(x - 1) : s[j] = blank
        BY <4>1, <4>3
      <4>5. First(s) \in DOMAIN s
        BY <3>2, <3>3, <4>4
      <4> QED
        BY <4>5
    <3>4. CASE ~\E i \in DOMAIN s : s[i] # blank
      BY <3>2, <3>4
    <3> QED
      BY <3>3, <3>4
  <2>2. PICK i \in 1..(Len(s) + 1) : i = First(s)
    BY <2>1
  <2>3. SubSeq(s, i, Len(s)) \in Seq(S)
    BY SubSeqProperties
  <2> QED
    BY <2>2, <2>3 DEF TrimStart, From
<1>2. ASSUME NEW s \in Seq(S) PROVE Reverse(s) \in Seq(S)
  BY DEF Reverse
<1>3. TrimStart(line) \in Seq(S)
  BY <1>1
<1>4. Reverse(TrimStart(line)) \in Seq(S)
  BY <1>2, <1>3
<1>5. TrimStart(Reverse(TrimStart(line))) \in Seq(S)
  BY <1>1, <1>4
<1> QED
  BY <1>2, <1>5 DEF Trim

LEMMA ScoreIsNumber ==
  ASSUME NEW text \in Seq(STRING)
  PROVE  AnalyzeLine(text).score \in Int
<1> DEFINE line == Trim(text)
<1>1. line \in Seq(STRING)
  BY TrimShape
<1> HIDE DEF line
<1>2. \A holds : \A n \in Int : Points(holds, n) \in Int
  BY DEF Points
<1>3. Operators(line) \in Int
  <2> DEFINE T == {i \in DOMAIN line : line[i] = "arrow"}
  <2>1. DOMAIN line = 1..Len(line) /\ Len(line) \in Nat
    BY <1>1
  <2>2. IsFiniteSet(1..Len(line))
    BY <2>1, FS_Interval
  <2>3. IsFiniteSet(T)
    BY <2>1, <2>2, FS_Subset
  <2>4. PICK c \in Nat : c = Cardinality(T)
    BY <2>3, FS_CardinalityType
  <2>5. Min({2, c}) \in {2, c}
    BY MinOf, SMTT(30)
  <2> QED
    BY <2>4, <2>5 DEF Operators
<1>4. ProsePenalty(line) \in Int
  BY <1>2 DEF ProsePenalty
<1>5. ASSUME NEW hard PROVE Score(line, hard) \in Int
  <2> DEFINE parens == Has(line, {"("}) /\ Has(line, {")"})
             a == Points(hard, 4)
             b == Points(LooksLikeAssignment(line), 4)
             c == Points(parens /\ LooksLikeCall(line), 6)
             d == Points(Has(line, {";"}), 2)
             e == Points(Has(line, {"{", "}"}), 1)
             f == Points(parens, 1)
             g == Points(Has(line, {"["}) /\ Has(line, {"]"}), 1)
             h == Points(Has(line, {"a_b"}), 1)
             i == Points(Has(line, {"aB"}), 1)
             score == a + 2 * Operators(line) + b + c + d + e + f + g + h + i
  <2>1. a \in Int /\ b \in Int /\ c \in Int /\ d \in Int /\ e \in Int
        /\ f \in Int /\ g \in Int /\ h \in Int /\ i \in Int
    BY DEF Points
  <2>2. Score(line, hard) = IF ~hard /\ score >= Moderate THEN score - ProsePenalty(line) ELSE score
    BY DEF Score
  <2> HIDE DEF a, b, c, d, e, f, g, h, i
  <2>3. score \in Int
    <3>1. PICK o \in Int : o = 2 * Operators(line)
      BY <1>3
    <3>2. PICK x \in Int : x = a + o + b + c + d
      BY <2>1
    <3>3. x + e + f + g + h + i \in Int
      BY <2>1
    <3> QED
      BY <3>1, <3>2, <3>3
  <2> HIDE DEF score
  <2> QED
    BY <1>4, <2>2, <2>3
<1> QED
  BY <1>5 DEF AnalyzeLine, line

-----------------------------------------------------------------------------
(* The invariant: what the passes have found so far.                       *)

Blocks ==
  {<<LineStart(r[1]), LineEnd(r[2])>> : r \in {r \in selected \X selected :
     /\ r[1] <= r[2] /\ r[1]..r[2] \subseteq selected
     /\ r[1] - 1 \notin selected /\ r[2] + 1 \notin selected}}

Explicits == IF Hint("backtick") THEN ExplicitSpans ELSE {}
Inferred == IF ~Hint("unmarked") THEN {} ELSE IF IsScript THEN {<<1, Len(Text) + 1>>} ELSE Blocks
Literals == IF Hint("artifact") \/ Hint("unmarked") THEN ArtifactSpans ELSE {}

LinePasses == {"strong", "adjacent", "dense", "continue", "emit"}

SpansFound ==
  /\ pass = "explicit" => spans = {}
  /\ pass \in LinePasses => spans = Explicits
  /\ pass = "artifacts" => spans = Explicits \cup Inferred
  /\ pass = "merge" => spans = Explicits \cup Inferred \cup Literals
  /\ pass = "done" => spans = MergeSpans(Explicits \cup Inferred \cup Literals)

StrongSelected == \A k \in DOMAIN doc : (Hard(k) \/ ScoreOf(k) >= Strong) => k \in selected

PassesTaken ==
  /\ pass \in LinePasses => Hint("unmarked")
  /\ pass \in LinePasses \ {"strong"} => ~IsScript
  /\ (Hint("unmarked") /\ ~IsScript /\ pass \notin {"explicit", "strong"}) => StrongSelected

Typed ==
  /\ doc \in Seq(Lines)
  /\ judged = [k \in DOMAIN doc |-> Judged[doc[k]]]
  /\ pass \in Passes
  /\ index \in 0..(Len(doc) + 1)
  /\ selected \subseteq DOMAIN doc

Run(i, j) == \A m \in i..j : SafeContinuation(m)
Attached == BlockLines \cup AttachedBehind \cup AttachedBefore

\* What is selected before the continuation pass, line by line in it, and after.
Spread ==
  /\ pass \in {"explicit", "strong"} => selected = {}
  /\ pass = "adjacent" => selected = {k \in DOMAIN doc : Hard(k) \/ ScoreOf(k) >= Strong}
  /\ pass = "dense" => selected = Established
  /\ selected \subseteq Attached
  /\ pass = "continue" =>
       /\ index \in Nat \ {0}
       /\ \A k \in selected : k >= index => k \in BlockLines \cup AttachedBehind
       /\ BlockLines \subseteq selected
       /\ \A k \in AttachedBehind : k <= index => k \in selected
       /\ \A k \in DOMAIN doc, a \in BlockLines :
            a < index /\ a - k \in 1..Distance /\ Run(k, a - 1) => k \in selected
  /\ pass = "emit" => selected = Attached

IInv == Typed /\ SpansFound /\ PassesTaken /\ Spread

\* The document and what is known of its lines never change.
LEMMA Frame ==
  ASSUME doc' = doc, judged' = judged
  PROVE  /\ Text' = Text /\ ExplicitSpans' = ExplicitSpans /\ ArtifactSpans' = ArtifactSpans
         /\ Hint("backtick")' = Hint("backtick") /\ Hint("unmarked")' = Hint("unmarked")
         /\ Hint("artifact")' = Hint("artifact")
         /\ \A k : LineStart(k)' = LineStart(k) /\ LineEnd(k)' = LineEnd(k)
         /\ \A k : Hard(k)' = Hard(k) /\ ScoreOf(k)' = ScoreOf(k) /\ SafeContinuation(k)' = SafeContinuation(k)
         /\ IsScript' = IsScript /\ Anchors' = Anchors /\ IsDense' = IsDense
<1>1. Before' = Before
  BY DEF Before
<1>2. Text' = Text
  BY <1>1 DEF Text
<1>3. ExplicitSpans' = ExplicitSpans
  BY <1>2 DEF ExplicitSpans
<1>4. ArtifactSpans' = ArtifactSpans
  BY <1>2 DEF ArtifactSpans
<1>5. Hint("backtick")' = Hint("backtick") /\ Hint("unmarked")' = Hint("unmarked")
      /\ Hint("artifact")' = Hint("artifact")
  BY DEF Hint
<1>6. \A k : LineStart(k)' = LineStart(k) /\ LineEnd(k)' = LineEnd(k)
  BY <1>1 DEF LineStart, LineEnd
<1>7. \A k : Hard(k)' = Hard(k) /\ ScoreOf(k)' = ScoreOf(k) /\ SafeContinuation(k)' = SafeContinuation(k)
  BY DEF Hard, ScoreOf, SafeContinuation
<1>8. Full' = Full
  BY DEF Full
<1>9. IsScript' = IsScript
  BY <1>8 DEF IsScript
<1>10. Anchors' = Anchors
  BY DEF Anchors, Hard, ScoreOf
<1>11. IsDense' = IsDense
  BY <1>8, <1>10 DEF IsDense
<1> QED
  BY <1>2, <1>3, <1>4, <1>5, <1>6, <1>7, <1>9, <1>10, <1>11

LEMMA NextFrame == [Next]_vars => doc' = doc /\ judged' = judged
BY DEF Next, Explicit, SelectStrong, SelectAdjacent, SelectDense, Continue, ContinueDone, Emit, Artifacts, Merge, vars

\* Anchors are lines, and strong lines are anchors.
LEMMA AnchorLines ==
  ASSUME Typed
  PROVE  /\ Anchors \subseteq DOMAIN doc /\ DOMAIN doc = 1..Len(doc) /\ Len(doc) \in Nat
         /\ \A k \in DOMAIN doc : ScoreOf(k) \in Int
         /\ \A k \in DOMAIN doc : Hard(k) \/ ScoreOf(k) >= Strong => k \in Anchors
         /\ Anchors # {} => /\ Min(Anchors) \in Anchors /\ Max(Anchors) \in Anchors
                            /\ \A a \in Anchors : Min(Anchors) <= a /\ a <= Max(Anchors)
         /\ IsDense => Anchors # {}
<1>1. doc \in Seq(Lines) /\ DOMAIN doc = 1..Len(doc) /\ Len(doc) \in Nat
  BY DEF Typed
<1>2. Anchors \subseteq DOMAIN doc
  BY DEF Anchors
<1>3. ASSUME NEW k \in DOMAIN doc PROVE ScoreOf(k) \in Int
  <2>1. PICK line \in Lines : line = doc[k]
    BY <1>1
  <2>2. line \in Seq(STRING)
    BY LinesAssumption
  <2>3. ScoreOf(k) = AnalyzeLine(line).score
    BY <2>1 DEF Typed, ScoreOf, Judged
  <2> QED
    BY <2>2, <2>3, ScoreIsNumber
<1>4. ASSUME NEW k \in DOMAIN doc, Hard(k) \/ ScoreOf(k) >= Strong PROVE k \in Anchors
  BY <1>3, <1>4 DEF Anchors, Strong, Moderate
<1>5. ASSUME Anchors # {}
      PROVE  /\ Min(Anchors) \in Anchors /\ Max(Anchors) \in Anchors
             /\ \A a \in Anchors : Min(Anchors) <= a /\ a <= Max(Anchors)
  <2>1. PICK n \in Nat : n = Len(doc)
    BY <1>1
  <2>2. PICK T \in SUBSET (0..n) : T = Anchors
    BY <1>1, <1>2, <2>1
  <2>3. T # {} /\ T \in SUBSET Nat
    BY <1>5, <2>2
  <2>4. Min(T) \in T /\ \A y \in T : Min(T) <= y
    BY <2>3, MinOf
  <2>5. Max(T) \in T /\ \A y \in T : y <= Max(T)
    BY <2>3, MaxOf
  <2> QED
    BY <2>2, <2>4, <2>5
<1>6. IsDense => Anchors # {}
  <2> SUFFICES ASSUME Anchors = {} PROVE ~IsDense
    OBVIOUS
  <2>1. Cardinality(Anchors) = 0
    BY FS_EmptySet
  <2> QED
    BY <2>1 DEF IsDense
<1> QED
  BY <1>1, <1>2, <1>3, <1>4, <1>5, <1>6

-----------------------------------------------------------------------------
(* The invariant holds at first, and every pass keeps it.                  *)

LEMMA InitInv == Init => IInv
<1> SUFFICES ASSUME Init PROVE IInv
  OBVIOUS
<1>1. doc \in Seq(Lines)
  BY DocumentsAssumption DEF Init
<1>2. Typed
  <2>1. Len(doc) \in Nat
    BY <1>1
  <2> QED
    BY <1>1, <2>1 DEF Init, Typed, Passes
<1>3. SpansFound /\ PassesTaken
  BY DEF Init, SpansFound, PassesTaken, LinePasses
<1>4. Spread
  BY DEF Init, Spread
<1> QED
  BY <1>2, <1>3, <1>4 DEF IInv

LEMMA NextTyped == Typed /\ [Next]_vars => Typed'
<1> SUFFICES ASSUME Typed, [Next]_vars PROVE Typed'
  OBVIOUS
<1>1. doc' = doc /\ judged' = judged
  BY NextFrame
<1>2. DOMAIN doc = 1..Len(doc) /\ Len(doc) \in Nat /\ Anchors \subseteq DOMAIN doc
      /\ (Anchors # {} => Min(Anchors) \in Anchors /\ Max(Anchors) \in Anchors)
      /\ (IsDense => Anchors # {})
  BY AnchorLines
<1>3. pass' \in Passes /\ index' \in 0..(Len(doc) + 1) /\ selected' \subseteq DOMAIN doc
  <2>1. CASE Explicit
    BY <2>1 DEF Explicit, Typed, Passes
  <2>2. CASE SelectStrong
    BY <2>2 DEF SelectStrong, Typed, Passes
  <2>3. CASE SelectAdjacent
    <3>1. Pairs \subseteq DOMAIN doc /\ {k + 1 : k \in Pairs} \subseteq DOMAIN doc
      BY <1>2 DEF Pairs
    <3> QED
      BY <2>3, <3>1 DEF SelectAdjacent, Typed, Passes
  <2>4. CASE SelectDense
    <3>1. IsDense => Min(Anchors)..Max(Anchors) \subseteq DOMAIN doc
      BY <1>2
    <3>2. selected' \subseteq DOMAIN doc
      BY <2>4, <3>1 DEF SelectDense, Typed
    <3> QED
      BY <1>2, <2>4, <3>2 DEF SelectDense, Typed, Passes
  <2>5. CASE Continue
    <3>1. selected' \subseteq DOMAIN doc
      BY <2>5 DEF Continue, Typed, Reach
    <3> QED
      BY <1>2, <2>5, <3>1 DEF Continue, Typed, Passes
  <2>6. CASE ContinueDone
    BY <2>6 DEF ContinueDone, Typed, Passes
  <2>7. CASE Emit
    BY <2>7 DEF Emit, Typed, Passes
  <2>8. CASE Artifacts
    BY <2>8 DEF Artifacts, Typed, Passes
  <2>9. CASE Merge
    BY <2>9 DEF Merge, Typed, Passes
  <2>10. CASE UNCHANGED vars
    BY <2>10 DEF Typed, vars
  <2> QED
    BY <2>1, <2>2, <2>3, <2>4, <2>5, <2>6, <2>7, <2>8, <2>9, <2>10 DEF Next
<1> QED
  BY <1>1, <1>3 DEF Typed

\* The spans so far are those of the passes taken.
LEMMA NextFound ==
  ASSUME IInv, [Next]_vars
  PROVE  SpansFound' /\ PassesTaken'
<1>1. doc' = doc /\ judged' = judged
  BY NextFrame
<1>2. /\ Text' = Text /\ ExplicitSpans' = ExplicitSpans /\ ArtifactSpans' = ArtifactSpans
      /\ Hint("backtick")' = Hint("backtick") /\ Hint("unmarked")' = Hint("unmarked")
      /\ Hint("artifact")' = Hint("artifact") /\ IsScript' = IsScript
      /\ \A k : LineStart(k)' = LineStart(k) /\ LineEnd(k)' = LineEnd(k)
      /\ \A k : Hard(k)' = Hard(k) /\ ScoreOf(k)' = ScoreOf(k)
  BY <1>1, Frame
<1>3. Explicits' = Explicits /\ Literals' = Literals
  BY <1>2 DEF Explicits, Literals
<1>4. selected' = selected => Inferred' = Inferred
  <2>1. ASSUME selected' = selected PROVE Blocks' = Blocks
    BY <1>2, <2>1 DEF Blocks
  <2> QED
    BY <1>2, <2>1 DEF Inferred
<1>5. selected \subseteq selected' => (StrongSelected => StrongSelected')
  BY <1>1, <1>2 DEF StrongSelected
<1>6. SpansFound /\ PassesTaken
  BY DEF IInv
<1>7. CASE Explicit
  <2>1. /\ pass = "explicit" /\ spans' = Explicits
        /\ pass' = IF Hint("unmarked") THEN "strong" ELSE "artifacts"
    BY <1>7 DEF Explicit, Explicits
  <2>2. ~Hint("unmarked") => Inferred' = {}
    BY <1>2 DEF Inferred
  <2> QED
    BY <1>2, <1>3, <2>1, <2>2 DEF SpansFound, PassesTaken, LinePasses
<1>8. CASE SelectStrong
  <2>1. pass = "strong" /\ Hint("unmarked") /\ spans = Explicits
    BY <1>6, <1>8 DEF SelectStrong, SpansFound, PassesTaken, LinePasses
  <2>2. CASE IsScript
    <3>1. spans' = Explicits \cup {<<1, Len(Text) + 1>>} /\ pass' = "artifacts"
      BY <1>8, <2>1, <2>2 DEF SelectStrong
    <3>2. Inferred' = {<<1, Len(Text) + 1>>}
      BY <1>2, <2>1, <2>2 DEF Inferred
    <3> QED
      BY <1>2, <1>3, <2>2, <3>1, <3>2 DEF SpansFound, PassesTaken, LinePasses
  <2>3. CASE ~IsScript
    <3>1. /\ spans' = Explicits /\ pass' = "adjacent"
          /\ selected' = {k \in DOMAIN doc : Hard(k) \/ ScoreOf(k) >= Strong}
      BY <1>8, <2>1, <2>3 DEF SelectStrong
    <3>2. StrongSelected'
      BY <1>1, <1>2, <3>1 DEF StrongSelected
    <3> QED
      BY <1>2, <1>3, <2>1, <2>3, <3>1, <3>2 DEF SpansFound, PassesTaken, LinePasses
  <2> QED
    BY <2>2, <2>3
<1>9. CASE SelectAdjacent \/ SelectDense \/ Continue \/ ContinueDone
  <2>1. /\ pass \in LinePasses \ {"strong"} /\ pass' \in LinePasses \ {"strong"} /\ spans' = spans
        /\ selected \subseteq selected'
    BY <1>9 DEF SelectAdjacent, SelectDense, Continue, ContinueDone, LinePasses
  <2>2. spans = Explicits /\ Hint("unmarked") /\ ~IsScript /\ StrongSelected
    BY <1>6, <2>1 DEF SpansFound, PassesTaken, LinePasses
  <2> QED
    BY <1>2, <1>3, <1>5, <2>1, <2>2 DEF SpansFound, PassesTaken, LinePasses
<1>10. CASE Emit
  <2>1. /\ pass = "emit" /\ pass' = "artifacts" /\ spans' = spans \cup Blocks
        /\ selected' = selected
    BY <1>10 DEF Emit, Blocks
  <2>2. spans = Explicits /\ Hint("unmarked") /\ ~IsScript /\ StrongSelected
    BY <1>6, <2>1 DEF SpansFound, PassesTaken, LinePasses
  <2>3. Inferred' = Blocks
    BY <1>4, <2>1, <2>2 DEF Inferred
  <2> QED
    BY <1>2, <1>3, <1>5, <2>1, <2>2, <2>3 DEF SpansFound, PassesTaken, LinePasses
<1>11. CASE Artifacts
  <2>1. /\ pass = "artifacts" /\ pass' = "merge" /\ spans' = spans \cup Literals
        /\ selected' = selected
    BY <1>11 DEF Artifacts, Literals
  <2>2. spans = Explicits \cup Inferred
    BY <1>6, <2>1 DEF SpansFound
  <2> QED
    BY <1>2, <1>3, <1>4, <1>5, <1>6, <2>1, <2>2 DEF SpansFound, PassesTaken, LinePasses
<1>12. CASE Merge
  <2>1. /\ pass = "merge" /\ pass' = "done" /\ spans' = MergeSpans(spans)
        /\ selected' = selected
    BY <1>12 DEF Merge
  <2>2. spans = Explicits \cup Inferred \cup Literals
    BY <1>6, <2>1 DEF SpansFound
  <2> QED
    BY <1>2, <1>3, <1>4, <1>5, <1>6, <2>1, <2>2 DEF SpansFound, PassesTaken, LinePasses
<1>13. CASE UNCHANGED vars
  <2>1. pass' = pass /\ spans' = spans /\ selected' = selected
    BY <1>13 DEF vars
  <2> QED
    BY <1>2, <1>3, <1>4, <1>5, <1>6, <2>1 DEF SpansFound, PassesTaken, LinePasses
<1> QED
  BY <1>7, <1>8, <1>9, <1>10, <1>11, <1>12, <1>13 DEF Next

-----------------------------------------------------------------------------
(* How code spreads over lines.                                            *)

\* Lines of a block are lines of the document, and of prose only anchors.
LEMMA BlockLinesAre ==
  ASSUME Typed
  PROVE  /\ Established \subseteq BlockLines /\ BlockLines \subseteq DOMAIN doc
         /\ \A k \in Attached : k \in DOMAIN doc /\ (judged[k].prose => k \in Anchors)
<1>1. PICK n \in Nat : n = Len(doc) /\ DOMAIN doc = 1..n
  BY AnchorLines
<1>2. /\ Anchors \subseteq 1..n
      /\ \A k \in 1..n : ScoreOf(k) \in Int
      /\ \A k \in 1..n : Hard(k) \/ ScoreOf(k) >= Strong => k \in Anchors
      /\ Anchors # {} => Min(Anchors) \in Anchors /\ Max(Anchors) \in Anchors
      /\ IsDense => Anchors # {}
  BY <1>1, AnchorLines
<1>3. Pairs \subseteq Anchors /\ {k + 1 : k \in Pairs} \subseteq Anchors
  BY <1>1, <1>2 DEF Pairs, Anchors
<1>4. Established \subseteq Anchors
  BY <1>1, <1>2, <1>3 DEF Established
<1>5. ASSUME IsDense PROVE Min(Anchors)..Max(Anchors) \subseteq 1..n
  <2>1. Min(Anchors) \in 1..n /\ Max(Anchors) \in 1..n
    BY <1>2, <1>5
  <2>2. PICK a, z \in 1..n : a = Min(Anchors) /\ z = Max(Anchors)
    BY <2>1
  <2>3. a..z \subseteq 1..n
    OBVIOUS
  <2> QED
    BY <2>2, <2>3
<1>6. \A k \in BlockLines : k \in 1..n /\ (judged[k].prose => k \in Anchors)
  BY <1>2, <1>4, <1>5 DEF BlockLines, SafeContinuation
<1>7. ASSUME NEW k \in AttachedBehind PROVE k \in 1..n /\ ~judged[k].prose
  <2>1. k \in 1..n
    BY <1>1 DEF AttachedBehind
  <2>2. PICK a \in BlockLines : a < k /\ \A j \in (a + 1)..k : SafeContinuation(j)
    BY DEF AttachedBehind
  <2>3. k \in (a + 1)..k
    BY <1>6, <2>1, <2>2
  <2> QED
    BY <2>1, <2>2, <2>3 DEF SafeContinuation
<1>8. ASSUME NEW k \in AttachedBefore PROVE k \in 1..n /\ ~judged[k].prose
  <2>1. k \in 1..n
    BY <1>1 DEF AttachedBefore
  <2>2. PICK a \in BlockLines : a - k \in 1..Distance /\ \A j \in k..(a - 1) : SafeContinuation(j)
    BY DEF AttachedBefore
  <2>3. k \in k..(a - 1)
    BY <1>6, <2>1, <2>2 DEF Distance
  <2> QED
    BY <2>1, <2>2, <2>3 DEF SafeContinuation
<1> QED
  BY <1>1, <1>4, <1>6, <1>7, <1>8 DEF Attached, BlockLines

\* None of these sets changes.
LEMMA SpreadFrame ==
  ASSUME doc' = doc, judged' = judged
  PROVE  /\ Established' = Established /\ BlockLines' = BlockLines /\ AttachedBehind' = AttachedBehind
         /\ AttachedBefore' = AttachedBefore /\ Attached' = Attached
         /\ \A i, j : Run(i, j)' <=> Run(i, j)
<1>1. \A k : SafeContinuation(k)' = SafeContinuation(k)
  BY DEF SafeContinuation
<1>2. Pairs' = Pairs
  BY DEF Pairs, ScoreOf
<1>3. Established' = Established
  BY <1>2 DEF Established, Hard, ScoreOf
<1>4. IsDense' = IsDense /\ Anchors' = Anchors
  BY Frame
<1>5. BlockLines' = BlockLines
  BY <1>1, <1>3, <1>4 DEF BlockLines
<1>6. AttachedBehind' = AttachedBehind /\ AttachedBefore' = AttachedBefore
  BY <1>1, <1>5 DEF AttachedBehind, AttachedBefore
<1>7. Attached' = Attached
  BY <1>5, <1>6 DEF Attached
<1>8. \A i, j : Run(i, j)' <=> Run(i, j)
  BY <1>1 DEF Run
<1> QED
  BY <1>3, <1>5, <1>6, <1>7, <1>8

\* What is in reach of a line, forward and backward.
LEMMA ReachIs ==
  ASSUME Typed, index \in DOMAIN doc
  PROVE  /\ Reach(1) = {k \in DOMAIN doc : k - index \in 1..Distance /\ Run(index + 1, k)}
         /\ Reach(-1) = {k \in DOMAIN doc : index - k \in 1..Distance /\ Run(k, index - 1)}
<1>1. PICK n \in Nat : n = Len(doc) /\ DOMAIN doc = 1..n
  BY AnchorLines
<1>2. PICK i \in 1..n : i = index
  BY <1>1
<1>3. ASSUME NEW k \in 1..n, k - i \in 1..Distance
      PROVE  (\A j \in 1..n : j - i \in 1..(k - i) => SafeContinuation(j)) <=> Run(i + 1, k)
  <2>1. \A j \in 1..n : j - i \in 1..(k - i) <=> j \in (i + 1)..k
    BY <1>3 DEF Distance
  <2>2. (i + 1)..k \subseteq 1..n
    OBVIOUS
  <2> QED
    BY <2>1, <2>2 DEF Run
<1>4. ASSUME NEW k \in 1..n, i - k \in 1..Distance
      PROVE  (\A j \in 1..n : i - j \in 1..(i - k) => SafeContinuation(j)) <=> Run(k, i - 1)
  <2>1. \A j \in 1..n : i - j \in 1..(i - k) <=> j \in k..(i - 1)
    BY <1>4 DEF Distance
  <2>2. k..(i - 1) \subseteq 1..n
    OBVIOUS
  <2> QED
    BY <2>1, <2>2 DEF Run
<1>5. \A j \in 1..n : 1 * (j - i) = j - i /\ (-1) * (j - i) = i - j
  OBVIOUS
<1>6. Reach(1) = {k \in 1..n : k - i \in 1..Distance /\ \A j \in 1..n : j - i \in 1..(k - i) => SafeContinuation(j)}
  BY <1>1, <1>2, <1>5 DEF Reach
<1>7. Reach(-1) = {k \in 1..n : i - k \in 1..Distance /\ \A j \in 1..n : i - j \in 1..(i - k) => SafeContinuation(j)}
  BY <1>1, <1>2, <1>5 DEF Reach
<1> QED
  BY <1>1, <1>2, <1>3, <1>4, <1>6, <1>7

\* A turn of the loop at a selected line attaches what is attached.
LEMMA ReachAttaches ==
  ASSUME Typed, index \in DOMAIN doc, index \in BlockLines \cup AttachedBehind
  PROVE  Reach(1) \subseteq AttachedBehind /\ Reach(-1) \subseteq Attached
<1>1. PICK n \in Nat : n = Len(doc) /\ DOMAIN doc = 1..n
  BY AnchorLines
<1>2. PICK i \in 1..n : i = index
  BY <1>1
<1>3. PICK a \in BlockLines : a <= i /\ \A j \in (a + 1)..i : SafeContinuation(j)
  <2>1. CASE i \in BlockLines
    <3>1. (i + 1)..i = {}
      OBVIOUS
    <3> QED
      BY <2>1, <3>1
  <2>2. CASE i \in AttachedBehind
    <3>1. PICK b \in BlockLines : b < i /\ \A j \in (b + 1)..i : SafeContinuation(j)
      BY <2>2 DEF AttachedBehind
    <3>2. b \in 1..n
      BY <1>1, BlockLinesAre
    <3> QED
      BY <3>1, <3>2
  <2> QED
    BY <1>2, <2>1, <2>2
<1>4. a \in 1..n
  BY <1>1, BlockLinesAre
<1>5. ASSUME NEW k \in Reach(1) PROVE k \in AttachedBehind
  <2>1. k \in 1..n /\ k - i \in 1..Distance /\ Run(i + 1, k)
    BY <1>1, <1>2, ReachIs
  <2>2. a < k
    BY <1>3, <1>4, <2>1 DEF Distance
  <2>3. \A j \in (a + 1)..k : j \in (a + 1)..i \/ j \in (i + 1)..k
    BY <1>4, <2>1
  <2> QED
    BY <1>1, <1>3, <2>1, <2>2, <2>3 DEF AttachedBehind, Run
<1>6. ASSUME NEW k \in Reach(-1) PROVE k \in Attached
  <2>1. k \in 1..n /\ i - k \in 1..Distance /\ Run(k, i - 1)
    BY <1>1, <1>2, ReachIs
  <2>2. CASE k > a
    <3>1. \A j \in (a + 1)..k : j \in (a + 1)..i
      BY <1>4, <2>1 DEF Distance
    <3> QED
      BY <1>1, <1>3, <2>1, <2>2, <3>1 DEF AttachedBehind, Attached
  <2>3. CASE k = a
    BY <2>3 DEF Attached
  <2>4. CASE k < a
    <3>1. a - k \in 1..Distance
      BY <1>3, <1>4, <2>1, <2>4 DEF Distance
    <3>2. \A j \in k..(a - 1) : j \in k..(i - 1)
      BY <1>3, <1>4, <2>1
    <3> QED
      BY <1>1, <2>1, <3>1, <3>2 DEF AttachedBefore, Attached, Run
  <2> QED
    BY <1>4, <2>1, <2>2, <2>3, <2>4
<1> QED
  BY <1>5, <1>6

\* A turn of the loop keeps what is known of the lines before it and behind.
LEMMA ContinueSpreads ==
  ASSUME Typed, Spread, Continue
  PROVE  /\ selected' \subseteq Attached
         /\ \A k \in selected' : k >= index + 1 => k \in BlockLines \cup AttachedBehind
         /\ BlockLines \subseteq selected'
         /\ \A k \in AttachedBehind : k <= index + 1 => k \in selected'
         /\ \A k \in DOMAIN doc, a \in BlockLines :
              a < index + 1 /\ a - k \in 1..Distance /\ Run(k, a - 1) => k \in selected'
<1>1. PICK n \in Nat : n = Len(doc) /\ DOMAIN doc = 1..n
  BY AnchorLines
<1>2. PICK i \in 1..n : i = index
  BY <1>1 DEF Continue, Spread
<1>3. /\ selected \subseteq Attached
      /\ \A k \in selected : k >= i => k \in BlockLines \cup AttachedBehind
      /\ BlockLines \subseteq selected
      /\ \A k \in AttachedBehind : k <= i => k \in selected
      /\ \A k \in 1..n, a \in BlockLines :
           a < i /\ a - k \in 1..Distance /\ Run(k, a - 1) => k \in selected
  BY <1>1, <1>2 DEF Spread, Continue
<1>4. selected' = IF i \in selected THEN selected \cup Reach(-1) \cup Reach(1) ELSE selected
  BY <1>2 DEF Continue
<1>5. BlockLines \subseteq 1..n /\ AttachedBehind \subseteq 1..n /\ selected \subseteq 1..n
  BY <1>1, BlockLinesAre DEF AttachedBehind, Typed
<1>6. i \in selected => i \in BlockLines \cup AttachedBehind
  BY <1>3
<1>7. i \in selected => Reach(1) \subseteq AttachedBehind /\ Reach(-1) \subseteq Attached
  BY <1>1, <1>2, <1>6, ReachAttaches
<1>8. \A k \in Reach(-1) : k \in 1..n /\ k < i
  BY <1>1, <1>2, ReachIs DEF Distance
<1>9. selected \subseteq selected'
  BY <1>4
<1>10. selected' \subseteq Attached
  BY <1>3, <1>4, <1>7 DEF Attached
<1>11. ASSUME NEW k \in selected', k >= i + 1 PROVE k \in BlockLines \cup AttachedBehind
  <2>1. CASE k \in selected
    BY <1>3, <1>5, <1>11, <2>1
  <2>2. CASE k \notin selected
    <3>1. i \in selected /\ k \in Reach(-1) \cup Reach(1)
      BY <1>4, <1>11, <2>2
    <3>2. k \notin Reach(-1)
      BY <1>8, <1>11
    <3> QED
      BY <1>7, <3>1, <3>2
  <2> QED
    BY <2>1, <2>2
<1>12. ASSUME NEW k \in AttachedBehind, k <= i + 1 PROVE k \in selected'
  <2>1. CASE k <= i
    BY <1>3, <1>9, <2>1
  <2>2. CASE k = i + 1
    <3>1. PICK a \in BlockLines : a < k /\ \A j \in (a + 1)..k : SafeContinuation(j)
      BY DEF AttachedBehind
    <3>2. a \in 1..n /\ k \in 1..n /\ a <= i
      BY <1>5, <2>2, <3>1
    <3>3. i \in selected
      <4>1. CASE a = i
        BY <1>3, <4>1
      <4>2. CASE a < i
        <5>1. \A j \in (a + 1)..i : j \in (a + 1)..k
          BY <2>2, <3>2
        <5>2. i \in AttachedBehind
          BY <1>1, <3>1, <4>2, <5>1 DEF AttachedBehind
        <5> QED
          BY <1>3, <5>2
      <4> QED
        BY <3>2, <4>1, <4>2
    <3>4. \A j \in (i + 1)..k : j \in (a + 1)..k
      BY <3>2
    <3>5. Run(i + 1, k)
      BY <3>1, <3>4 DEF Run
    <3>6. k - i \in 1..Distance
      BY <2>2 DEF Distance
    <3>7. k \in Reach(1)
      BY <1>1, <1>2, <3>2, <3>5, <3>6, ReachIs
    <3> QED
      BY <1>4, <3>3, <3>7
  <2> QED
    BY <1>5, <1>12, <2>1, <2>2
<1>13. ASSUME NEW k \in 1..n, NEW a \in BlockLines, a < i + 1, a - k \in 1..Distance, Run(k, a - 1)
       PROVE  k \in selected'
  <2>1. CASE a < i
    BY <1>3, <1>9, <1>13, <2>1
  <2>2. CASE a = i
    <3>1. k \in Reach(-1)
      BY <1>1, <1>2, <1>13, <2>2, ReachIs
    <3> QED
      BY <1>3, <1>4, <2>2, <3>1
  <2> QED
    BY <1>5, <1>13, <2>1, <2>2
<1> QED
  BY <1>1, <1>2, <1>3, <1>9, <1>10, <1>11, <1>12, <1>13

\* When the loop has passed the last line, everything attached is selected.
LEMMA LoopDone ==
  ASSUME Typed, Spread, ContinueDone
  PROVE  selected = Attached
<1>1. PICK n \in Nat : n = Len(doc) /\ DOMAIN doc = 1..n
  BY AnchorLines
<1>2. PICK i \in Nat : i = index /\ i > n
  BY <1>1 DEF ContinueDone, Typed
<1>3. /\ selected \subseteq Attached
      /\ BlockLines \subseteq selected
      /\ \A k \in AttachedBehind : k <= i => k \in selected
      /\ \A k \in 1..n, a \in BlockLines :
           a < i /\ a - k \in 1..Distance /\ Run(k, a - 1) => k \in selected
  BY <1>1, <1>2 DEF Spread, ContinueDone
<1>4. BlockLines \subseteq 1..n /\ AttachedBehind \subseteq 1..n /\ AttachedBefore \subseteq 1..n
  BY <1>1, BlockLinesAre DEF AttachedBehind, AttachedBefore
<1>5. AttachedBehind \subseteq selected
  BY <1>2, <1>3, <1>4
<1>6. ASSUME NEW k \in AttachedBefore PROVE k \in selected
  <2>1. PICK a \in BlockLines : a - k \in 1..Distance /\ Run(k, a - 1)
    BY DEF AttachedBefore, Run
  <2> QED
    BY <1>2, <1>3, <1>4, <2>1
<1> QED
  BY <1>3, <1>5, <1>6 DEF Attached

LEMMA NextSpreads ==
  ASSUME IInv, [Next]_vars
  PROVE  Spread'
<1>1. doc' = doc /\ judged' = judged
  BY NextFrame
<1>2. /\ Established' = Established /\ BlockLines' = BlockLines /\ AttachedBehind' = AttachedBehind
      /\ Attached' = Attached
  BY <1>1, SpreadFrame
<1>3. \A i, j : Run(i, j)' <=> Run(i, j)
  BY <1>1, SpreadFrame
<1>4. Typed /\ Spread
  BY DEF IInv
<1>5. /\ DOMAIN doc = 1..Len(doc) /\ Len(doc) \in Nat
      /\ Established \subseteq BlockLines /\ BlockLines \subseteq Attached /\ BlockLines \subseteq DOMAIN doc
  BY <1>4, AnchorLines, BlockLinesAre DEF Attached
<1>6. CASE Explicit
  <2>1. pass = "explicit" /\ pass' \in {"strong", "artifacts"} /\ selected' = selected
    BY <1>6 DEF Explicit
  <2> QED
    BY <1>2, <1>4, <2>1 DEF Spread
<1>7. CASE SelectStrong
  <2>1. /\ pass = "strong"
        /\ \/ pass' = "artifacts" /\ selected' = selected
           \/ pass' = "adjacent" /\ selected' = {k \in DOMAIN doc : Hard(k) \/ ScoreOf(k) >= Strong}
    BY <1>7 DEF SelectStrong
  <2>2. {k \in DOMAIN doc : Hard(k) \/ ScoreOf(k) >= Strong} \subseteq Attached
    BY <1>5 DEF Established
  <2>3. {k \in DOMAIN doc : Hard(k) \/ ScoreOf(k) >= Strong}'
          = {k \in DOMAIN doc : Hard(k) \/ ScoreOf(k) >= Strong}
    BY <1>1 DEF Hard, ScoreOf
  <2> QED
    BY <1>2, <1>4, <2>1, <2>2, <2>3 DEF Spread
<1>8. CASE SelectAdjacent
  <2>1. pass = "adjacent" /\ pass' = "dense" /\ selected' = Established
    BY <1>4, <1>8 DEF SelectAdjacent, Spread, Established
  <2> QED
    BY <1>2, <1>5, <2>1 DEF Spread
<1>9. CASE SelectDense
  <2>1. pass' = "continue" /\ index' = 1 /\ selected' = BlockLines
    BY <1>4, <1>9 DEF SelectDense, Spread, BlockLines
  <2>2. ASSUME NEW k \in AttachedBehind, k <= 1 PROVE FALSE
    <3>1. PICK a \in BlockLines : a < k
      BY DEF AttachedBehind
    <3> QED
      BY <1>5, <2>2, <3>1 DEF AttachedBehind
  <2>3. \A a \in BlockLines : ~(a < 1)
    BY <1>5
  <2> QED
    BY <1>2, <1>5, <2>1, <2>2, <2>3 DEF Spread
<1>10. CASE Continue
  <2>1. pass = "continue" /\ pass' = "continue" /\ index' = index + 1 /\ index \in Nat \ {0}
    BY <1>4, <1>10 DEF Continue, Spread
  <2>2. index' \in Nat \ {0}
    BY <2>1
  <2>3. selected' \subseteq Attached' /\ BlockLines' \subseteq selected'
    BY <1>2, <1>4, <1>10, ContinueSpreads
  <2>4. \A k \in selected' : k >= index' => k \in BlockLines' \cup AttachedBehind'
    BY <1>2, <1>4, <1>10, <2>1, ContinueSpreads
  <2>5. \A k \in AttachedBehind' : k <= index' => k \in selected'
    BY <1>2, <1>4, <1>10, <2>1, ContinueSpreads
  <2>6. \A k \in DOMAIN doc', a \in BlockLines' :
          a < index' /\ a - k \in 1..Distance /\ Run(k, a - 1)' => k \in selected'
    BY <1>1, <1>2, <1>3, <1>4, <1>10, <2>1, ContinueSpreads
  <2> QED
    BY <2>1, <2>2, <2>3, <2>4, <2>5, <2>6 DEF Spread
<1>11. CASE ContinueDone
  <2>1. pass' = "emit" /\ selected' = selected
    BY <1>11 DEF ContinueDone
  <2>2. selected = Attached
    BY <1>4, <1>11, LoopDone
  <2> QED
    BY <1>2, <2>1, <2>2 DEF Spread
<1>12. CASE Emit \/ Artifacts \/ Merge
  <2>1. selected' = selected /\ pass' \in {"artifacts", "merge", "done"}
    BY <1>12 DEF Emit, Artifacts, Merge
  <2> QED
    BY <1>2, <1>4, <2>1 DEF Spread
<1>13. CASE UNCHANGED vars
  <2>1. selected' = selected /\ pass' = pass /\ index' = index
    BY <1>13 DEF vars
  <2>2. {k \in DOMAIN doc : Hard(k) \/ ScoreOf(k) >= Strong}'
          = {k \in DOMAIN doc : Hard(k) \/ ScoreOf(k) >= Strong}
    BY <1>1 DEF Hard, ScoreOf
  <2> QED
    BY <1>1, <1>2, <1>3, <1>4, <2>1, <2>2 DEF Spread
<1> QED
  BY <1>6, <1>7, <1>8, <1>9, <1>10, <1>11, <1>12, <1>13 DEF Next

\* What is known of every pass is what the properties say.
LEMMA SpreadSays ==
  ASSUME Typed, Spread
  PROVE  SpreadsOverContinuations /\ ProseStaysProse
<1>1. SpreadsOverContinuations
  BY DEF Spread, Attached, SpreadsOverContinuations
<1>2. \A k \in selected : judged[k].prose => k \in Anchors
  BY BlockLinesAre DEF Spread
<1> QED
  BY <1>1, <1>2 DEF ProseStaysProse, Anchors

-----------------------------------------------------------------------------
(* Where the spans of each pass lie.                                       *)

LeftOf(text, c) == Behind(SubSeq(text, 1, c[2]), c[1], Around)
RightOf(text, c) == c[2] + 1 - (Behind(Reverse(SubSeq(text, LeftOf(text, c), c[2])), 1, Behinds) - 1)

LEMMA PartOf ==
  ASSUME NEW S, NEW text \in Seq(S), NEW l \in 1..(Len(text) + 1), NEW to \in (l - 1)..Len(text)
  PROVE  SubSeq(text, l, to) \in Seq(S) /\ Len(SubSeq(text, l, to)) = to + 1 - l
<1>1. PICK n \in Nat : n = Len(text)
  OBVIOUS
<1>2. l \in Int /\ to \in Int /\ l >= 1 /\ to <= n /\ l - 1 <= to
  BY <1>1
<1>3. \A i \in l..to : text[i] \in S
  <2> SUFFICES ASSUME NEW i \in l..to PROVE text[i] \in S
    OBVIOUS
  <2>1. i \in 1..Len(text)
    BY <1>1, <1>2
  <2> QED
    BY <2>1, ElementOfSeq
<1>4. SubSeq(text, l, to) \in Seq(S)
      /\ Len(SubSeq(text, l, to)) = IF l <= to THEN to - l + 1 ELSE 0
  BY <1>2, <1>3, SubSeqProperties
<1>5. CASE l <= to
  BY <1>2, <1>4, <1>5
<1>6. CASE ~(l <= to)
  <2>1. to + 1 - l = 0
    BY <1>2, <1>6
  <2> QED
    BY <1>4, <1>6, <2>1
<1> QED
  BY <1>5, <1>6

LEMMA ArtifactAt ==
  ASSUME NEW S, NEW text \in Seq(S), NEW c \in (1..Len(text)) \X (1..Len(text)), c[1] <= c[2]
  PROVE  LeftOf(text, c) \in 1..(Len(text) + 1) /\ RightOf(text, c) \in 1..(Len(text) + 1)
<1>1. PICK n \in Nat : n = Len(text)
  OBVIOUS
<1>2. PICK to \in 1..n : to = c[2]
  BY <1>1
<1>3. PICK from \in 1..to : from = c[1]
  BY <1>1, <1>2
<1>4. PICK head \in Seq(S) : head = SubSeq(text, 1, to) /\ Len(head) = to
  <2>1. PICK one \in 1..(Len(text) + 1) : one = 1
    BY <1>1
  <2>2. to \in (one - 1)..Len(text)
    BY <1>1, <2>1
  <2>3. SubSeq(text, one, to) \in Seq(S) /\ Len(SubSeq(text, one, to)) = to + 1 - one
    BY <2>2, PartOf
  <2>4. to + 1 - one = to
    BY <2>1
  <2> QED
    BY <2>1, <2>3, <2>4
<1>5. PICK l \in from..(to + 1) : l = LeftOf(text, c)
  <2>1. from \in 1..(Len(head) + 1)
    BY <1>3, <1>4
  <2>2. Behind(head, from, Around) \in from..(Len(head) + 1)
    BY <2>1, BehindAt
  <2> QED
    BY <1>2, <1>3, <1>4, <2>2 DEF LeftOf
<1>6. PICK body \in Seq(S) : body = SubSeq(text, l, to) /\ Len(body) = to + 1 - l
  <2>1. l \in 1..(Len(text) + 1) /\ to \in (l - 1)..Len(text)
    BY <1>1, <1>2, <1>3, <1>5
  <2>2. SubSeq(text, l, to) \in Seq(S) /\ Len(SubSeq(text, l, to)) = to + 1 - l
    BY <2>1, PartOf
  <2> QED
    BY <2>2
<1>7. PICK back \in Seq(S) : back = Reverse(body) /\ Len(back) = to + 1 - l
  <2>1. Reverse(body) \in Seq(S)
    BY DEF Reverse
  <2>2. Len(Reverse(body)) = Len(body)
    BY DEF Reverse
  <2> QED
    BY <1>6, <2>1, <2>2
<1>8. PICK q \in 1..(to + 2 - l) : q = Behind(back, 1, Behinds)
  <2>0. Len(back) + 1 = to + 2 - l /\ 1 <= to + 2 - l
    BY <1>5, <1>7, SMTT(30)
  <2>1. PICK one \in 1..(Len(back) + 1) : one = 1
    BY <2>0, <1>5
  <2>2. Behind(back, one, Behinds) \in one..(Len(back) + 1)
    BY BehindAt
  <2> QED
    BY <2>0, <2>1, <2>2
<1>9. RightOf(text, c) = to + 1 - (q - 1)
  BY <1>2, <1>5, <1>6, <1>7, <1>8 DEF RightOf
<1>10. l \in 1..(n + 1)
  BY <1>2, <1>3, <1>5, SMTT(30)
<1>11. to + 1 - (q - 1) \in 1..(n + 1)
  <2>1. l \in Int /\ to \in Int /\ n \in Int /\ l >= 1 /\ to <= n
    BY <1>10
  <2>2. q \in Int /\ q >= 1 /\ q <= to + 2 - l
    BY <2>1
  <2> QED
    BY <2>1, <2>2
<1> QED
  BY <1>1, <1>5, <1>9, <1>10, <1>11

LEMMA ArtifactsInside ==
  ASSUME doc \in Seq(Lines)
  PROVE  Inside(ArtifactSpans, Len(Text))
<1>1. PICK text \in Seq(Tokens) : text = Text
  BY TextLength
<1> DEFINE Chunks == {c \in (DOMAIN text) \X (DOMAIN text) :
        /\ c[1] <= c[2]
        /\ \A i \in c[1]..c[2] : text[i] \notin Separators
        /\ c[1] = 1 \/ text[c[1] - 1] \in Separators
        /\ c[2] = Len(text) \/ text[c[2] + 1] \in Separators}
           Chosen(c) == LeftOf(text, c) < RightOf(text, c)
                      /\ IsLiteral(SubSeq(text, LeftOf(text, c), RightOf(text, c) - 1))
<1>2. ArtifactSpans = {<<LeftOf(text, c), RightOf(text, c)>> : c \in {c \in Chunks : Chosen(c)}}
  BY <1>1 DEF ArtifactSpans, LeftOf, RightOf
<1>3. DOMAIN text = 1..Len(text)
  OBVIOUS
<1>4. \A c \in Chunks : c \in (1..Len(text)) \X (1..Len(text)) /\ c[1] <= c[2]
  BY <1>3
<1>5. ASSUME NEW s \in ArtifactSpans
      PROVE  s[1] \in 1..(Len(text) + 1) /\ s[2] \in 1..(Len(text) + 1)
  <2> HIDE DEF Chunks, Chosen
  <2>1. PICK c \in Chunks : s = <<LeftOf(text, c), RightOf(text, c)>>
    BY <1>2
  <2>2. c \in (1..Len(text)) \X (1..Len(text)) /\ c[1] <= c[2]
    BY <1>4
  <2>3. LeftOf(text, c) \in 1..(Len(text) + 1) /\ RightOf(text, c) \in 1..(Len(text) + 1)
    BY <2>2, ArtifactAt
  <2> QED
    BY <2>1, <2>3
<1> QED
  BY <1>1, <1>5 DEF Inside

\* A block is made of whole lines: it holds the lines of its run and nothing
\* of any other, and every selected line is in a block.
LEMMA BlocksOfLines ==
  ASSUME Typed
  PROVE  /\ Inside(Blocks, Len(Text))
         /\ \A k \in DOMAIN doc : k \in selected => LineTokens(k) \subseteq Covers(Blocks)
         /\ \A k \in DOMAIN doc : k \notin selected => LineTokens(k) \cap Covers(Blocks) = {}
<1>1. PICK n \in Nat : n = Len(doc) /\ DOMAIN doc = 1..n /\ selected \subseteq 1..n
  BY AnchorLines DEF Typed
<1>2. doc \in Seq(Lines)
  BY DEF Typed
<1>3. PICK size \in Nat : size = Len(Text)
  BY <1>2, LineBounds
<1>4. /\ \A k \in 1..n : LineStart(k) \in 1..size /\ LineEnd(k) \in (LineStart(k) + 1)..(size + 1)
      /\ \A j \in 1..n, k \in 1..n :
           /\ j < k => LineEnd(j) <= LineStart(k)
           /\ j <= k => LineStart(j) <= LineStart(k) /\ LineEnd(j) <= LineEnd(k)
  BY <1>1, <1>2, <1>3, LineBounds
<1>5. ASSUME NEW s \in Blocks
      PROVE  \E a \in 1..n, b \in 1..n : /\ a <= b /\ a..b \subseteq selected
                                         /\ a - 1 \notin selected /\ b + 1 \notin selected
                                         /\ s = <<LineStart(a), LineEnd(b)>>
  <2>1. PICK r \in selected \X selected : /\ r[1] <= r[2] /\ r[1]..r[2] \subseteq selected
                                          /\ r[1] - 1 \notin selected /\ r[2] + 1 \notin selected
                                          /\ s = <<LineStart(r[1]), LineEnd(r[2])>>
    BY DEF Blocks
  <2>2. r[1] \in 1..n /\ r[2] \in 1..n
    BY <1>1, <2>1
  <2> QED
    BY <2>1, <2>2
<1>6. Inside(Blocks, size)
  <2> SUFFICES ASSUME NEW s \in Blocks PROVE s[1] \in 1..(size + 1) /\ s[2] \in 1..(size + 1)
    BY DEF Inside
  <2>1. PICK a \in 1..n, b \in 1..n : s = <<LineStart(a), LineEnd(b)>>
    BY <1>5
  <2>2. LineStart(a) \in 1..size /\ LineEnd(b) \in 1..(size + 1)
    BY <1>4
  <2> QED
    BY <2>1, <2>2
<1>7. ASSUME NEW k \in 1..n, k \in selected PROVE LineTokens(k) \subseteq Covers(Blocks)
  <2> DEFINE L == {j \in 1..k : j..k \subseteq selected}
             R == {j \in k..n : k..j \subseteq selected}
  <2>1. L \in SUBSET Nat /\ R \in SUBSET (0..n) /\ k \in L /\ k \in R
    BY <1>7
  <2>2. PICK a \in L : \A j \in L : a <= j
    <3> HIDE DEF L
    <3> QED
      BY <2>1, Least
  <2>3. PICK b \in R : \A j \in R : j <= b
    <3> HIDE DEF R
    <3>1. R # {}
      BY <2>1
    <3> QED
      BY <2>1, <3>1, Greatest
  <2>4. a \in 1..k /\ b \in k..n /\ a..b \subseteq selected
    BY <2>2, <2>3
  <2>5. a - 1 \notin selected
    <3>1. SUFFICES ASSUME a - 1 \in selected PROVE FALSE
      OBVIOUS
    <3>2. a - 1 \in 1..k /\ (a - 1)..k \subseteq selected
      BY <1>1, <2>2, <2>4, <3>1
    <3>3. a - 1 \in L
      BY <3>2
    <3> QED
      BY <2>2, <2>4, <3>3
  <2>6. b + 1 \notin selected
    <3>1. SUFFICES ASSUME b + 1 \in selected PROVE FALSE
      OBVIOUS
    <3>2. b + 1 \in k..n /\ k..(b + 1) \subseteq selected
      BY <1>1, <2>3, <2>4, <3>1
    <3>3. b + 1 \in R
      BY <3>2
    <3> QED
      BY <2>3, <2>4, <3>3
  <2>7. a \in selected /\ b \in selected /\ a <= b
    BY <2>4
  <2>8. PICK s \in Blocks : s = <<LineStart(a), LineEnd(b)>>
    <3> DEFINE Stretches == {r \in selected \X selected :
                          /\ r[1] <= r[2] /\ r[1]..r[2] \subseteq selected
                          /\ r[1] - 1 \notin selected /\ r[2] + 1 \notin selected}
    <3>1. PICK r \in Stretches : r[1] = a /\ r[2] = b
      <4>1. PICK r : r = <<a, b>>
        OBVIOUS
      <4>2. r \in selected \X selected /\ r[1] = a /\ r[2] = b
        BY <2>7, <4>1
      <4>3. r \in Stretches
        BY <2>4, <2>5, <2>6, <2>7, <4>2
      <4> HIDE DEF Stretches
      <4> QED
        BY <4>2, <4>3
    <3>2. Blocks = {<<LineStart(x[1]), LineEnd(x[2])>> : x \in Stretches}
      BY DEF Blocks
    <3> HIDE DEF Stretches
    <3>3. <<LineStart(r[1]), LineEnd(r[2])>> \in Blocks
      BY <3>2
    <3> QED
      BY <3>1, <3>3
  <2>9. LineStart(a) <= LineStart(k) /\ LineEnd(k) <= LineEnd(b)
        /\ LineStart(a) \in Nat /\ LineEnd(k) \in Nat /\ LineEnd(b) \in Nat /\ LineStart(k) \in Nat
    BY <1>4, <2>4
  <2>10. LineTokens(k) \subseteq s[1]..(s[2] - 1)
    BY <2>8, <2>9 DEF LineTokens
  <2> QED
    BY <2>10 DEF Covers
<1>8. ASSUME NEW k \in 1..n, k \notin selected PROVE LineTokens(k) \cap Covers(Blocks) = {}
  <2> SUFFICES ASSUME NEW s \in Blocks, NEW p \in LineTokens(k), p \in s[1]..(s[2] - 1) PROVE FALSE
    BY DEF Covers
  <2>1. PICK a \in 1..n, b \in 1..n : a <= b /\ a..b \subseteq selected /\ s = <<LineStart(a), LineEnd(b)>>
    BY <1>5
  <2>2. p \in LineStart(k)..(LineEnd(k) - 1) /\ p \in LineStart(a)..(LineEnd(b) - 1)
    BY <2>1 DEF LineTokens
  <2>3. k < a \/ b < k
    BY <1>8, <2>1
  <2>4. LineEnd(k) <= LineStart(a) \/ LineEnd(b) <= LineStart(k)
    BY <1>4, <2>3
  <2>5. LineStart(k) \in Nat /\ LineEnd(k) \in Nat /\ LineStart(a) \in Nat /\ LineEnd(b) \in Nat
    BY <1>4
  <2> QED
    BY <2>2, <2>4, <2>5
<1> QED
  BY <1>1, <1>3, <1>6, <1>7, <1>8

-----------------------------------------------------------------------------
(* The properties.                                                         *)

LEMMA CoversTogether ==
  ASSUME NEW A, NEW B
  PROVE  /\ Covers(A \cup B) = Covers(A) \cup Covers(B)
         /\ \A s \in A : s[1]..(s[2] - 1) \subseteq Covers(A)
  BY DEF Covers

\* The spans the passes find lie in the document.
LEMMA FoundInside ==
  ASSUME Typed
  PROVE  /\ Len(Text) \in Nat
         /\ Inside(Explicits, Len(Text)) /\ Inside(Inferred, Len(Text)) /\ Inside(Literals, Len(Text))
<1>1. doc \in Seq(Lines) /\ judged = [k \in DOMAIN doc |-> Judged[doc[k]]]
  BY DEF Typed
<1>2. PICK size \in Nat : size = Len(Text)
  BY <1>1, LineBounds
<1>3. Inside({}, size)
  BY DEF Inside
<1>4. Inside(Explicits, size)
  BY <1>1, <1>2, <1>3, ExplicitWithin DEF Explicits
<1>5. Inside({<<1, size + 1>>}, size)
  <2> SUFFICES ASSUME NEW s \in {<<1, size + 1>>} PROVE s[1] \in 1..(size + 1) /\ s[2] \in 1..(size + 1)
    BY DEF Inside
  <2>1. s[1] = 1 /\ s[2] = size + 1
    OBVIOUS
  <2> QED
    BY <2>1
<1>6. Inside(Inferred, size)
  BY <1>2, <1>3, <1>5, BlocksOfLines DEF Inferred
<1>7. Inside(Literals, size)
  BY <1>1, <1>2, <1>3, ArtifactsInside DEF Literals
<1> QED
  BY <1>2, <1>4, <1>6, <1>7

LEMMA InsideTogether ==
  ASSUME NEW n, NEW A, NEW B, Inside(A, n), Inside(B, n)
  PROVE  Inside(A \cup B, n)
  BY DEF Inside

\* What the merged spans are, and what they cover.
LEMMA DoneSpans ==
  ASSUME IInv, Done
  PROVE  /\ Len(Text) \in Nat
         /\ \A s \in spans : s[1] \in 1..Len(Text) /\ s[2] \in (s[1] + 1)..(Len(Text) + 1)
         /\ \A s \in spans, r \in spans : s # r => s[2] < r[1] \/ r[2] < s[1]
         /\ Covered = (Covers(Explicits) \cup Covers(Inferred)) \cup Covers(Literals)
<1>1. Typed /\ SpansFound
  BY DEF IInv
<1>2. PICK size \in Nat : size = Len(Text)
  BY <1>1, FoundInside
<1>3. PICK found : found = Explicits \cup Inferred \cup Literals
  OBVIOUS
<1>4. Inside(found, size)
  BY <1>1, <1>2, <1>3, FoundInside, InsideTogether
<1>5. spans = MergeSpans(found)
  BY <1>1, <1>3 DEF SpansFound, Done
<1>6. /\ \A s \in MergeSpans(found) : s[1] \in 1..size /\ s[2] \in (s[1] + 1)..(size + 1)
      /\ \A s \in MergeSpans(found), r \in MergeSpans(found) : s # r => s[2] < r[1] \/ r[2] < s[1]
      /\ Covers(MergeSpans(found)) = Covers(found)
  BY <1>4, Merged
<1>7. Covered = Covers(found)
  BY <1>5, <1>6 DEF Covered, Covers
<1>8. Covers(found) = (Covers(Explicits) \cup Covers(Inferred)) \cup Covers(Literals)
  <2>1. PICK blocks : blocks = Explicits \cup Inferred
    OBVIOUS
  <2>2. PICK artifacts : artifacts = Literals
    OBVIOUS
  <2>3. Covers(blocks \cup artifacts) = Covers(blocks) \cup Covers(artifacts)
    BY CoversTogether
  <2>4. Covers(Explicits \cup Inferred) = Covers(Explicits) \cup Covers(Inferred)
    BY CoversTogether
  <2> QED
    BY <1>3, <2>1, <2>2, <2>3, <2>4
<1> QED
  BY <1>2, <1>5, <1>6, <1>7, <1>8

LEMMA SpansTyped == IInv => TypeOK
<1> SUFFICES ASSUME IInv PROVE TypeOK
  OBVIOUS
<1>1. Typed /\ SpansFound
  BY DEF IInv
<1>2. PICK size \in Nat : size = Len(Text)
  BY <1>1, FoundInside
<1>3. Inside(Explicits, size) /\ Inside(Inferred, size) /\ Inside(Literals, size)
  BY <1>1, <1>2, FoundInside
<1>4. Inside(spans, size)
  <2>1. CASE pass = "explicit"
    BY <1>1, <2>1 DEF SpansFound, Inside
  <2>2. CASE pass \in LinePasses
    BY <1>1, <1>3, <2>2 DEF SpansFound
  <2>3. CASE pass = "artifacts"
    BY <1>1, <1>3, <2>3, InsideTogether DEF SpansFound
  <2>4. CASE pass = "merge"
    BY <1>1, <1>3, <2>4, InsideTogether, ZenonT(30) DEF SpansFound
  <2>5. CASE pass = "done"
    <3> SUFFICES ASSUME NEW s \in spans PROVE s[1] \in 1..(size + 1) /\ s[2] \in 1..(size + 1)
      BY DEF Inside
    <3>1. s[1] \in 1..size /\ s[2] \in (s[1] + 1)..(size + 1)
      BY <1>2, <2>5, DoneSpans DEF Done
    <3> QED
      BY <3>1
  <2>6. pass \in Passes
    BY <1>1 DEF Typed
  <2> QED
    BY <2>1, <2>2, <2>3, <2>4, <2>5, <2>6 DEF Passes, LinePasses
<1> QED
  BY <1>1, <1>2, <1>4 DEF TypeOK, Typed, Inside

\* The tokens of a line are tokens of the document.
LEMMA LinesWithin ==
  ASSUME Typed, NEW k \in DOMAIN doc
  PROVE  LineTokens(k) \subseteq Covers({<<1, Len(Text) + 1>>})
<1>1. doc \in Seq(Lines) /\ DOMAIN doc = 1..Len(doc)
  BY AnchorLines DEF Typed
<1>2. PICK size \in Nat : size = Len(Text)
  BY <1>1, LineBounds
<1>3. LineStart(k) \in 1..size /\ LineEnd(k) \in (LineStart(k) + 1)..(size + 1)
  BY <1>1, <1>2, LineBounds
<1>4. LineTokens(k) \subseteq 1..(size + 1 - 1)
  BY <1>3 DEF LineTokens
<1>5. PICK s : s = <<1, size + 1>>
  OBVIOUS
<1>6. s[1] = 1 /\ s[2] = size + 1
  BY <1>5
<1>7. s[1]..(s[2] - 1) \subseteq Covers({s})
  BY DEF Covers
<1>8. s[1]..(s[2] - 1) = 1..(size + 1 - 1)
  BY <1>6
<1>9. LineTokens(k) \subseteq Covers({s})
  BY <1>4, <1>7, <1>8
<1>10. {s} = {<<1, Len(Text) + 1>>}
  BY <1>2, <1>5
<1> QED
  BY <1>9, <1>10

LEMMA ApartAndRetained ==
  IInv => SpansAreApart /\ ExplicitRetained
<1> SUFFICES ASSUME IInv, Done
             PROVE  /\ \A s \in spans : s[1] < s[2] /\ s[2] <= Len(Text) + 1
                    /\ \A s, r \in spans : s # r => s[2] < r[1] \/ r[2] < s[1]
                    /\ \A s \in ExplicitSpans : s[1]..(s[2] - 1) \subseteq Covered
  BY DEF SpansAreApart, ExplicitRetained
<1>1. PICK size \in Nat : size = Len(Text)
  BY DoneSpans
<1>2. ASSUME NEW s \in spans PROVE s[1] < s[2] /\ s[2] <= size + 1
  <2>1. s[1] \in 1..size /\ s[2] \in (s[1] + 1)..(size + 1)
    BY <1>1, DoneSpans
  <2> QED
    BY <2>1
<1>3. \A s, r \in spans : s # r => s[2] < r[1] \/ r[2] < s[1]
  BY DoneSpans
<1>4. ASSUME NEW s \in ExplicitSpans PROVE s[1]..(s[2] - 1) \subseteq Covered
  <2>1. doc \in Seq(Lines) /\ judged = [k \in DOMAIN doc |-> Judged[doc[k]]]
    BY DEF IInv, Typed
  <2>2. Explicits = ExplicitSpans
    BY <1>4, <2>1, ExplicitWithin DEF Explicits
  <2>3. s[1]..(s[2] - 1) \subseteq Covers(Explicits)
    BY <1>4, <2>2, CoversTogether
  <2> QED
    BY <2>3, DoneSpans
<1> QED
  BY <1>1, <1>2, <1>3, <1>4

LEMMA LinesAreWhole == IInv => BlocksAreLines
<1> SUFFICES ASSUME IInv, Done, NEW k \in DOMAIN doc
             PROVE  \/ LineTokens(k) \subseteq Covered
                    \/ LineTokens(k) \cap Covered \subseteq Covers(ExplicitSpans \cup ArtifactSpans)
  BY DEF BlocksAreLines, Covers
<1>1. Typed
  BY DEF IInv
<1>2. Covered = (Covers(Explicits) \cup Covers(Inferred)) \cup Covers(Literals)
  BY DoneSpans
<1>3. Covers(ExplicitSpans \cup ArtifactSpans) = Covers(ExplicitSpans) \cup Covers(ArtifactSpans)
  BY CoversTogether
<1>4. Covers({}) = {}
  BY DEF Covers
<1>5. Covers(Explicits) \subseteq Covers(ExplicitSpans) /\ Covers(Literals) \subseteq Covers(ArtifactSpans)
  BY <1>4 DEF Explicits, Literals
<1>6. CASE ~Hint("unmarked")
  <2>1. Covers(Inferred) = {}
    BY <1>4, <1>6 DEF Inferred
  <2> QED
    BY <1>2, <1>3, <1>5, <2>1
<1>7. CASE Hint("unmarked") /\ IsScript
  <2>1. LineTokens(k) \subseteq Covers(Inferred)
    BY <1>1, <1>7, LinesWithin DEF Inferred
  <2> QED
    BY <1>2, <2>1
<1>8. CASE Hint("unmarked") /\ ~IsScript
  <2>1. Covers(Inferred) = Covers(Blocks)
    BY <1>8 DEF Inferred
  <2>2. CASE k \in selected
    BY <1>1, <1>2, <2>1, <2>2, BlocksOfLines
  <2>3. CASE k \notin selected
    <3>1. LineTokens(k) \cap Covers(Blocks) = {}
      BY <1>1, <2>3, BlocksOfLines
    <3> QED
      BY <1>2, <1>3, <1>5, <2>1, <3>1
  <2> QED
    BY <2>2, <2>3
<1> QED
  BY <1>6, <1>7, <1>8

LEMMA StrongIsCode == IInv => StrongLinesAreCode
<1> SUFFICES ASSUME IInv, Done, Hint("unmarked"), NEW k \in DOMAIN doc, Hard(k) \/ ScoreOf(k) >= Strong
             PROVE  LineTokens(k) \subseteq Covered
  BY DEF StrongLinesAreCode
<1>1. Typed /\ PassesTaken
  BY DEF IInv
<1>2. Covers(Inferred) \subseteq Covered
  BY DoneSpans
<1>3. CASE IsScript
  BY <1>1, <1>2, <1>3, LinesWithin DEF Inferred
<1>4. CASE ~IsScript
  <2>1. k \in selected
    BY <1>1, <1>4 DEF PassesTaken, StrongSelected, Done
  <2>2. LineTokens(k) \subseteq Covers(Blocks)
    BY <1>1, <2>1, BlocksOfLines
  <2> QED
    BY <1>2, <1>4, <2>2 DEF Inferred
<1> QED
  BY <1>3, <1>4

LEMMA AlwaysInv == Spec => []IInv
<1>1. IInv /\ [Next]_vars => IInv'
  <2> SUFFICES ASSUME IInv, [Next]_vars PROVE IInv'
    OBVIOUS
  <2>1. Typed'
    BY NextTyped DEF IInv
  <2>2. SpansFound' /\ PassesTaken'
    BY NextFound
  <2>3. Spread'
    BY NextSpreads
  <2> QED
    BY <2>1, <2>2, <2>3 DEF IInv
<1> QED
  BY <1>1, InitInv, PTL DEF Spec

\* The spans of a document (auto_code_spans, code.rs:20): when the passes are
\* done the spans lie in the document, apart from each other; every explicit
\* backtick region is inside one, whatever was inferred around it; and a line
\* is code as a whole or only where a region or a literal of its own is.
\* This holds of every document, not only those the run enumerates.
THEOREM SpansAreExact == Spec => []SpansExact
<1>1. IInv => SpansExact
  BY SpansTyped, ApartAndRetained, LinesAreWhole DEF SpansExact
<1> QED
  BY <1>1, AlwaysInv, PTL

\* Which lines become code (inferred_code_spans, code.rs:361): with the hint
\* for unmarked code every strong line does, prose does only with the score
\* of an anchor, and the rest are the lines of blocks, up to two continuation
\* lines before each and all that follow it without a break: the loop that
\* extends the list it walks makes exactly that of every document.
THEOREM LinesAreJudged == Spec => []LinesAreClassified
<1>1. IInv => LinesAreClassified
  BY StrongIsCode, SpreadSays DEF LinesAreClassified, IInv
<1> QED
  BY <1>1, AlwaysInv, PTL
=============================================================================
