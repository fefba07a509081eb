----------------------------- MODULE SurfaceIds -----------------------------
(***************************************************************************)
(* What encoding one document to surface-piece ids means                   *)
(* (surface_vocab.rs, flat_surface.rs), without any cache: scanning gives  *)
(* units, the units fall into groups, and the ids of a group depend on the *)
(* vocabulary and on the units of the group alone.  Ids are kept by group  *)
(* and unit instead of being strung together.                              *)
(*                                                                         *)
(* A document is a sequence of atoms: words and words longer than          *)
(* max_fallback_chars (or parts of identifiers), digits, decimal points,   *)
(* spaces, line breaks, invalid bytes, and atoms whose analysis or         *)
(* encoding returns an error.                                              *)
(***************************************************************************)
EXTENDS Integers, SequencesExt

CONSTANT MaxUnits  \* CODE_PROGRAM_MAX_UNITS

ASSUME MaxUnitsAssumption == MaxUnits \in Nat \ {0}

Atom == {"word", "long", "digits", "point", "space", "break", "opaque", "bad"}

\* Digits are a number unless letters stand before them; a point with digits
\* on both sides belongs to a number it follows.
InNumber(doc, i) == doc[i] = "digits" /\ (i = 1 \/ doc[i - 1] \notin {"word", "long"})
DecimalPoint(doc, i) ==
  /\ doc[i] = "point"
  /\ i \in 2..(Len(doc) - 1)
  /\ InNumber(doc, i - 1)
  /\ doc[i + 1] = "digits"

\* Whether the scanner puts the atom at i and the next one into one unit:
\* runs of spaces, of line breaks and of invalid bytes, numbers, and, unless
\* identifiers are cut, words with digits.
Joined(mode, doc, i) ==
  \/ doc[i] = doc[i + 1] /\ doc[i] \in {"space", "break", "opaque"}
  \/ DecimalPoint(doc, i) \/ DecimalPoint(doc, i + 1)
  \/ mode # "code" /\ {doc[i], doc[i + 1]} \subseteq {"word", "long", "digits"}

UnitEnds(mode, doc) == {i \in DOMAIN doc : i = Len(doc) \/ ~Joined(mode, doc, i)}

\* The last of the ends before e, or the beginning.
Before(ends, e) == Max({0} \cup {i \in ends : i < e})

\* The units that end behind s and not behind e, by where they end in between.
UnitsBetween(mode, doc, s, e) ==
  LET ends == {i \in 1..(e - s) : s + i \in UnitEnds(mode, doc)}
  IN [i \in ends |-> SubSeq(doc, s + Before(ends, i) + 1, s + i)]

\* A code chunk ends behind line breaks or invalid bytes, after MaxUnits
\* units, or with the document.  OpenUnits is the number of units that the
\* chunk holds which is open behind an atom.
OpenUnits(doc) ==
  LET unitEnds == UnitEnds("code", doc)
      open[i \in 0..Len(doc)] ==
        IF i = 0 THEN 0
        ELSE IF i \notin unitEnds THEN open[i - 1]
        ELSE IF doc[i] \in {"break", "opaque"} THEN 0 ELSE (open[i - 1] + 1) % MaxUnits
  IN open

ChunkEnds(doc) ==
  LET open == OpenUnits(doc)
  IN {i \in UnitEnds("code", doc) : i = Len(doc) \/ open[i] = 0}

\* Elsewhere the document is one group.
Ends(mode, doc) == IF mode = "code" THEN ChunkEnds(doc) ELSE {Len(doc)} \ {0}

\* A single space is encoded together with the word or number behind it.  In
\* code mode one that has to be split stays apart; elsewhere it was split before.
Bridges(mode, units, i) ==
  /\ units[i] = <<"space">>
  /\ \E j \in DOMAIN units :
       /\ Before(DOMAIN units, j) = i
       /\ Head(units[j]) \in {"word", "digits"} \cup (IF mode = "code" THEN {} ELSE {"long"})

\* Morphology cuts are ignored in code mode.
EncodeRange(options, v, units) ==
  [vocab |-> v,
   cuts |-> options.mode # "code" /\ options.morphology,
   pieces |-> [i \in DOMAIN units |->
     LET before == Before(DOMAIN units, i)
     IN CASE Bridges(options.mode, units, i) -> <<>>
          [] before # 0 /\ Bridges(options.mode, units, before) -> <<units[before], units[i]>>
          [] OTHER -> <<units[i]>>]]

Rejected(doc) == \E i \in DOMAIN doc : doc[i] = "bad"

\* What of the document lies behind s and not behind e, and its ids there.
Part(doc, s, e) == SubSeq(doc, s + 1, e)
RangeIds(o, v, doc, s, e) == EncodeRange(o, v, UnitsBetween(o.mode, doc, s, e))

DocumentIds(o, v, doc, newline) ==
  LET ends == Ends(o.mode, doc)
  IN [groups |-> [e \in ends |-> RangeIds(o, v, doc, Before(ends, e), e)], newline |-> newline]

---------------------------------------------------------------------------
(* What an encoder promises that knows vocabularies by where they are kept   *)
(* and code by its text alone.  Its answers are those of DocumentIds where   *)
(* there is one vocabulary at the place and the text is not ambiguous.       *)

\* A raw line of code ends behind each line break, and with the document.
LineEnds(doc) == {i \in DOMAIN doc : doc[i] = "break" \/ i = Len(doc)}

\* The ids of atoms by themselves.  In code, digits may also be the rest of an
\* identifier whose letters the chunk before ended with: its digits are no
\* number then.
Readings(o, v, atoms) ==
  {RangeIds(o, v, atoms, 0, Len(atoms))} \cup
    {RangeIds(o, v, <<letters>> \o atoms, 1, Len(atoms) + 1) : letters \in
       IF o.mode = "code" /\ atoms[1] = "digits" THEN {"word", "long"} ELSE {}}

\* The groups of a document end where its chunks do.  Where every raw line is a
\* chunk by itself, which it need not be within the document (line breaks in a
\* row are one unit), they may end where its lines do.
LinesAlone(doc) ==
  \A e \in LineEnds(doc) :
    LET line == Part(doc, Before(LineEnds(doc), e), e) IN ChunkEnds(line) = {Len(line)}

Cuts(mode, doc) ==
  {Ends(mode, doc)} \cup IF mode = "code" /\ LinesAlone(doc) THEN {LineEnds(doc)} ELSE {}

\* Ids of a document with the given vocabularies, one for each group.
IsReading(o, vocabs, atoms, ids) == \E v \in vocabs : ids \in Readings(o, v, atoms)

IsAnswer(o, vocabs, doc, newline, ids) ==
  \E ends \in Cuts(o.mode, doc) :
    /\ DOMAIN ids.groups = ends
    /\ ids = [groups |-> [e \in ends |-> ids.groups[e]], newline |-> newline]
    /\ \A e \in ends : IsReading(o, vocabs, Part(doc, Before(ends, e), e), ids.groups[e])
=============================================================================
