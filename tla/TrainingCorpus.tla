---------------------------- MODULE TrainingCorpus ----------------------------
(***************************************************************************)
(* A corpus on its way into training: documents, or the vocabulary trained *)
(* on them, are written to a file, the file may be damaged where it lies,  *)
(* is read back, and what was read is encoded into one stream.             *)
(***************************************************************************)
EXTENDS TrainingStreams

CONSTANTS Corpora,       \* sequences of documents
          DamagedCells   \* what may take the place of a cell

VARIABLES documents, kind, file, damaged, got, options, newline, batch, phase

vars == <<documents, kind, file, damaged, got, options, newline, batch, phase>>

FileKinds == {"format", "codec", "characters", "generation"}
Options == [unit : BOOLEAN, morpheme : BOOLEAN, code : BOOLEAN]

Stored ==
  CASE kind = "format" -> Lossless(documents[1])
    [] kind = "codec" -> documents[1]
    [] kind = "characters" -> Train(documents, MaxChars)
    [] kind = "generation" -> TrainGeneration(documents, MaxRoots)

FileOf(value) ==
  CASE kind = "format" -> EncodeBinary(value)
    [] kind = "codec" -> Encode(value)
    [] kind = "characters" -> CharacterFile(value)
    [] kind = "generation" -> GenerationFile(value)

ReadFile ==
  CASE kind = "format" -> DecodeBinary(file)
    [] kind = "codec" -> Decode(file)
    [] kind = "characters" -> ReadCharacters(file)
    [] kind = "generation" -> ReadGeneration(file)

TypeOK ==
  /\ documents \in Corpora
  /\ kind \in FileKinds
  /\ file = NONE \/ \A i \in DOMAIN file : Len(file[i]) = 2
  /\ damaged \in BOOLEAN
  /\ options \in Options
  /\ newline \in Seq(BOOLEAN)
  /\ batch = NONE \/ batch.offsets \in Seq(0..Len(batch.tokens))
  /\ phase \in {"new", "written", "read", "encoded"}

Init ==
  /\ documents \in Corpora
  /\ kind \in FileKinds
  /\ file = NONE /\ damaged = FALSE /\ got = NONE
  /\ options = AllOptions /\ newline = <<>> /\ batch = NONE
  /\ phase = "new"

Write ==
  /\ phase = "new"
  /\ file' = FileOf(Stored)
  /\ phase' = "written"
  /\ UNCHANGED <<documents, kind, damaged, got, options, newline, batch>>

\* A cell is overwritten, the end is lost, or something follows it.
Damage ==
  /\ phase = "written" /\ file # NONE /\ ~damaged
  /\ \/ \E i \in DOMAIN file, cell \in DamagedCells : file' = [file EXCEPT ![i] = cell]
     \/ \E i \in DOMAIN file : file' = SubSeq(file, 1, i - 1)
     \/ \E cell \in DamagedCells : file' = Append(file, cell)
  /\ damaged' = TRUE
  /\ UNCHANGED <<documents, kind, got, options, newline, batch, phase>>

Read ==
  /\ phase = "written" /\ file # NONE
  /\ got' = ReadFile
  /\ phase' = "read"
  /\ UNCHANGED <<documents, kind, file, damaged, options, newline, batch>>

\* What is encoded, and with which vocabulary.
Source == IF kind = "codec" THEN <<got>> ELSE documents
Vocabulary == IF kind = "characters" THEN got ELSE Train(documents, MaxChars)

EncodeCorpus ==
  /\ phase = "read" /\ got # NONE /\ kind \in {"codec", "characters"}
  /\ \E o \in Options, n \in BOOLEAN :
       /\ options' = o
       /\ newline' = [i \in DOMAIN Source |-> IF i = 1 THEN n ELSE ~n]
       /\ batch' = EncodeBatch(Vocabulary, Source, newline', o)
  /\ phase' = "encoded"
  /\ UNCHANGED <<documents, kind, file, damaged, got>>

Next == Write \/ Damage \/ Read \/ EncodeCorpus

Spec == Init /\ [][Next]_vars

----------------------------------------------------------------------------
(* Properties.                                                             *)

WasRead == phase \in {"read", "encoded"}

\* What was written is what is read: documents with every span, cut and
\* morpheme, vocabularies with every id.
RoundTrip == (WasRead /\ ~damaged) => got = Stored

\* A damaged file with a checksum is refused, though the counts in front of
\* the payload are not hashed; NEDOFMT has no checksum.
DamageNoticed == (WasRead /\ damaged /\ kind # "format") => got \in {NONE, Stored}

\* Every file a reader accepts, damaged or not, is the one file its contents
\* are written to: no two files hold the same thing, nothing is skipped.
ReadIsCanonical == (WasRead /\ got # NONE) => FileOf(got) = file

\* The encoding refuses no document whose cuts are where its scalars begin,
\* and refuses every other one when it is to mark the cuts.
CutsAreScalars(d) ==
  \A u \in ToSet(d.units) : ToSet(u.cuts) \subseteq Starts(d.raw, u.start, u.end)
EncodingSucceeds ==
  phase = "encoded" =>
    (batch # NONE) = /\ options.morpheme => \A d \in ToSet(Source) : CutsAreScalars(d)
                     /\ \A d \in ToSet(Source), i \in DOMAIN Vocabulary :
                          i > MaxId => Vocabulary[i] \notin ToSet(ScalarsFrom(d.raw, 1))

\* Read back with the vocabulary, the part of the stream between two offsets
\* is its document: the bytes, the units, their cuts and which are code, as
\* far as the options have them marked; the lengths are those of the bytes.
Piece(k) == SubSeq(batch.tokens, batch.offsets[k] + 1, batch.offsets[k + 1])
Spelled(token) == CASE token.id[1] = "byte" -> <<token.id[2]>>
                    [] token.id[1] = "char" -> ScalarBytes(Vocabulary[token.id[2]])
                    [] OTHER -> <<>>
Rebuilt(piece) ==
  FoldLeft(LAMBDA s, t :
      CASE t.id = <<"control", "unit">> -> [s EXCEPT !.units = Append(@, Len(s.raw) + 1)]
        [] t.id = <<"control", "morpheme">> -> [s EXCEPT !.cuts = @ \cup {Len(s.raw) + 1}]
        [] t.id = <<"control", "code start">> -> [s EXCEPT !.code = TRUE]
        [] t.id = <<"control", "code end">> -> [s EXCEPT !.code = FALSE]
        [] OTHER -> [s EXCEPT !.raw = @ \o Spelled(t),
                              !.inCode = IF s.code THEN @ \cup {Len(s.raw) + 1} ELSE @],
    [raw |-> <<>>, units |-> <<>>, cuts |-> {}, code |-> FALSE, inCode |-> {}], piece)
StreamsAreDocuments ==
  batch # NONE =>
    /\ Len(batch.offsets) = Len(Source) + 1 /\ batch.offsets[1] = 0
    /\ batch.offsets[Len(Source) + 1] = Len(batch.tokens)
    /\ \A k \in DOMAIN Source :
         LET d == Source[k]
             rebuilt == Rebuilt(Piece(k))
             code == UNION {Starts(d.raw, u.start, u.end) : u \in {u \in ToSet(d.units) : u.mode = "Code"}}
         IN /\ \A i \in DOMAIN Piece(k) : Len(Spelled(Piece(k)[i])) = Piece(k)[i].length
            /\ rebuilt.raw = d.raw \o IF newline[k] THEN <<<<"\n", 1>>>> ELSE <<>>
            /\ options.unit => rebuilt.units = [i \in DOMAIN d.units |-> d.units[i].start]
            /\ options.morpheme => rebuilt.cuts = UNION {ToSet(u.cuts) : u \in ToSet(d.units)}
            /\ options.code => code \subseteq rebuilt.inCode /\ ~rebuilt.code
            /\ options.code => \A u \in ToSet(d.units) :
                 u.mode # "Code" => rebuilt.inCode \cap (u.start..(u.end - 1)) = {}

\* Without marks the units leave no trace: the stream is that of the bytes
\* alone, byte for byte or scalar for scalar.
UnmarkedIsPlain ==
  (batch # NONE /\ TRUE \notin {options.unit, options.morpheme, options.code}) =>
    \A k \in DOMAIN Source :
      /\ Piece(k) = EncodeCharacters(Vocabulary, Source[k].raw, newline[k])
      /\ FlattenSeq([i \in DOMAIN Piece(k) |-> Spelled(Piece(k)[i])])
           = FlattenSeq([i \in DOMAIN EncodeBytes(Source[k].raw, newline[k]) |->
                          Spelled(EncodeBytes(Source[k].raw, newline[k])[i])])

\* With every mark and no line break added the stream is the one that
\* CharacterVocabulary::encode makes on a way of its own.
MarkedIsEncoded ==
  (batch # NONE /\ options = AllOptions) =>
    \A k \in DOMAIN Source : ~newline[k] =>
      [i \in DOMAIN Piece(k) |-> Piece(k)[i].id] = EncodeIds(Vocabulary, Source[k])

\* A file gives back what was written to it, or nothing where it was damaged,
\* and there is one file for what is read.
FilesAreFaithful == TypeOK /\ RoundTrip /\ DamageNoticed /\ ReadIsCanonical

\* A batch is encoded whenever its documents are cut at scalars, each stream is
\* its document, and without markers it is the plain one.
StreamsExact == EncodingSucceeds /\ StreamsAreDocuments /\ UnmarkedIsPlain /\ MarkedIsEncoded
=============================================================================
