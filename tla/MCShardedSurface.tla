-------------------------- MODULE MCShardedSurface --------------------------
(***************************************************************************)
(* Model checking ShardedSurface: documents with morphology, unknown words *)
(* that are chunked, wide scalars, stray bytes, single and double spaces.  *)
(***************************************************************************)
EXTENDS ShardedSurface

Unit(start, end, kind, mode, status, cuts) ==
  [start |-> start, end |-> end, kind |-> kind, mode |-> mode, status |-> status, cuts |-> cuts,
   group |-> NONE, analysis |-> NONE]
Known1(start, end, cuts) == Unit(start, end, "Word", "Turkish", "Morphological", cuts)
Gap(start, end) == Unit(start, end, "Whitespace", "Turkish", "Structural", <<>>)
Code(start, end, kind) == Unit(start, end, kind, "Code", "Code", <<>>)

\* "dan da" and "a dani", with their suffixes cut off.
Suffixed == [raw |-> Spell(<<"d", "a", "n", " ", "d", "a">>),
             units |-> <<Known1(1, 4, <<3>>), Gap(4, 5), Known1(5, 7, <<>>)>>]
TwoSuffixes == [raw |-> Spell(<<"a", " ", "d", "a", "n", "i">>),
                units |-> <<Known1(1, 2, <<>>), Gap(2, 3), Known1(3, 7, <<5, 6>>)>>]
\* Two spaces, a word nobody knows that is too long, a line break.
Spaced == [raw |-> Spell(<<" ", " ", "d", "a", "n", "d", "a", "\n">>),
           units |-> <<Gap(1, 3), Unit(3, 8, "Word", "Turkish", "Unknown", <<>>),
                       Unit(8, 9, "LineBreak", "Turkish", "Structural", <<>>)>>]
\* A short unknown word with a wide letter, behind a space; stray bytes.
Wide == [raw |-> Spell(<<"a", " ", "a hat", "n">>) \o <<<<"a hat", 2>>, <<"a hat", 2>>, <<"a hat", 2>>, <<"a hat", 2>>>>,
         units |-> <<Known1(1, 2, <<>>), Gap(2, 3), Unit(3, 6, "Word", "Turkish", "Unknown", <<>>),
                     Unit(6, 10, "Opaque", "Opaque", "Opaque", <<>>)>>]
\* Code: a name that is too long behind a space, and one that is not.
Names == [raw |-> Spell(<<" ", "d", "a", "n", "d", " ", "d", "a">>),
          units |-> <<Code(1, 2, "Whitespace"), Code(2, 6, "Word"), Code(6, 7, "Whitespace"), Code(7, 9, "Word")>>]
Empty == [raw |-> <<>>, units |-> <<>>]
\* What the tokenizer fails on.
Broken == [raw |-> Spell(<<"d", "a">>), units |-> <<Known1(1, 2, <<>>)>>]

Texts == {Suffixed, TwoSuffixes, Spaced, Wide, Names, Empty}

MCCorpus == {Suffixed, TwoSuffixes, Wide}
MCMerges ==
  {[k \in DOMAIN m |-> Spell(m[k])] :
     m \in {<<<<"d", "a">>, <<"a", "n">>, <<"d", "a", "n">>, <<" ", "d">>, <<" ", "d", "a">>>>,
            <<<<"a", "n">>, <<"n", "d">>, <<" ", "d">>, <<"d", "a">>>>,
            <<<<"d", "a", "n">>>>}}
MCRequests ==
  {[docs |-> <<Suffixed, Empty, TwoSuffixes, Spaced>>, newlines |-> <<TRUE, FALSE, TRUE, FALSE>>, code |-> FALSE, morphology |-> TRUE],
   [docs |-> <<Wide, Suffixed>>, newlines |-> <<FALSE, FALSE>>, code |-> FALSE, morphology |-> FALSE],
   [docs |-> <<Names, Empty, Names>>, newlines |-> <<TRUE, TRUE, FALSE>>, code |-> TRUE, morphology |-> TRUE],
   [docs |-> <<Suffixed, Broken, Empty>>, newlines |-> <<TRUE, FALSE, FALSE>>, code |-> FALSE, morphology |-> TRUE],
   [docs |-> <<Empty, Suffixed>>, newlines |-> <<FALSE, FALSE>>, code |-> FALSE, morphology |-> TRUE],
   [docs |-> <<Suffixed>>, newlines |-> <<>>, code |-> FALSE, morphology |-> TRUE],
   [docs |-> <<>>, newlines |-> <<>>, code |-> FALSE, morphology |-> TRUE]}

----------------------------------------------------------------------------

\* The variables have their types, and the trainer never keeps more than
\* twice its cap of candidates from one document to the next.
TypeOK ==
  /\ \A piece \in DOMAIN counts : Len(piece) \in 1..MaxPiece /\ counts[piece] \in Nat \ {0}
  /\ Cardinality(DOMAIN counts) <= 2 * Candidates
  /\ Len(observed) <= MaxObserved
  /\ vocabulary # NONE => vocabulary.kind \in Kind /\ EntryBase + Len(vocabulary.entries) <= IdLimit
  /\ loaded.done \in BOOLEAN
  /\ request # NONE => request \in MCRequests
  /\ DOMAIN work \subseteq 1..Shards
  /\ result.state \in {"none", "failed", "done"}

\* As long as a corpus has no more candidates than are ever kept, the order of
\* its documents does not matter to the trainer: pruning in between would lose
\* counts of what comes again later.
TrainingOrderFree ==
  LET seen(s) == FoldLeft(LAMBDA c, o : Observe(c, o.document, o.morphology, Candidates), <<>>, s)
      pieces == DOMAIN FoldLeft(LAMBDA c, o : CountAll(c, o.document, o.morphology), <<>>, observed)
  IN Cardinality(pieces) <= 2 * Candidates => seen(Reverse(observed)) = counts

\* Where a token has to end, told from the units alone: behind every unit but
\* a single space before a word or number, at the cuts the kind keeps, and
\* where a unit is chunked.
HardEnds(v, d, morphology) ==
  LET led(i) == /\ i < Len(d.units) /\ d.units[i].kind = "Whitespace" /\ d.units[i].end = d.units[i].start + 1
                /\ d.raw[d.units[i].start] = <<" ", 1>> /\ d.units[i + 1].kind \in {"Word", "Number"}
      kept(u) == IF ~morphology \/ v.kind = "LexicalByteBpe" THEN {}
                 ELSE IF v.kind = "RootSuffixByteBpe" THEN {c \in ToSet(u.cuts) : \A other \in ToSet(u.cuts) : c <= other}
                 ELSE ToSet(u.cuts)
  IN {d.units[i].end : i \in {i \in DOMAIN d.units : ~led(i)}} \cup UNION {kept(u) : u \in ToSet(d.units)}
       \cup UNION {IF IsFallback(u) THEN {c.end : c \in ToSet(ChunkSpan(d.raw, u))} \ {u.end} ELSE {} : u \in ToSet(d.units)}

TokensOf(j) == SubSeq(result.tokens, result.offsets[j] + 1, result.offsets[j + 1])
EndsOf(tokens) == {1 + FoldLeft(LAMBDA n, t : n + t.length, 0, SubSeq(tokens, 1, k)) : k \in DOMAIN tokens}

\* No token of a batch reaches across a unit, a kept cut or a chunk.
TokensStayInside ==
  request # NONE /\ result.state = "done" =>
    \A j \in 1..(Len(result.offsets) - 1) :
      HardEnds(vocabulary, request.docs[j], request.morphology) \subseteq EndsOf(TokensOf(j))

\* What a batch returns turns back into the bytes of its documents, each
\* between its two offsets, line breaks included.
DecodesBack ==
  request # NONE /\ result.state = "done" =>
    \A j \in 1..(Len(result.offsets) - 1) :
      \A tokens \in {TokensOf(j)} :
        DecodeIds(vocabulary, [k \in DOMAIN tokens |-> tokens[k].id] \o <<>>)
          = request.docs[j].raw \o (IF request.newlines[j] THEN <<<<"\n", 1>>>> ELSE <<>>)

\* However many shards there are, a batch is the ids of all its documents in
\* their order.  Shards a caller mixed up before merging (swapped, given twice,
\* left out) are refused or merged into the documents they hold, in order and
\* from the first one on: only whole shards at the end may be missing, which
\* merge_surface_shards does not notice (MissingRangesRejected).
BatchIsDocuments ==
  request # NONE /\ result # NoResult =>
    /\ (\E s \in DOMAIN work : work[s].stopped) <=> (\E d \in ToSet(request.docs) : ~Covers(d))
    /\ (\E s \in DOMAIN work : work[s].stopped) => result = Failed
    /\ shards # <<>> => result.state = "done" /\ Len(result.offsets) = Len(request.docs) + 1
    /\ result.state = "done" =>
         /\ \E range \in ToSet(ShardRanges(request.docs)) : Len(result.offsets) = range.end
         /\ \A j \in 1..(Len(result.offsets) - 1) : TokensOf(j) = Encoded(request, j)

\* The documentation of merge_surface_shards: shards that miss documents of the
\* batch are rejected (sharded_surface.rs:324).
MissingRangesRejected ==
  request # NONE /\ result.state = "done" => Len(result.offsets) = Len(request.docs) + 1

\* A vocabulary is looked at before it is used.
Fresh == vocabulary # NONE /\ file = NONE /\ request = NONE /\ result = NoResult

\* The flat path gives the rich path's ids for units that were chunked before,
\* and for whole ones too, except that no space leads a word it has to chunk.
FlatMatchesRich ==
  Fresh =>
    \A d \in Texts, morphology \in BOOLEAN, newline \in BOOLEAN :
      LET chunked == [d EXCEPT !.units = SplitLongFlat(d.raw, d.units)]
          rich == EncodeRich(vocabulary, chunked, newline, morphology)
          apart == \E i \in 2..Len(d.units) : /\ Slice(d.raw, d.units[i - 1]) = <<<<" ", 1>>>>
                                              /\ IsFallback(d.units[i]) /\ Len(ChunkSpan(d.raw, d.units[i])) > 1
      IN /\ EncodeFlat(vocabulary, chunked, newline, morphology) = rich
         /\ ~apart => EncodeFlat(vocabulary, d, newline, morphology) = rich

\* Greedy tokens are the longest entries there are; merging stops only when no
\* two neighbours of a segment form an entry.
TokensAreMaximal ==
  Fresh =>
    \A d \in Texts, policy \in {"units", "root", "cuts"} :
      \A span \in ToSet(FlatSegments(d.raw, d.units, policy)) :
        LET segment == Slice(d.raw, span)
            tokens == EncodeSegment(vocabulary, segment)
            start(k) == 1 + FoldLeft(LAMBDA n, t : n + t.length, 0, SubSeq(tokens, 1, k - 1))
            entry(i, j) == SubSeq(segment, i, j) \in ToSet(vocabulary.entries)
        IN IF vocabulary.kind = "GreedyLongest"
           THEN \A k \in DOMAIN tokens : \A j \in start(k + 1)..Len(segment) : ~entry(start(k), j)
           ELSE \A k \in 1..(Len(tokens) - 1) : ~entry(start(k), start(k + 2) - 1)

\* A file that was changed in its header or its entries is refused, or still
\* gives every id its bytes; one that was not gives the vocabulary.
FileKeepsEntries ==
  loaded.done =>
    /\ loaded.vocabulary # NONE => loaded.vocabulary.entries = vocabulary.entries
    /\ file = VocabularyFile(vocabulary) => loaded.vocabulary = vocabulary

\* Tokens are faithful to their documents: none reaches over a hard edge, they
\* spell the bytes again, and none could have been longer.
TokensFaithful == TypeOK /\ TokensStayInside /\ DecodesBack /\ TokensAreMaximal

\* A vocabulary outlasts its training and its file: the order of the documents
\* does not matter, and a damaged file is refused rather than read otherwise.
VocabularyLasts == TrainingOrderFree /\ FileKeepsEntries
=============================================================================
