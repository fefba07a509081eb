-------------------------- MODULE SurfaceVocabulary --------------------------
(***************************************************************************)
(* The surface vocabulary (surface_vocab.rs): learned byte strings, called *)
(* entries, over one id per byte.  How entries are counted and ranked, how *)
(* a document is cut into segments no token may leave, how a segment       *)
(* becomes tokens, how ids turn back into bytes, and the file.             *)
(*                                                                         *)
(* A token is [id, length]; a vocabulary is [kind, entries].  NONE is an   *)
(* error.                                                                  *)
(***************************************************************************)
EXTENDS Splitting

CONSTANTS MaxPiece,   \* MAX_LEARNED_PIECE_BYTES
          IdLimit     \* ids a u16 holds

Alphabet == Spell(ScalarOrder)
ByteValue == [b \in ToSet(Alphabet) |-> SelectInSeq(Alphabet, LAMBDA c : c = b) - 1]

Bos == 1
Eos == 2
ByteBase == 3
EntryBase == ByteBase + Len(Alphabet)

Slice(raw, span) == SubSeq(raw, span.start, span.end - 1)
Spans(edges) == [k \in 1..(Len(edges) - 1) |-> [start |-> edges[k], end |-> edges[k + 1]]]

----------------------------------------------------------------------------
(* Segments.                                                               *)

\* Morphology cuts that bound tokens: all, the one behind the root, or none.
Policy(kind, morphology) ==
  CASE ~morphology \/ kind = "LexicalByteBpe" -> "units"
    [] morphology /\ kind = "RootSuffixByteBpe" -> "root"
    [] OTHER -> "cuts"

HardEdges(unit, policy) ==
  <<unit.start>>
    \o (CASE policy = "units" -> <<>>
          [] policy = "root" -> IF unit.cuts = <<>> THEN <<>> ELSE <<Head(unit.cuts)>>
          [] policy = "cuts" -> unit.cuts)
    \o <<unit.end>>

\* Fault: white space of any length leads the word.
BridgesAny(raw, unit, following) == unit.kind = "Whitespace" /\ following.kind \in {"Word", "Number"}

\* prefix_bridge_range: a single space leads the word or number behind it.
Bridges(raw, unit, following) ==
  /\ unit.kind = "Whitespace"
  /\ following.kind \in {"Word", "Number"}
  /\ Slice(raw, unit) = Spell(<<" ">>)

\* surface_bpe_segments_from_units.
Segments(raw, units, policy) ==
  LET from[i \in 1..(Len(units) + 2)] ==
        CASE i > Len(units) -> <<>>
          [] i < Len(units) /\ Bridges(raw, units[i], units[i + 1]) ->
               Spans(<<units[i].start>> \o Tail(HardEdges(units[i + 1], policy))) \o from[i + 2]
          [] OTHER -> Spans(HardEdges(units[i], policy)) \o from[i + 1]
  IN from[1]

\* Fault: a unit of the kind that may be chunked counts as one that is.
RequiresSplitByKind(raw, unit) == IsFallback(unit)

\* flat_unit_requires_split.
RequiresSplit(raw, unit) ==
  /\ IsFallback(unit)
  /\ IF unit.mode = "Opaque" THEN unit.end - unit.start > MaxFallback ELSE Len(Text(raw, unit)) > MaxFallback

\* encode_flat_range_into: units that are too long are still whole; they are
\* chunked here, and no space leads them.
FlatSegments(raw, units, policy) ==
  LET from[i \in 1..(Len(units) + 2)] ==
        CASE i > Len(units) -> <<>>
          [] i < Len(units) /\ ~RequiresSplit(raw, units[i + 1]) /\ Bridges(raw, units[i], units[i + 1]) ->
               Spans(<<units[i].start>> \o Tail(HardEdges(units[i + 1], policy))) \o from[i + 2]
          [] OTHER -> (IF RequiresSplit(raw, units[i]) THEN ChunkSpan(raw, units[i])
                       ELSE Spans(HardEdges(units[i], policy))) \o from[i + 1]
  IN from[1]

----------------------------------------------------------------------------
(* Making a vocabulary.                                                    *)

LexLess(left, right) ==
  \/ IsStrictPrefix(left, right)
  \/ \E i \in DOMAIN left \cap DOMAIN right :
       /\ SubSeq(left, 1, i - 1) = SubSeq(right, 1, i - 1)
       /\ ByteValue[left[i]] < ByteValue[right[i]]

\* What one unit is counted for: itself, its scalars beyond ASCII, its
\* morphemes, and with the space before it.
UnitPieces(raw, units, i, morphology) ==
  LET unit == units[i]
      Weighted(spans, weight) == [k \in DOMAIN spans |-> [piece |-> Slice(raw, spans[k]), weight |-> weight]]
      chars == IF unit.mode = "Opaque" THEN <<>> ELSE SelectSeq(Text(raw, unit), LAMBDA c : Width(c) > 1)
      wide == [k \in DOMAIN chars |-> [piece |-> ScalarBytes(chars[k]), weight |-> 1]]
      morphemes == IF morphology THEN Weighted(Spans(HardEdges(unit, "cuts")), 4) ELSE <<>>
      led == IF i < Len(units) /\ Bridges(raw, unit, units[i + 1])
             THEN Weighted(<<[start |-> unit.start,
                              end |-> HardEdges(units[i + 1], IF morphology THEN "root" ELSE "units")[2]]>>,
                           IF morphology THEN 4 ELSE 1)
             ELSE <<>>
  IN Weighted(<<unit>>, 1) \o wide \o morphemes \o led

\* observe_candidate.
Count(counts, seen) ==
  LET old == IF seen.piece \in DOMAIN counts THEN counts[seen.piece] ELSE 0
  IN IF seen.piece = <<>> \/ Len(seen.piece) > MaxPiece THEN counts
     ELSE (seen.piece :> old + seen.weight) @@ counts

\* Most frequent first, then in the order of their bytes.
Ranked(counts) ==
  SortSeq(FoldSet(LAMBDA piece, s : Append(s, piece), <<>>, DOMAIN counts), LAMBDA left, right :
    counts[left] > counts[right] \/ (counts[left] = counts[right] /\ LexLess(left, right)))

Prune(counts, cap) ==
  LET kept == ToSet(SubSeq(Ranked(counts), 1, IF Cardinality(DOMAIN counts) < cap THEN Cardinality(DOMAIN counts) ELSE cap))
  IN [piece \in kept |-> counts[piece]]

CountAll(counts, d, morphology) ==
  FoldLeft(Count, counts, FlattenSeq([i \in DOMAIN d.units |-> UnitPieces(d.raw, d.units, i, morphology)]))

\* observe_with_policy: pruned when there are more than twice the cap.
Observe(counts, d, morphology, cap) ==
  LET all == CountAll(counts, d, morphology)
  IN IF Cardinality(DOMAIN all) > 2 * cap THEN Prune(all, cap) ELSE all

\* validate_bpe_merge_order: an entry joins two bytes or earlier entries.
MergeOrder(entries) ==
  \A k \in DOMAIN entries :
    LET known == {SubSeq(entries, j, j)[1] : j \in 1..(k - 1)}
        available(part) == Len(part) = 1 \/ part \in known
        e == entries[k]
    IN /\ Len(e) >= 2
       /\ \E split \in 1..(Len(e) - 1) : available(SubSeq(e, 1, split)) /\ available(SubSeq(e, split + 1, Len(e)))

\* from_entries and the checks of each kind.
FromEntries(entries, kind) ==
  IF /\ EntryBase + Len(entries) <= IdLimit
     /\ IsInjective(entries)
     /\ \A e \in ToSet(entries) : Len(e) \in 1..MaxPiece
     /\ kind # "GreedyLongest" => MergeOrder(entries)
  THEN [kind |-> kind, entries |-> entries] ELSE NONE

\* SurfaceVocabularyTrainer::finish.
FinishTraining(counts, cap, size) ==
  LET ranked == Ranked(Prune(counts, cap))
      learned == size - EntryBase
  IN IF size <= EntryBase \/ size > IdLimit THEN NONE
     ELSE FromEntries(IF Len(ranked) <= learned THEN ranked ELSE SubSeq(ranked, 1, learned), "GreedyLongest")

----------------------------------------------------------------------------
(* Tokens.                                                                 *)

Rank(v, piece) == SelectInSeq(v.entries, LAMBDA e : e = piece)   \* 0 without an entry
ByteToken(b) == [id |-> ByteBase + ByteValue[b], length |-> 1]
EntryToken(v, piece) == [id |-> EntryBase + Rank(v, piece) - 1, length |-> Len(piece)]

\* Greedy tokens: along the trie as far as it goes, back to the last entry.
TrieNodes(v) == UNION {{SubSeq(e, 1, k) : k \in DOMAIN e} : e \in ToSet(v.entries)}

Matched(v, segment, i) ==
  LET nodes == TrieNodes(v)
      entries == ToSet(v.entries)
      walk[n \in 1..(Len(segment) + 1)] ==   \* the longest match of n or more bytes
        LET read == SubSeq(segment, i, i + n - 1)
        IN IF i + n - 1 > Len(segment) \/ read \notin nodes THEN 0
           ELSE IF walk[n + 1] > 0 THEN walk[n + 1]
           ELSE IF read \in entries THEN n ELSE 0
  IN walk[1]

Greedy(v, segment) ==
  LET from[i \in 1..(Len(segment) + 1)] ==
        LET n == Matched(v, segment, i)
        IN CASE i > Len(segment) -> <<>>
             [] i <= Len(segment) /\ n > 0 -> <<EntryToken(v, SubSeq(segment, i, i + n - 1))>> \o from[i + n]
             [] OTHER -> <<ByteToken(segment[i])>> \o from[i + 1]
  IN from[1]

\* One merge: of the pairs that form an entry the leftmost of lowest rank.
Merge(v, segment, edges) ==
  LET rank(k) == Rank(v, SubSeq(segment, edges[k - 1], edges[k + 1] - 1))
      inner == {k \in 2..(Len(edges) - 1) : rank(k) > 0}
  IN IF inner = {} THEN edges
     ELSE RemoveAt(edges, CHOOSE k \in inner : \A j \in inner : rank(k) < rank(j) \/ (rank(k) = rank(j) /\ k <= j))

Bpe(v, segment) ==
  LET edges == FoldLeft(LAMBDA e, i : Merge(v, segment, e), [i \in 1..(Len(segment) + 1) |-> i],
                        [i \in DOMAIN segment |-> i])
      token(span) == IF span.end = span.start + 1 THEN ByteToken(segment[span.start])
                     ELSE EntryToken(v, Slice(segment, span))
  IN [k \in 1..(Len(edges) - 1) |-> token(Spans(edges)[k])]

EncodeSegment(v, segment) == IF v.kind = "GreedyLongest" THEN Greedy(v, segment) ELSE Bpe(v, segment)

EncodeSpans(v, raw, spans) == FlattenSeq([k \in DOMAIN spans |-> EncodeSegment(v, Slice(raw, spans[k]))])

Marker(id) == [id |-> id, length |-> 0]

\* Begin, end and a line break; NONE unless the lengths add up to the bytes.
Document(raw, tokens, newline) ==
  LET all == <<Marker(Bos)>> \o tokens \o (IF newline THEN <<ByteToken(<<"\n", 1>>)>> ELSE <<>>) \o <<Marker(Eos)>>
  IN IF FoldLeft(LAMBDA n, t : n + t.length, 0, all) = Len(raw) + (IF newline THEN 1 ELSE 0) THEN all ELSE NONE

\* encode_units of a rich document, encode_flat_units of a flat one.
EncodeRich(v, d, newline, morphology) ==
  IF ~Covers(d) THEN NONE
  ELSE Document(d.raw, EncodeSpans(v, d.raw, Segments(d.raw, d.units, Policy(v.kind, morphology))), newline)

EncodeFlat(v, d, newline, morphology) ==
  IF ~Covers(d) THEN NONE
  ELSE Document(d.raw, EncodeSpans(v, d.raw, FlatSegments(d.raw, d.units, Policy(v.kind, morphology))), newline)

\* decode_ids.
BytesOf(v, id) ==
  CASE id < ByteBase -> <<>>
    [] id \in ByteBase..(EntryBase - 1) -> <<Alphabet[id - ByteBase + 1]>>
    [] OTHER -> v.entries[id - EntryBase + 1]

DecodeIds(v, ids) ==
  IF \E i \in DOMAIN ids : ids[i] >= EntryBase + Len(v.entries) THEN NONE
  ELSE FlattenSeq([i \in DOMAIN ids |-> BytesOf(v, ids[i])])

----------------------------------------------------------------------------
(* The file: [magic, count, sum, payload], the payload a sequence of cells *)
(* <<"length", n>> and bytes.  The sum is of the payload; equal sums mean  *)
(* equal payloads.                                                         *)

VocabularyFile(v) ==
  LET payload == FlattenSeq([k \in DOMAIN v.entries |-> <<<<"length", Len(v.entries[k])>>>> \o v.entries[k]])
  IN [magic |-> v.kind, count |-> Len(v.entries), sum |-> payload, payload |-> payload]

\* The entry at cell i, and the cell behind it; NONE if the payload ends.
ReadEntry(payload, at) ==
  LET end == at + payload[at][2]
  IN IF at > Len(payload) \/ payload[at][1] # "length" \/ end > Len(payload) THEN NONE
     ELSE [entry |-> SubSeq(payload, at + 1, end), next |-> end + 1]

ReadEntries(f) ==
  LET step(s, i) ==
        LET got == IF s = NONE THEN NONE ELSE ReadEntry(f.payload, s.next)
        IN IF got = NONE THEN NONE ELSE [entries |-> Append(s.entries, got.entry), next |-> got.next]
  IN FoldLeft(step, [entries |-> <<>>, next |-> 1], [i \in 1..f.count |-> i])

\* Fault: what is left of the payload is ignored.
ReadLeniently(f) ==
  LET read == ReadEntries(f)
  IN IF f.sum # f.payload \/ read = NONE THEN NONE ELSE FromEntries(read.entries, f.magic)

\* from_bytes.
ReadVocabulary(f) ==
  LET read == ReadEntries(f)
  IN IF f.sum # f.payload \/ read = NONE THEN NONE
     ELSE IF read.next # Len(f.payload) + 1 THEN NONE
     ELSE FromEntries(read.entries, f.magic)
=============================================================================
