--------------------------- MODULE ShardedSurface ---------------------------
(***************************************************************************)
(* The life of a surface vocabulary: counted from documents and finished,  *)
(* or built from ranked merges; written and read back; used by a sharded   *)
(* encoder (sharded_surface.rs), which gives each of its single-thread     *)
(* encoders one contiguous range of the documents and merges what they     *)
(* return.  A shard's encoder has caches of its own, which do not change   *)
(* what it returns (module SurfaceBatch).                                  *)
(*                                                                         *)
(* Documents are given with their units.  In code mode the flat path gets  *)
(* them whole; otherwise they were chunked before.                         *)
(***************************************************************************)
EXTENDS SurfaceVocabulary

CONSTANTS
  Corpus,       \* documents the trainer may see
  Merges,       \* ranked entries for the BPE kinds
  Requests,     \* batches: [docs, newlines, code, morphology]
  Shards,       \* encoders in the pool
  Candidates,   \* max_candidates
  Sizes,        \* vocabulary sizes asked for
  MaxObserved   \* bound: documents one trainer observes

ASSUME ShardsArePositive == Shards \in Nat \ {0}

VARIABLES
  counts,      \* SurfaceVocabularyTrainer::counts
  observed,    \* the documents and policies the trainer has seen, in order
  vocabulary,  \* the vocabulary in use, or NONE
  file,        \* its file, or NONE
  loaded,      \* whether the file was read, and what it gave
  request,     \* the batch being encoded, or NONE
  work,        \* shard |-> the documents it has encoded, and whether it stopped
  shards,      \* what encode_shards returned
  result       \* the merged batch: [state, tokens, offsets]

vars == <<counts, observed, vocabulary, file, loaded, request, work, shards, result>>
training == <<counts, observed>>
encoding == <<request, work, shards, result>>

Kind == {"GreedyLongest", "ByteBpe", "LexicalByteBpe", "RootSuffixByteBpe"}
NoResult == [state |-> "none", tokens |-> <<>>, offsets |-> <<>>]
Unread == [done |-> FALSE, vocabulary |-> NONE]
Failed == [state |-> "failed", tokens |-> <<>>, offsets |-> <<>>]

----------------------------------------------------------------------------
(* Ranges and merging.                                                     *)

CeilDiv(a, b) == (a + b - 1) \div b
Weight(d) == IF d.raw = <<>> THEN 1 ELSE Len(d.raw)
WeightOf(docs) == FoldLeft(LAMBDA n, d : n + Weight(d), 0, docs)

\* Fault: a shard does not leave the others a document each.
ShardRangesGreedy(docs) ==
  LET count == IF Shards < Len(docs) THEN Shards ELSE Len(docs)
      upTo(start, target) ==
        LET enough == {e \in start..Len(docs) : WeightOf(SubSeq(docs, start, e)) >= target}
        IN IF enough = {} THEN Len(docs) ELSE CHOOSE e \in enough : \A f \in enough : e <= f
      from[k \in 0..count, start \in 1..(Len(docs) + 1)] ==
        IF k = count THEN <<>>
        ELSE LET end == IF k = count - 1 THEN Len(docs)
                        ELSE upTo(start, CeilDiv(WeightOf(SubSeq(docs, start, Len(docs))), count - k))
             IN <<[start |-> start, end |-> end + 1]>> \o from[k + 1, end + 1]
  IN from[0, 1]

\* build_shard_ranges: by bytes, every shard at least one document.
ShardRanges(docs) ==
  LET count == IF Shards < Len(docs) THEN Shards ELSE Len(docs)
      upTo(start, target, max) ==
        LET enough == {e \in start..max : WeightOf(SubSeq(docs, start, e)) >= target}
        IN IF enough = {} THEN max ELSE CHOOSE e \in enough : \A f \in enough : e <= f
      from[k \in 0..count, start \in 1..(Len(docs) + 1)] ==
        IF k = count THEN <<>>
        ELSE LET end == IF k = count - 1 THEN Len(docs)
                        ELSE upTo(start, CeilDiv(WeightOf(SubSeq(docs, start, Len(docs))), count - k),
                                  Len(docs) - (count - k - 1))
             IN <<[start |-> start, end |-> end + 1]>> \o from[k + 1, end + 1]
  IN from[0, 1]

\* concatenate_surface_chunks.
Concatenated(chunks) ==
  LET base(k) == Len(FlattenSeq([j \in 1..(k - 1) |-> FlattenSeq(chunks[j].encoded)]))
  IN [state |-> "done",
      tokens |-> FlattenSeq([k \in DOMAIN chunks |-> FlattenSeq(chunks[k].encoded)]),
      offsets |-> <<0>> \o FlattenSeq([k \in DOMAIN chunks |->
        [j \in DOMAIN chunks[k].encoded |-> base(k) + Len(FlattenSeq(SubSeq(chunks[k].encoded, 1, j)))]])]

\* merge_surface_shards.
MergeShards(given) ==
  LET sorted == SortSeq(given, LAMBDA a, b : a.range.start < b.range.start)
      follows(k) == sorted[k].range.start = IF k = 1 THEN 1 ELSE sorted[k - 1].range.end
      fits(s) == s.range.end > s.range.start /\ Len(s.encoded) = s.range.end - s.range.start
  IN IF /\ \A s \in ToSet(given) : s.index <= Len(given)
        /\ \A j, k \in DOMAIN given : j # k => given[j].index # given[k].index
        /\ \A k \in DOMAIN sorted : follows(k) /\ fits(sorted[k])
     THEN Concatenated(sorted) ELSE Failed

----------------------------------------------------------------------------

Init ==
  /\ counts = <<>> /\ observed = <<>>
  /\ vocabulary = NONE /\ file = NONE /\ loaded = Unread
  /\ request = NONE /\ work = <<>> /\ shards = <<>> /\ result = NoResult

\* observe, observe_without_morphology.
ObserveDocument(d, morphology) ==
  /\ vocabulary = NONE
  /\ Len(observed) < MaxObserved
  /\ counts' = Observe(counts, d, morphology, Candidates)
  /\ observed' = Append(observed, [document |-> d, morphology |-> morphology])
  /\ UNCHANGED <<vocabulary, file, loaded, encoding>>

Finish(size) ==
  /\ vocabulary = NONE
  /\ observed # <<>>
  /\ vocabulary' = FinishTraining(counts, Candidates, size)
  /\ UNCHANGED <<training, file, loaded, encoding>>

\* from_bpe_ranked, from_lexical_bpe_ranked, from_root_suffix_bpe_ranked.
Build(entries, kind) ==
  /\ vocabulary = NONE
  /\ observed = <<>>
  /\ vocabulary' = FromEntries(entries, kind)
  /\ UNCHANGED <<training, file, loaded, encoding>>

Save ==
  /\ vocabulary # NONE /\ file = NONE /\ request = NONE /\ result = NoResult
  /\ file' = VocabularyFile(vocabulary)
  /\ UNCHANGED <<training, vocabulary, loaded, encoding>>

\* The file may have been changed in one place.
Damaged(f) ==
  {[f EXCEPT !.magic = kind] : kind \in Kind}
    \cup {[f EXCEPT !.count = n] : n \in {f.count - 1, f.count + 1} \cap Nat}
    \cup {[f EXCEPT !.payload[i] = cell] : i \in DOMAIN f.payload, cell \in {<<"length", 1>>, <<"a", 1>>}}
    \cup {[f EXCEPT !.payload = SubSeq(@, 1, Len(@) - 1)]}

Load(f) ==
  /\ file # NONE /\ ~loaded.done
  /\ loaded' = [done |-> TRUE, vocabulary |-> ReadVocabulary(f)]
  /\ file' = f
  /\ UNCHANGED <<training, vocabulary, encoding>>

Discard ==
  /\ loaded.done
  /\ file' = NONE /\ loaded' = Unread
  /\ UNCHANGED <<training, vocabulary, encoding>>

\* encode_shards begins; an empty batch has no shards, unequal lengths are refused.
Begin(r) ==
  /\ vocabulary # NONE /\ file = NONE /\ request = NONE /\ result = NoResult
  /\ IF Len(r.docs) # Len(r.newlines) \/ r.docs = <<>>
     THEN /\ result' = IF r.docs = r.newlines THEN [state |-> "done", tokens |-> <<>>, offsets |-> <<0>>] ELSE Failed
          /\ UNCHANGED <<request, work>>
     ELSE /\ request' = r
          /\ work' = [s \in DOMAIN ShardRanges(r.docs) |-> [encoded |-> <<>>, stopped |-> FALSE]]
          /\ UNCHANGED result
  /\ UNCHANGED <<training, vocabulary, file, loaded, shards>>

Encoded(r, i) ==
  LET d == r.docs[i]
      units == IF Covers(d) /\ ~r.code THEN SplitLongFlat(d.raw, d.units) ELSE d.units
  IN EncodeFlat(vocabulary, [d EXCEPT !.units = units], r.newlines[i], r.morphology)

Length(range) == range.end - range.start

\* A shard encodes its next document, or stops at an error.
EncodeDocument(s) ==
  LET range == ShardRanges(request.docs)[s]
      ids == Encoded(request, range.start + Len(work[s].encoded))
  IN /\ ~work[s].stopped /\ Len(work[s].encoded) < Length(range)
     /\ work' = IF ids = NONE THEN [work EXCEPT ![s].stopped = TRUE]
                ELSE [work EXCEPT ![s].encoded = Append(@, ids)]

EncodeNext(s) ==
  /\ request # NONE
  /\ s \in DOMAIN work
  /\ EncodeDocument(s)
  /\ UNCHANGED <<training, vocabulary, file, loaded, request, shards, result>>

Done(s) == work[s].stopped \/ Len(work[s].encoded) = Length(ShardRanges(request.docs)[s])

\* All workers are joined; one error is the error of the batch.
Join ==
  /\ request # NONE /\ result = NoResult
  /\ \A s \in DOMAIN work : Done(s)
  /\ LET returned == [s \in DOMAIN work |-> [index |-> s, range |-> ShardRanges(request.docs)[s], encoded |-> work[s].encoded]]
     IN IF \E s \in DOMAIN work : work[s].stopped
        THEN shards' = <<>> /\ result' = Failed
        ELSE shards' = returned /\ result' = MergeShards(returned)
  /\ UNCHANGED <<training, vocabulary, file, loaded, request, work>>

\* Callers of encode_shards merge for themselves, and may mix the shards up:
\* swap them, give one twice, leave some out.
Arranged ==
  LET n == DOMAIN shards
  IN {[k \in 1..m |-> shards[f[k]]] : m \in n, f \in [n -> n]}

MergeAgain(given) ==
  /\ shards # <<>>
  /\ result' = MergeShards(given)
  /\ shards' = <<>>
  /\ UNCHANGED <<training, vocabulary, file, loaded, request, work>>

\* The caller takes the batch and is ready for the next.
TakeBatch ==
  /\ result # NoResult
  /\ request' = NONE /\ work' = <<>> /\ shards' = <<>> /\ result' = NoResult
  /\ UNCHANGED <<training, vocabulary, file, loaded>>

Next ==
  \/ \E d \in Corpus, morphology \in BOOLEAN : ObserveDocument(d, morphology)
  \/ \E size \in Sizes : Finish(size)
  \/ \E entries \in Merges, kind \in Kind \ {"GreedyLongest"} : Build(entries, kind)
  \/ Save
  \/ \E f \in {file} \cup (IF file = NONE THEN {} ELSE Damaged(file)) : Load(f)
  \/ \E r \in Requests : Begin(r)
  \/ \E s \in 1..Shards : EncodeNext(s)
  \/ Join \/ TakeBatch \/ Discard
  \/ \E given \in Arranged : MergeAgain(given)

Spec == Init /\ [][Next]_vars
=============================================================================
