---------------------------- MODULE SurfaceBatch ----------------------------
(***************************************************************************)
(* Batch encoding to surface-piece ids with persistent caches: the batch   *)
(* driver of nedo-tokenizer/src/lib.rs (encode_flat_surface_batch_with_    *)
(* caches and what it calls) and the program caches of flat_surface.rs.    *)
(* The batch is cut into chunks of documents; worker threads claim chunks  *)
(* from a shared counter, each encoding with the cache it owns, which      *)
(* stays from batch to batch; the chunks are put in order at the end.      *)
(*                                                                         *)
(* A cache retains programs: the ids of code chunks and of whole           *)
(* documents.  They are valid for one vocabulary, which a cache knows by   *)
(* its address only.  The programs of CachedTurkishStream are left out:    *)
(* only code programs are ever inserted, so outside code mode the table is *)
(* empty and those fast paths return at once.                              *)
(***************************************************************************)
EXTENDS SurfaceIds

CONSTANTS
  Threads,          \* workers of the runtime
  Vocab,
  AddressOf,        \* where the caller keeps each vocabulary
  Option,           \* tokenizer mode and use_morphology of a runtime
  Batches,          \* batches callers pass
  ChunksPerWorker,  \* BATCH_CHUNKS_PER_WORKER
  MinChunk,         \* MIN_BATCH_CHUNK_BYTES, in atoms
  ProgramCapacity,  \* SEGMENT_PROGRAM_CACHE_ENTRIES
  DocumentCapacity, \* document_cache_entries
  NoContext, Idle, Error,
  MaxCalls          \* bound: batches one runtime encodes

Worker == 1..Threads

Batch == [docs : Seq(Seq(Atom)), newlines : Seq(BOOLEAN), vocab : Vocab]

ASSUME SurfaceBatchAssumption ==
  /\ Threads \in Nat \ {0}
  /\ {ChunksPerWorker, MinChunk} \subseteq Nat \ {0}
  /\ {ProgramCapacity, DocumentCapacity, MaxCalls} \subseteq Nat
  /\ Option \subseteq [mode : {"code", "turkish"}, morphology : BOOLEAN]
  /\ Batches \subseteq Batch
  /\ NoContext \notin {AddressOf[v] : v \in Vocab}
  /\ Idle \notin Batch

VARIABLES
  options, \* of the runtime
  batch,   \* the batch being encoded, or Idle
  result,  \* ids of the last batch that returned, or Error
  next,    \* the shared counter: the chunk to claim next
  caches,  \* worker |-> its FlatAnalysisCache
  work,    \* worker |-> where it stands
  calls

vars == <<options, batch, result, next, caches, work, calls>>

NoCache == [context |-> NoContext, programs |-> <<>>, documents |-> <<>>]
Off == [pc |-> "off", chunk |-> 0, document |-> 0, at |-> 0,
        groups |-> <<>>, output |-> <<>>, completed |-> <<>>]

---------------------------------------------------------------------------
\* Cutting the batch into chunks (build_batch_ranges).

CeilDiv(a, b) == (a + b - 1) \div b

Target(docs) ==
  LET total == FoldLeft(LAMBDA sum, doc : sum + Len(doc), 0, docs)
  IN Max({CeilDiv(total, Threads * ChunksPerWorker), MinChunk})

\* The chunks cut so far, where the open one starts and what it holds.
Cut(docs) ==
  LET target == Target(docs)
      cut[i \in 0..Len(docs)] ==
        IF i = 0 THEN [ranges |-> <<>>, start |-> 1, bytes |-> 0]
        ELSE LET last == cut[i - 1]
                 bytes == last.bytes + Len(docs[i])
             IN IF bytes >= target /\ i < Len(docs)
                THEN [ranges |-> Append(last.ranges, <<last.start, i>>), start |-> i + 1, bytes |-> 0]
                ELSE [last EXCEPT !.bytes = bytes]
  IN cut

Ranges(docs) ==
  LET cut == Cut(docs)[Len(docs)]
  IN Append(cut.ranges, <<cut.start, Len(docs)>>)

WorkerCount(docs) == Min({Threads, Len(Ranges(docs))})

\* A single worker takes the whole batch as one chunk.
Chunks(docs) == IF WorkerCount(docs) = 1 THEN << <<1, Len(docs)>> >> ELSE Ranges(docs)

BatchChunks == [b \in Batches |-> IF b.docs = <<>> THEN <<>> ELSE Chunks(b.docs)]

---------------------------------------------------------------------------
\* Partial functions with one more entry, while there is room for it.
Retain(table, capacity, key, value) ==
  IF Cardinality(DOMAIN table) >= capacity \/ key \in DOMAIN table THEN table
  ELSE [k \in DOMAIN table \cup {key} |-> IF k = key THEN value ELSE table[k]]

\* Fault: only the code programs are dropped.
PreparedPartly(cache, v) ==
  IF cache.context = AddressOf[v] THEN cache
  ELSE [cache EXCEPT !.context = AddressOf[v], !.programs = <<>>]

\* Programs of another vocabulary are dropped before a document is looked up.
Prepared(cache, v) ==
  IF cache.context = AddressOf[v] THEN cache
  ELSE [context |-> AddressOf[v], programs |-> <<>>, documents |-> <<>>]

\* The document a worker is at, its newline flag: the key of its program.
Key(w) == <<batch.docs[work[w].document], batch.newlines[work[w].document]>>

Doc(w) == batch.docs[work[w].document]

---------------------------------------------------------------------------
Init ==
  /\ options \in Option
  /\ batch = Idle
  /\ result = <<>>
  /\ next = 1
  /\ caches = [w \in Worker |-> NoCache]
  /\ work = [w \in Worker |-> Off]
  /\ calls = 0

\* encode_surface_batch_with_runtime, up to the start of the workers.
Begin(b) ==
  /\ batch = Idle
  /\ calls < MaxCalls
  /\ b.docs # <<>>
  /\ Len(b.docs) = Len(b.newlines)
  /\ batch' = b
  /\ result' = <<>>
  /\ next' = 1
  /\ work' = [w \in Worker |->
       IF w <= WorkerCount(b.docs) THEN [Off EXCEPT !.pc = "claim"] ELSE Off]
  /\ calls' = calls + 1
  /\ UNCHANGED <<options, caches>>

RefuseLengths(b) ==
  /\ batch = Idle
  /\ calls < MaxCalls
  /\ Len(b.docs) # Len(b.newlines)
  /\ result' = Error
  /\ calls' = calls + 1
  /\ UNCHANGED <<options, batch, next, caches, work>>

EncodeNothing(b) ==
  /\ batch = Idle
  /\ calls < MaxCalls
  /\ b.docs = <<>>
  /\ b.newlines = <<>>
  /\ result' = <<>>
  /\ calls' = calls + 1
  /\ UNCHANGED <<options, batch, next, caches, work>>

\* SurfaceRuntimeCache::clear
Clear ==
  /\ batch = Idle
  /\ caches' = [w \in Worker |-> NoCache]
  /\ UNCHANGED <<options, batch, result, next, work, calls>>

\* Fault: the counter is read and written in two steps, so the same chunk is
\* claimed twice.
ClaimTwice(w) ==
  /\ work[w].pc = "claim"
  /\ next <= Len(BatchChunks[batch])
  /\ work' = [work EXCEPT ![w].pc = "document", ![w].chunk = next, ![w].output = <<>>,
                          ![w].document = BatchChunks[batch][next][1]]
  /\ next' \in {next, next + 1}
  /\ UNCHANGED <<options, batch, result, caches, calls>>

\* fetch_add on the shared counter.
Claim(w) ==
  /\ work[w].pc = "claim"
  /\ next <= Len(BatchChunks[batch])
  /\ work' = [work EXCEPT ![w].pc = "document", ![w].chunk = next, ![w].output = <<>>,
                          ![w].document = BatchChunks[batch][next][1]]
  /\ next' = next + 1
  /\ UNCHANGED <<options, batch, result, caches, calls>>

NoChunkLeft(w) ==
  /\ work[w].pc = "claim"
  /\ next > Len(BatchChunks[batch])
  /\ work' = [work EXCEPT ![w].pc = "ended"]
  /\ next' = next + 1
  /\ UNCHANGED <<options, batch, result, caches, calls>>

LastDocument(w) == BatchChunks[batch][work[w].chunk][2]

ChunkDone(w) ==
  /\ work[w].pc = "document"
  /\ work[w].document > LastDocument(w)
  /\ work' = [work EXCEPT ![w].pc = "claim",
       ![w].completed = Append(@, [chunk |-> work[w].chunk, output |-> work[w].output])]
  /\ UNCHANGED <<options, batch, result, next, caches, calls>>

\* The worker's output with the document's ids, and the worker at the next one.
Delivered(w, ids) ==
  work' = [work EXCEPT ![w].pc = "document", ![w].document = @ + 1, ![w].at = 0,
                       ![w].groups = <<>>, ![w].output = Append(@, ids)]

\* append_flat_surface_document with a program of the whole document.
DocumentHit(w) ==
  /\ work[w].pc = "document"
  /\ work[w].document <= LastDocument(w)
  /\ LET cache == Prepared(caches[w], batch.vocab)
     IN /\ Key(w) \in DOMAIN cache.documents
        /\ caches' = [caches EXCEPT ![w] = cache]
        /\ Delivered(w, cache.documents[Key(w)])
  /\ UNCHANGED <<options, batch, result, next, calls>>

DocumentMiss(w) ==
  /\ work[w].pc = "document"
  /\ work[w].document <= LastDocument(w)
  /\ LET cache == Prepared(caches[w], batch.vocab)
     IN /\ Key(w) \notin DOMAIN cache.documents
        /\ caches' = [caches EXCEPT ![w] = cache]
  /\ work' = [work EXCEPT ![w].pc = IF options.mode = "code" THEN "lines" ELSE "encode"]
  /\ UNCHANGED <<options, batch, result, next, calls>>

\* Ids of the current document are complete: its program is retained.
Finish(w, groups) ==
  LET ids == [groups |-> groups, newline |-> batch.newlines[work[w].document]]
  IN /\ Delivered(w, ids)
     /\ caches' = [caches EXCEPT ![w].documents = Retain(@, DocumentCapacity, Key(w), ids)]

\* try_append_cached_code_lines: whole lines looked up among the code chunks.
Line(w, e) == Part(Doc(w), Before(LineEnds(Doc(w)), e), e)

LinesCached(w) ==
  /\ caches[w].programs # <<>>
  /\ \A e \in LineEnds(Doc(w)) : Line(w, e) \in DOMAIN caches[w].programs

LinesHit(w) ==
  /\ work[w].pc = "lines"
  /\ LinesCached(w)
  /\ Finish(w, [e \in LineEnds(Doc(w)) |-> caches[w].programs[Line(w, e)]])
  /\ UNCHANGED <<options, batch, result, next, calls>>

\* Otherwise what was appended is truncated and the units are streamed.
LinesMiss(w) ==
  /\ work[w].pc = "lines"
  /\ ~LinesCached(w)
  /\ work' = [work EXCEPT ![w].pc = "encode"]
  /\ UNCHANGED <<options, batch, result, next, caches, calls>>

DocumentEnds ==
  [o \in Option |-> [doc \in UNION {Range(b.docs) : b \in Batches} |-> Ends(o.mode, doc)]]

NextEnd(w) == Min({e \in DocumentEnds[options][Doc(w)] : e > work[w].at})
NextAtoms(w) == Part(Doc(w), work[w].at, NextEnd(w))
NextUnits(w) == UnitsBetween(options.mode, Doc(w), work[w].at, NextEnd(w))

Appended(w, ids) ==
  work' = [work EXCEPT ![w].at = NextEnd(w),
    ![w].groups = [e \in DOMAIN @ \cup {NextEnd(w)} |-> IF e = NextEnd(w) THEN ids ELSE @[e]]]

\* CachedCodeStream::flush, with a program for the chunk.
ChunkHit(w) ==
  /\ work[w].pc = "encode"
  /\ work[w].at < Len(Doc(w))
  /\ options.mode = "code"
  /\ NextAtoms(w) \in DOMAIN caches[w].programs
  /\ Appended(w, caches[w].programs[NextAtoms(w)])
  /\ UNCHANGED <<options, batch, result, next, caches, calls>>

\* CachedCodeStream::flush without one, or encode_flat_units.
EncodeUnits(w) ==
  /\ work[w].pc = "encode"
  /\ work[w].at < Len(Doc(w))
  /\ options.mode = "code" => NextAtoms(w) \notin DOMAIN caches[w].programs
  /\ ~Rejected(NextAtoms(w))
  /\ \E units \in {NextUnits(w)} :
       LET ids == EncodeRange(options, batch.vocab, units)
       IN /\ Appended(w, ids)
          /\ caches' = IF options.mode = "code"
               THEN [caches EXCEPT ![w].programs = Retain(@, ProgramCapacity, NextAtoms(w), ids)]
               ELSE caches
  /\ UNCHANGED <<options, batch, result, next, calls>>

\* Fault: the worker tries the same document again.
EncodeFailsRetried(w) ==
  /\ work[w].pc = "encode"
  /\ work[w].at < Len(Doc(w))
  /\ Rejected(NextAtoms(w))
  /\ UNCHANGED vars

\* An error ends the worker; its chunks are lost, its cache stays.
EncodeFails(w) ==
  /\ work[w].pc = "encode"
  /\ work[w].at < Len(Doc(w))
  /\ Rejected(NextAtoms(w))
  /\ work' = [work EXCEPT ![w] = [Off EXCEPT !.pc = "failed"]]
  /\ UNCHANGED <<options, batch, result, next, caches, calls>>

FinishDocument(w) ==
  /\ work[w].pc = "encode"
  /\ work[w].at = Len(Doc(w))
  /\ Finish(w, work[w].groups)
  /\ UNCHANGED <<options, batch, result, next, calls>>

\* Fault: chunks are put together in the order of the workers.
ConcatenatedAsJoined ==
  LET completed == FlattenSeq([w \in Worker |-> work[w].completed])
  IN FlattenSeq([i \in DOMAIN completed |-> completed[i].output])

\* concatenate_surface_chunks.  No two chunks have one number, so the completed
\* ones may be taken for a set; sorted, each stands behind those before it.
Concatenated ==
  LET completed == UNION {Range(work[w].completed) : w \in Worker}
      NotBehind(c) == {d \in completed : d.chunk <= c.chunk}
      sorted == [i \in 1..Cardinality(completed) |->
                  CHOOSE c \in completed : Cardinality(NotBehind(c)) = i]
  IN FlattenSeq([i \in DOMAIN sorted |-> sorted[i].output])

\* The scope ends when every worker has; the error of one is the batch's.
Join ==
  /\ batch # Idle
  /\ \A w \in Worker : work[w].pc \in {"off", "ended", "failed"}
  /\ result' = IF \E w \in Worker : work[w].pc = "failed" THEN Error ELSE Concatenated
  /\ batch' = Idle
  /\ work' = [w \in Worker |-> Off]
  /\ UNCHANGED <<options, next, caches, calls>>

Step(w) ==
  \/ Claim(w)
  \/ NoChunkLeft(w)
  \/ ChunkDone(w)
  \/ DocumentHit(w)
  \/ DocumentMiss(w)
  \/ LinesHit(w)
  \/ LinesMiss(w)
  \/ ChunkHit(w)
  \/ EncodeUnits(w)
  \/ EncodeFails(w)
  \/ FinishDocument(w)

Next ==
  \/ \E b \in Batches : Begin(b) \/ RefuseLengths(b) \/ EncodeNothing(b)
  \/ Clear
  \/ \E w \in Worker : Step(w)
  \/ Join

Spec == Init /\ [][Next]_vars

\* Threads of the scope run until their closure returns.
FairSpec == Spec /\ (\A w \in Worker : WF_vars(Step(w))) /\ WF_vars(Join)

---------------------------------------------------------------------------
\* Type correctness and the bounds of the caches.
TypeOK ==
  /\ options \in Option
  /\ batch \in Batches \cup {Idle}
  /\ next \in Nat \ {0}
  /\ calls \in 0..MaxCalls
  /\ \A w \in Worker :
       /\ caches[w].context \in {AddressOf[v] : v \in Vocab} \cup {NoContext}
       /\ Cardinality(DOMAIN caches[w].programs) <= ProgramCapacity
       /\ Cardinality(DOMAIN caches[w].documents) <= DocumentCapacity
       /\ work[w].pc \in {"off", "claim", "document", "lines", "encode", "ended", "failed"}
       /\ batch = Idle => work[w] = Off

\* Vocabularies kept at one place: a cache cannot tell them apart.
At(place) == {v \in Vocab : AddressOf[v] = place}

\* Whatever a cache holds, encoding anew with a vocabulary at the cache's
\* address returns it too: for code chunks (whether looked up as chunks or as
\* raw lines) and for whole documents with their newline flag.
ProgramsCurrent ==
  \A w \in Worker : LET vocabs == At(caches[w].context) IN
    /\ \A atoms \in DOMAIN caches[w].programs :
         IsReading(options, vocabs, atoms, caches[w].programs[atoms])
    /\ \A key \in DOMAIN caches[w].documents :
         IsAnswer(options, vocabs, key[1], key[2], caches[w].documents[key])

\* Every chunk of the batch claimed so far is in the hands of one worker or
\* completed by one, unless that worker failed.
ChunksAt(w) ==
  LET done == {work[w].completed[i].chunk : i \in DOMAIN work[w].completed}
  IN IF work[w].pc \in {"document", "lines", "encode"} THEN done \cup {work[w].chunk} ELSE done

EveryChunkOnce ==
  batch # Idle =>
    /\ \A u, w \in Worker : u # w => ChunksAt(u) \cap ChunksAt(w) = {}
    /\ (\A w \in Worker : work[w].pc # "failed") =>
         UNION {ChunksAt(w) : w \in Worker} = 1..Min({next - 1, Len(BatchChunks[batch])})

\* Batches return what the stateless encoder promises.
Stateless == INSTANCE StatelessEncoding
ImplementsStateless == Stateless!Spec

\* Every batch returns, whichever workers fail.
CallsReturn == (batch # Idle) ~> (batch = Idle)

\* Each chunk of a batch is claimed by one worker and encoded once, whichever
\* worker is first at the shared counter.
ChunksSound == TypeOK /\ EveryChunkOnce
=============================================================================
