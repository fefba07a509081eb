# Mercan: specifications, model checking and proofs

This directory holds TLA+ specifications of the Mercan local inference stack
(`src/`), the TLC configurations that check them on small instances and the
theorems about them that TLAPS checks for every value of the constants.
Sources are quoted by path below `src/`; `NT`, `NM` and `NC` abbreviate
`runtime/NedoTokenizer/crates/` followed by `nedo-tokenizer/src/`,
`nedo-morph-bundle/src/` and `nedo-core/src/`.

## 1. The system

Mercan runs language models on one machine. A C++ runtime loads a `.mercan` or
GGUF file, picks a backend and a tokenizer for it and decodes tokens; a Rust
tokenizer (NedoTokenizer) turns Turkish text and code into ids; a C library
written in Rust (the NDSRF004 bridge) puts that tokenizer under a patched
llama.cpp; a command line pulls models, tokenizes prompts and runs the
generation loop.

| Component | State it keeps | Operations | Talks to | What is hard about it | What makes it correct |
|---|---|---|---|---|---|
| Generic backend, decode (`core/generic_backend.cpp`) | per context: `n_past`, `logits`, per layer a K/V cache (`ctx`, buffer, dimensions, rows) | `mercan_generic_decode`, with `g_attention` and `ensure_layer_cache` called back from the architecture | libmercan above, an architecture plugin and ggml below | a call can fail at some ten places, between layers and half way through the creation of a cache; masks and positions at the seam of cached and new rows; sliding windows | decoding in pieces equals decoding at once; a failed call changes nothing a caller can see |
| Generic backend, loader; libmercan (`runtime/libmercan/src/mercan.cpp`, `core/model_loader.cpp`) | models, contexts, borrowed backend and tokenizer | load (probe and pick an engine), free, create and free contexts, tokenize, decode | everything above | resources on error paths; a context that outlives its model | a refused load and an ended program hold nothing; contexts go before their model |
| Plugin loader and registries (`core/plugin_loader.cpp`, `architecture_registry.cpp`, `tokenizer_registry.cpp`, `builtin_plugins.cpp`) | `g_plugins`, `g_architectures`, `g_tokenizers`, a `once_flag`, three mutexes | load a plugin, register a provider, find one by name, list them by index | plugins call back into the registries from `init` | threads; the plugin mutex is held over foreign code that takes other locks; failures after some providers were registered | names stay unique, descriptors stay put, built-ins come before any answer, nobody waits for ever |
| NDSRF004 bridge (`runtime/nedo004-ffi/src/lib.rs`) and its callers (`runtime/nedolm/nedolm-llama.patch`) | one process-wide `OnceLock` for the vocabulary, one output buffer per thread | `nedo004_set_vocab`, `_encode`, `_encode_copy`, `_decode_copy`, `_vocab_size` | llama.cpp's vocabulary loader and tokenizer | who fills the cell first: a model, a query that falls back to the embedded asset, another thread; the result buffer is overwritten by the next encode | every loaded model is served by its own vocabulary; what a caller reads is its own encoding |
| Command line (`cli/main.cpp`) | two files on disk (the model and `<model>.part`); the transcript, the context of the turn, the penalty window | pull, forced pull, reuse, load plugins, converse, sample | curl, the file system, libmercan | kills, failing renames, concurrent launches; prompts that outgrow the context; decodes that fail within an answer | a cached model is complete; each token is sampled from logits about all that was said |
| Scanner (`NC/scanner.rs`) | position in the text, code-hint tracker of ten flags | `scan`, `scan_compact`, `scan_lexical_spans`, `..._with_hints` | the tokenizer pipeline | four scanners must agree; operators inside runs of punctuation; scalars cut off by the end; flags kept over a line break | units partition the text, a unit scanned alone is the same unit, the hints are those of some line |
| Code detection (`NT/code.rs`) | judged lines, selection, spans | `auto_code_spans` | scanner, splitter | three detectors whose spans overlap, nest and touch; a loop that reads the selection it is changing | spans are ordered, apart and contain what is explicit; strong lines are code, prose is not |
| Documents, training streams, vocabularies (`nedo-format/src/lib.rs`, `NT/alignment.rs`, `codec.rs`, `training.rs`, `vocab.rs`) | bytes of four kinds of file | write, read, align, encode, decode | tools, training | lengths and offsets at their limits; marks written between the bytes they belong to; counts outside the checksum | what was written is read back or refused; a stream is its document |
| Tokenizer pipeline (`NT/lib.rs`, `quality.rs`) | caches of analyses and of whole segments | rich and flat tokenizing, splitting, fallback | scanner, code detection, morphology, disambiguation | two ways to one stream; cached outcomes replayed elsewhere; pieces cut to size beside code | the flat way is the rich way; a remembered outcome is a computed one |
| Batches and program caches (`NT/lib.rs`, `flat_surface.rs`) | worker threads, program tables per worker | encode a batch | pipeline, surface vocabulary | work is split over threads; programs outlive batches and vocabularies | the same text gives the same ids however it is batched |
| Surface vocabulary, sharding (`NT/surface_vocab.rs`, `sharded_surface.rs`) | learned pieces, bridges; ranges of documents | train, merge, encode (flat and rich), decode, serialize, shard | pipeline, bridge | bridges over a space, chunks, byte fallback, two encoding paths; shards in any order | ids decode to the text; both paths give the same ids; the result is that of one encoder |
| Morphology (`NM/binary/runtime.rs`, `binary.rs`, `lib.rs`) | compiled graph, conditions as programs, limits of a call | analyse, generate, the rules for tokens outside the lexicon | pipeline | limits reached within a layer; programs for a stack machine; stand-ins that are analysed and written back | every reading and none else; a program means its tree; analyses spell the token |
| Disambiguation (`NM/disambiguation.rs`) | score rows, prepared words, a shared bank, tables of hypotheses | Viterbi (hash and dense) and greedy choice | pipeline, nedoformer | ties, a table that grows in the middle of a layer, signatures forgotten while scores are kept | a best path, the same for all decoders; what is retained is what would be computed |
| Nedoformer features, NedoLM graph, options and chat text, build scripts | none that lasts | | | | not modelled, section 7 |

## 2. Plan and where it stands

The order followed what an error would cost: wrong tokens without any message
first, hanging and lost work next, then what fails loudly.

1. `GenericDecode` under `TokenHistory`: done, proved.
2. `PluginHost` and `Nedo004State` under `OneVocabulary`: done, proved.
3. `HfPull`, `Generate`, `ModelLifeCycle`, composed in `CommandLine`: done,
   safety proved.
4. `SurfaceBatch` under `StatelessEncoding`: done; chunk distribution, cache
   bounds, what the caches hold and the refinement proved.
5. `Scanner` over `Lexical`; `CodeSpans`, which also judges the lines: done,
   proved.
6. `TrainingCorpus` over `TokenDocuments` and `TrainingStreams`;
   `FlatTokenizer` over `Splitting` and `QualityFallback`: done.
7. `ShardedSurface` over `SurfaceVocabulary`: done.
8. `Morphology` over `Conditions` and `RuntimeItems`: done; `Disambiguation`:
   done; what workers retain, causal choices and best choices proved.
9. Worth proving next: that the streams `TrainingCorpus` cuts are those of its
   documents (`StreamsExact`), since `StreamsOf` is built from concatenations
   whose algebra the proofs about `SurfaceBatch` already needed; then the caches
   of `FlatTokenizer`, an invariant of the same kind as `ProgramsCurrent`.

## 3. Modules

Every module is written from the code; PROJECT.json maps each definition to
its lines. Definitions introduced with "Fault" in their comment are not part
of any specification: each is an action or operator altered the way a plausible
bug would alter it, and serves to show that a property notices. The MC modules
give the constants of a run their values, and hold the properties that compare
a computation with a slower definition of its result.

### The C++ runtime and the command line

**TokenHistory** is what a context promises: a history of at most `Capacity`
tokens, a request that is appended whole or not at all, logits that are always
those of the history. **GenericDecode** is the code: one action for each way
the call proceeds or gives up. `stage` stands for the place in
`mercan_generic_decode`: `build` while the architecture's callback runs, with
`layer` counting the calls of `g_attention`, `compute` while the scheduler
runs, `copy` while the K/V rows are read back. Tensors are abstracted to where
their numbers come from: a row is its token, its position and, above the first
layer, the labels of the key rows its attention saw, so that two rows are equal
exactly when the network was fed the same. `Ne1`, `Ne2` and `LooksThreeD` are
the shape tests that take a batch of one token in the 3-D layout for a 2-D one.
`HalfMade` is the cache that `ensure_layer_cache` leaves behind when its buffer
cannot be had after its context pointer was set. Each call chooses its layout,
because the architecture builds its graph anew each time.

**PluginHost** has one process per thread. A load takes `g_plugin_mutex`
(`lock`), searches `g_plugins`, opens the library, checks descriptor and ABI
and runs `init`, which registers provider after provider while other threads
run; failures after the library was opened are recorded under the path as well.
A look-up runs `mercan_ensure_builtin_plugins` first (`ensure`, `builtins`):
the once_flag is `new`, `running` or `done`.

**OneVocabulary** is a write-once vocabulary with the models and ids made for
it. **Nedo004State** is the bridge: `cell` is `STATE` (`OnceLock`),
`initializing` the thread inside `get_or_init`, `OUTPUT_IDS` the thread-local
buffer; `peek`, `make`, `set` are the three stages of `nedo004_set_vocab`,
`check` the comparison the llama.cpp patch makes after it, `state` a call that
waits for the cell, `encoded` a thread that holds a pointer into its buffer.
A build embeds one of the assets in `Embedded`; since the initialisation
succeeds or fails once in a process, the choice is made there.

**HfPull** models files as inodes with the chunks they hold, so that removing,
truncating and renaming a file that another process has open do what POSIX
says. curl and the file system are external: they open, write, retry and exit
as the options passed to curl let them. `Crash` kills a launch and its curl.
**Generate** is a turn of the loop over the context TokenHistory describes;
sampling may pick any token. **ModelLifeCycle** names what a load and a context
acquire (`held`) and gives one action to every stage that may refuse, throw or
fall back to the other engine. **CommandLine** composes the three by INSTANCE:
one launch after another on one disk, `mercan pull` and `mercan run` in their
forms, plugins, the model's file, the model, then turns whose prompt is the
whole transcript.

### The tokenizer, from bytes to units

**Lexical** holds the rules of the scanner as operators on byte strings and the
hint tracker; of the scalars beyond ASCII it knows one for every class the rules
tell apart, and every other run of such bytes is invalid. **Scanner** is the
four loops, one unit per step. **CodeSpans** judges each line of tokens and
then is `auto_code_spans` pass by pass, switched on by the scanner's own hints:
the spelled-out line goes through `Lexical`.

**Splitting** cuts lexical units into tokens beside code, **QualityFallback**
is what happens to tokens without an analysis and to numerals, and
**FlatTokenizer** takes a document the two ways: the rich one makes a document
with analyses whose stream is written by `TrainingStreams`, the flat one keeps
cuts, remembers analyses and outcomes of segments, and does not ask the
disambiguator where it cannot matter. Morphology and disambiguation are
constants of this module (`Lexicon`, `Best`): a finite table of readings and
their preference.

**TokenDocuments** lays an analysis over the bytes of a word, validates
documents and writes and reads two of the file formats; **TrainingStreams** is
vocabularies and streams; **TrainingCorpus** the way of a corpus through a file,
perhaps damaged, into one stream. A cell of a file stands for a field.

### The tokenizer, from units to ids

**SurfaceVocabulary** counts and ranks entries, cuts documents into segments no
token may leave and encodes segments, flat and rich; the trie is a set of
entries. **ShardedSurface** is the life of a vocabulary: trained or built from
ranked merges, written, damaged, read back, and used by shards, each with one
contiguous range of the documents, whose results a caller may mix up.

**SurfaceIds** says what encoding one document means without any cache:
which atoms the scanner puts into one unit, where groups of units end and which
units are encoded together, a single space with the word behind it. Ids are kept
by group and unit instead of being strung together, so two encodings are equal
exactly when the same pieces were encoded with the same vocabulary and the same
cuts. `DocumentIds` is what encoding a document anew gives. **StatelessEncoding**
is the promise to a caller, whatever vocabulary comes with each call: a batch
returns an answer for each of its documents in order, or an error. An answer
(`IsAnswer`) knows vocabularies by where they are kept and code by its text
alone, as the caches do: the ids are those of a vocabulary at the address, group
by group, where a group of code is a chunk or, if each raw line is a chunk by
itself, a line, and digits at its beginning may be read as the rest of an
identifier. Where one vocabulary is at the address and code can be read in one
way only, that is `DocumentIds` exactly (`AnswersAreDocumentIds`). **SurfaceBatch** is the code: a worker's
`pc` is the place in the loop of `encode_flat_surface_batch_with_caches`
(`claim` at the shared counter, `document` at the look-up of a whole document,
`lines` at the look-up of raw lines, `encode` while units are streamed, `ended`,
`failed`), and `caches` outlives the batch. A cache has `context`, the address of
the vocabulary its programs were made with, the `programs` of code chunks and
those of whole `documents`, both bounded. The fast paths of
`CachedTurkishStream` are left out: only programs of code are ever inserted, so
outside code mode that table is empty and they return at once. Programs are
keyed by their atoms, the exact bytes in the code, while what they hold was made
from the units the document was scanned to.

### Morphology and disambiguation

**Conditions** is letters, phonetic attributes and suffix templates, compiles
condition trees to programs, validates programs and runs them on the machine
with its inline stack; **RuntimeItems** finds stems, crosses edges, turns an
accepted path into an analysis and says what becomes of web addresses, Roman and
other numerals, abbreviations and apostrophised names; **Morphology** is one
call, the search advancing by a path per step under the limits of the call.

**Disambiguation** scores three analyses in a row, holds the two caches of a
worker and is the decoders as workers call them, one token per step. Weights are
integers.

## 4. Runs

Every property is a conjunction of named parts, listed at its definition; the
table gives what they say.

| Run | Distinct states | Shows | Bounds and why they are enough |
|---|---|---|---|
| `core` | 369,506 | decoding: `ContextSound`: incremental decoding is decoding at once, rows are copied only into caches that exist; `ContextKept`: rows of accepted tokens stay, a half-made cache stops its context; refinement of TokenHistory. Plugins: `RegistriesAnswer`: unique names, one init per path, providers of a loaded plugin and built-ins are found before an answer; `RegistryAppendOnly`; all calls return | decoding: 2 tokens, context of 4, window of 2, batches up to 3, 2 layers, three layouts: the window slides within a batch, across the seam and past the first row; batches fill the context exactly and overflow it by one; any call can fail at any layer; layouts change between calls. Plugins: two threads, three calls between them, four libraries (good, shadowing a built-in name, no entry, wrong ABI): a load, a second load and a look-up overlap in every way, a load is repeated after each outcome |
| `nedo004` | 290,649 | `AnswersStayTrue`: models are served by their own vocabulary, encodings are the caller's own, ids round trip, reported lengths stay; refinement of OneVocabulary; all calls return | two threads, two calls each, two usable vocabularies and a broken one, one text that is rejected: each order of set, lazy initialisation, size query and fetch |
| `surface_batch` | 75,664 | `ChunksSound`: chunks are worked on once and none is left out; `ProgramsCurrent`: programs are what encoding anew with a vocabulary at the address would return; refinement of StatelessEncoding; batches return | two workers, two batches in a row out of fifteen, three vocabularies, two of them at one address, code and Turkish; chunks of at most 3 units, 4 programs and 2 documents in a cache: every table fills up, a second batch meets programs of the first one, of its own vocabulary, of another and of one that was dropped, with a worker failing in either; blank lines, lines that repeat, and a chunk that ends within an identifier |
| `text` | 268,098 | units: `UnitsWellFormed`: units partition the document, text units are text, operators stand alone; `UnitsScanAlone`: a unit scanned by itself is the same unit, which is what makes caches by bytes valid; `HintsAreOfLines`: a hint is on exactly when some line by itself switches it on. Code: `SpansExact`: spans are in order, apart, contain explicit regions, and blocks are whole lines; `LinesAreClassified`: strong lines are code, prose is not, and beside a block exactly two continuation lines before and all unbroken ones behind | units: every document of up to three atoms, longer ones over the atoms the tracker remembers: each pair of neighbours of each class, each flag set on a line before. Code: up to three of fourteen lines, four of the five that blocks are made of and five of these without a lone brace, six lines half of which are anchors: an anchor with three and more continuations on both sides, prose between, a fence opened and not closed, a document where the dense pass selects |
| `corpus` | 70,784 | `FilesAreFaithful`: what was written is read back, damage is noticed, what is read is canonical; `StreamsExact`: a batch encodes, each stream is its document, with marks and without | one or two documents of two units; one cell overwritten, the end lost or a cell added: every field of every header and record is hit |
| `tokenizer` | 61,328 | `UnitsWellMade`: both ways succeed, groups are runs, pieces fit their limits, code spans are exact; `FlatIsRich`: the flat stream is the rich one; `ProgramsReproduce`: a remembered segment is what the rich way decides for its tokens alone | two documents in a row, caches of two: a segment is remembered, replayed and refused; limits of 3 and 4 scalars are reached by words of five |
| `surface_vocab` | 4,435 | `TokensFaithful`: tokens decode back, stay inside their segment and are maximal; `FlatMatchesRich`; `BatchIsDocuments`: shards merged in any order, twice or not at all give an error or the documents they hold, in order from the first on, with whole shards missing at the end only; `VocabularyLasts`: training ignores document order, a damaged file is refused | three shards, up to four documents, entries of up to four bytes, vocabularies of 33, 38 and 45 ids (the last beyond the limit of 44), five candidates: ties in rank, bridges over one space, chunks, byte fallback |
| `morphology` | 2,931 | `SearchExact`: the search finds every reading and none else unless it refuses; `ProgramsMeanConditions`: a compiled and validated program evaluates as its tree; `AnalysesKeepTheToken`; `GeneratedIsAnalyzed` | 43 tokens, 15 requests, four sets of limits, an inline stack of 3: every stage of a token, limits met exactly and overrun, programs deeper than the stack |
| `command_line` | 199,724 | `CacheTrusted`: a cached model is complete, conversations run on complete ones; `SamplesWholeTranscript`; `NothingLeaks`; `NothingForgotten`: a cached model is given up only when a complete one is there to replace it, the transcript keeps every answer; launches end, or wait for their user or for curl | two pulls, one launch at a time, kills anywhere, two chunks; conversations of two turns, batches of 2, context of 5: prompts of up to three batches that outgrow the context |
| `disambiguation` | 21,829 | `ChoicesAreBest`: a best path, over all paths; `DecodersAgree`: Viterbi variants choose alike; `CausalChoices`: no look-ahead, rows explain choices; `CachesExact`: what is retained is what would be computed | two workers, two calls, bank of 2, rows of 6 with 2 inline and 2 in the overflow, signatures renewed at 5: ties, full rows, a table that grows with a state held twice |

Two more runs look for what the documentation rules out, and find it:

| Run | Refuted | Counterexample |
|---|---|---|
| `attached` | `AtMostTwoAttached`: "at most two delimiter/comment continuation lines are attached on either side" (`NT/code.rs:15`) | a function head and three blank lines behind it, all of which become code |
| `missing_shard` | `MissingRangesRejected`: "The function rejects duplicate, overlapping, missing, reversed, or cardinality-inconsistent document ranges" (`NT/sharded_surface.rs:324`) | two shards of a batch of which the last one is left out; the merge returns the documents of the first |

`core` and `text` each check two components that share nothing: a behaviour of
MCCore is one of GenericDecode or of PluginHost, one of MCText is one of Scanner
or of CodeSpans, while the other part has not begun.

The parameters that bound a run are `MaxBatch`, `MaxCalls`, `MaxPulls`,
`MaxSaid`, `MaxTurns`, `MaxPlugins` and `MaxDocuments`; each is a guard on
starting something new, never on finishing it. Capacities such as `MaxUnits`,
`ProgramCapacity`, `RowCapacity` or `InlineStack` are the code's own limits,
made small. Runs whose programs return, or whose number of calls is bounded,
end in states without a successor and set `CHECK_DEADLOCK FALSE`; where threads
wait for each other `CallsReturn` and `LaunchesEnd` say what deadlock freedom
would. In `core` a host that has made its calls rests for ever and a context
always takes another call, so anything else that stops is a deadlock. The two workers
of `disambiguation` are interchangeable (symmetry; no liveness is checked
there).

**Fairness.** `PluginHost` and `Nedo004State` assume weak fairness of each
thread's steps inside a call: the operating system schedules a runnable thread,
and mutexes and the once primitives wake their waiters. Nothing is assumed of
callers. `SurfaceBatch` assumes the same of the scoped threads of a batch, which
run until their closure returns, and of the caller's join. Weak fairness gives a
waiting thread the lock only if the lock stays free; this suffices because calls
are finite in number and each ends. `CommandLine` assumes weak fairness of the
program's own steps, and of the prompt that `run -p` brings along. Nothing is
assumed of kills, of the user, or of curl: its options (`cli/main.cpp:95`)
bound the time to connect and the number of retries, not the time a transfer may
stand still (there is no `--max-time` or `--speed-time`), so `LaunchesEnd` lets
a pull wait in its download for ever, and asks only that it does not hang before
it or after it. Which of several outcomes a step has is not constrained. The other modules are sequential
loops over finite input and state no fairness.

## 5. Theorems

`tlapm` checks every leaf; the constants are arbitrary under the named
assumptions of the modules (sizes are positive naturals, 2-D layouts have one
head, markers are no tokens, plugins register providers). TLC evaluates the
assumptions in the runs.

**CoreProofs**, GenericDecode. `CacheIsHistory` alone is not inductive: a step of the
copy loop writes rows of tokens that are not yet accepted. The invariant
`DecodeInv` adds that a call in progress has a batch that fits (`CallFits`), that once a
token is accepted every layer has its cache (`CachesExist`, so that creating a
cache, which clears it, never costs rows), that the layers attended to are
complete (`LayersReady`), that the executed graph holds the rows of the history
extended by the batch (`FreshIsHistory`) and that the copy loop has stored them
for the layers it has passed (`CopiedSoFar`). The heart is `ComputedIsRef`:
attention over cached prefix and batch sees exactly what attention over the
extended history would see, by `MaskIsWindow` and `RowDependsOnPrefix`. From
`DecodeInvariance` follow `ContextIsSound` (`DecodeSpec => []ContextSound`),
`ContextStays` (`DecodeSpec => ContextKept`) and `Refinement`
(`DecodeSpec => ImplementsTokenHistory`),
every action mapping to a step of TokenHistory or to a stutter.

**CoreProofs**, PluginHost. What a load promises (`LoadedIsRegistered`) and what a
look-up relies on (`BuiltinsBeforeLookup`) are true at the end of two loops that
other threads interleave with, so the invariant says how far each loop has come
(`InitSoFar`, `BuiltinsSoFar`), which stays true because registries only grow
(`Grows`, from `RegisterAppends`). `InitOncePerPath` needs `InitsCounted`: a
path whose init ran is recorded or is being loaded right now, and only the
holder of the mutex is inside a load (`LoaderHolds`). `NamesApart`, that two
positions hold different names, is what an append preserves; `ApartIsUnique`
turns it into the cardinality of `UniqueNames`. Steps fall into those that touch
neither registry nor records (`QuietStep`), those that record (`RecordStep`) and
those that register (`RegisterStep`). From `Invariance` follow
`RegistriesAreSound` (`Spec => []RegistriesAnswer`) and `RegistriesGrow`
(`Spec => RegistryAppendOnly`).

**Nedo004StateProofs.** `LoadedModelsServed` needs that the cell is never
rewritten, and so that a thread about to set it has prepared the asset it was
asked for (`SetPrepared`) and that a thread inside the initialisation still
finds the cell empty (`InitRunsOnEmpty`), since setting waits for it. Buffers
and kept ids were made with the vocabulary in force (`BufferMade`,
`KeptIdsMade`), answers fit their requests (`AnswerFits`). From `Invariance`
follow `AnswersAreTrue` (`Spec => []AnswersStayTrue`) and `Refinement`
(`Spec => ImplementsOneVocabulary`).

**SurfaceBatchProofs.** `EveryChunkOnce` needs `ChunksClaimed`: what a worker
holds or has completed lies below the shared counter, so the chunk claimed next
is nobody's. `WorkShape` and `CachesShape` say that workers and caches keep
their fields, that completed chunks are a list (`LongerList`: appending adds
one) and that every table is finite, which turns `RetainBounded` into the
bounds of `TypeOK`. A step that keeps its chunk disturbs neither (`SameChunk`,
`NothingMoves`); a claim moves the union and the counter together
(`CounterAdvances`); a failing worker gives up its chunks and stays failed until
the join. `ChunksInBatch`, from the recursion of `Cut`, says that every chunk
begins and ends within the batch. From `Invariant` follows `ChunksAreSound`
(`Spec => []ChunksSound`).

`ProgramsCurrent` needs `Contents` beside it: `CacheTrue` says what it says and
that code programs are kept under single chunks only, `Place` that a worker
within a document has made the groups up to where it stands and that its cache
is for the address of the batch's vocabulary. Nothing is assumed of vocabularies
or documents. The steps rest on facts about documents. A chunk that does not
begin within an identifier has by itself the units it has within its document
(`UnitsAlone`); the rest of an identifier has them behind the letters it was
cut from (`RestOfIdentifier`), so what a worker makes of a chunk is always one of
the `Readings` of its bytes (`ChunkReading`). A chunk by itself is a single
chunk (`ChunkIsWhole`): it may have fewer units there, since digits that
were the rest of an identifier join a point behind them, but never more. So when
every raw line of a document is the key of a program, every line is a chunk by
itself, which is when an answer may be cut by lines (`LinesFinish`), and the
groups appended one after another become those of the whole document
(`EndBehind`, `NextGroup`). `ProgramsAreCurrent` concludes
`Spec => []ProgramsCurrent`.

`Refinement` (`Spec => ImplementsStateless`) adds `Deliveries`. It says what a
batch in progress owes its caller: each completed chunk is `Encoded`, its list holds the ids of its
documents and none of them is rejected; the output of a worker is the documents
of its chunk up to where it stands (`OnChunk`), and nothing it read so far is
rejected (`CleanTo`); caches are keyed by texts that are not rejected
(`KeysClean`), so a hit never hides an error; a worker that ended found the
counter past the last chunk, and one that failed met a rejected document. When
all have ended, `EveryChunkOnce` gives every chunk once (`AllEncoded`). That
sorting by chunk number restores the order is a matter of counting: the entries
not behind chunk k are exactly k, so k is its place (`FirstCounted`,
`EntriesSorted`); and chunks that follow each other and cover the batch
(`BatchTiles`) put together are its documents (`Strung`, `ChunksTogether`).
Every step then maps to Begin, Answer or Return of StatelessEncoding, or to a
stutter (`StepRefines`). How much the promise says is a theorem of its own,
`AnswersAreDocumentIds`: with one vocabulary at the address, outside code mode
and for every document of code that is `ReadInOneWay`, an answer is
`DocumentIds` and nothing else.

**LexicalProofs.** The library's induction takes an operator; here it is stated
for a set of numbers (`Induct`, `Downward`, `Least`, `Greatest`), which the
provers can use, and `Iteration` gives a recursive function its existence. With
those, what `Lexical` computes by recursion can be proved: where a run ends
(`Extend`), that a unit is not empty, ends between scalars and contains only
what its kind allows, that reading it from its own bytes reads the same, and
what a line's flags come from.

**TextProofs**, Scanner. `ScanIInv` says that each unit is what the scanner finds where
the one before it ends, and that the place to go on is the end of the last. From
it follow `UnitsAreWellFormed` (`Spec => []UnitsWellFormed`) and
`UnitsScanTheSameAlone` (`Spec => []UnitsScanAlone`), which holds although the
scanner looks ahead of the unit: no rule that ends a unit asks for more than the
unit's own bytes when they stand alone. For the hints, `HInv` adds `HintsSum`:
the tracker's hints are those of the lines that ended, joined with what the
current line would give if it ended now; a line break moves one into the other.
`HintsAreThoseOfTheLines` (`Spec => []HintsAreOfLines`) is the result.

**TextProofs**, CodeSpans. `SpansFound` says which detectors' spans there are at each
pass, `PassesTaken` under which hints a pass is reached and that strong lines
are selected from the second pass on, `Spread` which lines are selected by then.
The loop that extends blocks adds to the list it walks, so `Spread` says how far
it has come: a selected line at or behind the index belongs to a block or is
attached behind one, all lines attached behind one up to the index are selected,
and those before every block the index has passed. What a turn reaches is
attached (`ReachAttaches`), and at the end of the list nothing attached is
missing, so `SpreadsOverContinuations` holds with equality. That the result of `MergeSpans` is apart and covers what went
in is an induction over its spans; that a line break is inside a block or
outside, never cut, needs how lines are strung together to the text. From these
follow `SpansAreExact` (`Spec => []SpansExact`) and `LinesAreJudged`
(`Spec => []LinesAreClassified`).

**DisambiguationProofs.** `IInv` says of each worker's caches (`Good`) that a
bank holds, at the place of a signature, nothing or the prepared word of the
analysis that has the signature now (`SharedHolds`, `LocalHolds`), that no row
or overflow entry lies beyond the limits of the table (`TableFits`), and that a
retained entry scores what `TrigramScore` gives for the three analyses of its
key, each of which still stands for a signature, and leads to the row of the
two last of them (`RightFor`, in `RowsRight` and `SpillsRight`). Of a call in
progress (`UnderWay`) it says that every hypothesis is a path through the
candidates taken so far, that its row, if it has one, is the row of its two last
words (`Follows`), and that all candidates of a scored call are interned
(`Interned`); without the last, a transition would look up under a signature
that another word gets later. Interning, preparing a word, making a row and
inserting only ever add to what a signature, a bank or a row means (`After`), so
what one transition retains stays right through the layers, ends of sentences
and fallbacks that follow, and a worker that fills the bank they share leaves
the others' calls as they were. A signature is forgotten together with all rows,
and only between calls (`Clear`, and the renewal in `Start`). Each decoder's
recursion over its hypotheses keeps what one step keeps, by `Induct` of
`LexicalProofs`. `RetainedIsRight` (`Spec => []CachesExact`) follows, for any
lexicon, weights, base and limits: `LimitsFit` and `CallsAssumption` say that
limits are naturals, that requests ask for words of the lexicon and that the
mark of the beginning is not the mark of the end, `ScoresAssumption` that scores
are integers.

`CausalIsGreedy` (`Spec => []CausalChoices`) needs `CInv` beside it, which TLC
checked first: a causal call never has another decoder, works on the sentence it
was asked for, and its path is `Greedy`, behind each of its prefixes the next
choice is the first of the best by `TrigramScore`. A layer extends it by such a
choice (`Picks`): by `IInv` the score of a candidate is that of its analyses
whether it was retained or computed, and `Best` returns the first that no other
one beats (`BestIsFirst`). A greedy path depends on the words up to its end only,
since the first of the best is one place (`OneFirst`, `GreedyAlike`), which is
`FutureUnseen`, and the row that `causal_candidate_scores` computes without a
cache holds the scores the choice was made by (`FactorIsNext`), which is
`RowsExplainChoice`.

**ViterbiProofs.** `ViterbiIsBest` (`Spec => []ChoicesAreBest`) needs `VInv`, which TLC checked
first as well: a Viterbi call never has the causal decoder, works on the
completed sentence, and its hypotheses are `BestKept`: each scores the sum of
the factors of its own path, and for every path through the words passed so far
there is a hypothesis behind the same two last words that scores no less. Two
such paths go on alike, since the next factor sees no more than two words back
(`NextAlike`). The hash decoder keeps it for as long as its table never loses a
pair of words: a table at `Roomy` load has a free slot, so linear probing from
`JavaHash` of the pair ends at the pair or at a free slot and never passes one
that is held elsewhere (`AddKeeps`), and doubling in the middle of a layer
carries every hypothesis over (`ExpandKeeps`). The dense decoder keeps for each
state the better of what reaches it, and starts over with the hash decoder when
two are equal (`MergeKeeps`, `DenseGathers`). Either way a layer takes `BestKept` one
word further (`LayerBest`), `EndBest` draws the best path from the last layer,
and `BestOf` says of it that no sequence of candidates scores higher. For the
conditional scores, replacing one candidate of the chosen path changes the three
factors around it only, so a row of window sums differs from the totals of the
whole paths by the same number throughout (`WindowSum`, `OneChanged`), and no
candidate of the row exceeds the chosen one (`ConditionalBest`).
`HashesAssumption` (the hash of an analysis is an integer) is assumed beside the
assumptions above.

**CommandLineProofs.** Each part has an invariant of its own, kept by each of its
operations. `FilesInv`: between `check` and the rename the `.part` file is
complete whenever curl ended with 0, what curl has written is a beginning of the
model, and the file it writes is never the one under the final name; without
the last, a write could damage a cached model. `ChatInv`: while the prompt is
decoded the context is its first `fed` tokens, and between sampling and decoding
it is everything but the last token printed; `WindowIsTail` shows that push_back
and erase keep the penalty window the tail of all of it. `ModelInv`: what a load
may hold at each stage. `Control` ties them to the place of the launch: a pull
ended in a path, the model is loaded, no context lives outside a turn, and the
transcript is the last prompt and answer. The proof relies on `CommandLine`
running one launch at a time; two that share a `.part` file break `FilesInv`
(section 6). From `Invariance` follow `CacheIsTrusted`
(`Spec => []CacheTrusted`), `WholeTranscriptIsSampled`
(`Spec => []SamplesWholeTranscript`), `LaunchesReleaseAll`
(`Spec => []NothingLeaks`) and `LaunchesForgetNothing`
(`Spec => NothingForgotten`).

Only model-checked: liveness (`CallsReturn`, `LaunchesEnd`; fairness and ENABLED
are out of the prover's reach), the properties of `TrainingCorpus`,
`FlatTokenizer`, `ShardedSurface` and `Morphology`, and of `Disambiguation` that
the decoders break ties alike: `DecodersAgree`. Several of these
modules are written with RECURSIVE operators, which the provers cannot work
with; all of these properties compare the result of long computations with a
slower definition of it, over data of more than one dimension (paths,
hypotheses, files, segments), for which the induction of `LexicalProofs` over
sets of numbers would have to be built anew.

## 6. Where the code does something else than one expects

Seen while modelling. The definitions named here are in the modules, outside
the runs; each is violated when it replaces the properties of the run's .cfg,
with the constants given.

* **Decode layout** (`core/generic_backend.cpp:266`). A batch of one token in
  the 3-D head layout has a third dimension of 1 and is read as 2-D, so its
  heads are taken for tokens and the call is refused; generation decodes one
  token at a time. `LayoutServed` in `core` with `Layouts <- MultiHeadOnly`.
* **A second load of a failed plugin** (`core/plugin_loader.cpp:73`) answers 1,
  already loaded, since every path whose library opened is remembered.
  `AlreadyLoadedIsLoaded` in `core`. Two spellings of one path run
  `init` twice: loads are told apart by the path string.
* **A fragment that cannot be tokenized** (`runtime/nedolm/nedolm-llama.patch:195`).
  The patch throws when the pointer is null and the count is not; a failing
  encode sets the count to 0, so the fragment silently disappears.
  `FailedFragmentReported` in `nedo004`.
* **Two launches share one `.part` file** (`cli/main.cpp:97`): one can rename
  what the other is still writing. `CachedIsComplete` on `HfPull` with two
  processes. A kill that reaches mercan alone leaves curl writing.
* **A transfer that stands still** (`cli/main.cpp:95`). curl is given
  `--retry 3 --connect-timeout 20` but no limit of time or speed for a
  transfer, so a pull may hang in its download; `LaunchesEnd` excludes that
  place and nothing else.
* **A second rename that fails** (`cli/main.cpp:104`). The cached model was
  removed to make room; it is gone, and the complete `.part` file is removed by
  the next pull. `CacheKept` says that a cached model is given up at this place
  only, not that a replacement takes its name.
* **Leaks of a failed load** (`core/generic_backend.cpp:424`). Every error
  return of `mercan_generic_model_load` after the file was opened deletes the
  record and nothing it acquired; the model has the leak in `GiveUp`.
  Exceptions during a load leak likewise. `RefusedLoadHoldsNothing` speaks of
  neither.
* **A vocabulary at the address of a dropped one** (`NT/lib.rs:1361`). The
  runtime tells vocabularies apart by address and replays the other's programs:
  a batch may return ids of a vocabulary that was dropped.
  `FlatSurfaceEncoder` borrows its vocabulary and cannot meet this; the runtime
  that takes a vocabulary with each call can. The run has such a vocabulary, and
  StatelessEncoding promises ids of one of those at the address.
* **A blank line between retained lines** (`NT/flat_surface.rs:549`). In code
  mode programs are retained by the chunk, which ends behind a run of line
  breaks, and looked up by the raw line, which ends behind each one. So the ids
  of a document with a blank line may be those of its lines or those of its
  chunks, and which depends on what the worker encoded before. The run has such
  documents (`Broken`, `Blank`), and `Cuts` names both ways.
* **A chunk that ends within an identifier** (`NT/flat_surface.rs:549`). A chunk
  full after `CODE_PROGRAM_MAX_UNITS` units may end within an identifier such as
  `x3` that `.5` follows; the rest is retained under bytes that mean one number
  at the beginning of another document. The run has such documents (`Severed`,
  `Number`), and `Readings` names both. In a document without blank lines and
  without such digits neither of the two can be seen: `AnswersAreDocumentIds`.
* **A Roman numeral with an ordinal's point** (`NT/lib.rs:3173` against `:3229`).
  The flat way tests the form of a token where the rich one tests its analysis,
  and their streams differ, though the flat one is documented to be exact
  (`NT/lib.rs:2067`). The run leaves such tokens out of its documents, under
  every configuration; `FlatIsRich` in `tokenizer` with
  `Documents <- RomanDocuments` shows the difference under the first
  configuration of the run (`RomanConfigs` is that one alone).
* **Code spreads further than documented** (`NT/code.rs:15` against `:418`): the
  two continuation lines on either side are counted from any selected line, and
  the loop selects as it goes, so a forward chain of continuation lines has no
  end: the run `attached`. `SpreadsOverContinuations` states exactly what the
  loop does. In a document a third of whose lines are anchors, everything but
  prose between the first and the last is selected, even where the anchor itself
  is prose and is not.
* **A space before an identifier that is chunked** (`NT/surface_vocab.rs:887`)
  stays apart on the flat way in code mode and is bridged on the rich one;
  `FlatMatchesRich` exempts that case.
* **A missing last shard** (`NT/sharded_surface.rs:324` against `:351`). Missing
  ranges are promised to be rejected, but nothing says how many documents there
  were, so shards that lack the last ranges are merged: the run `missing_shard`.
  `BatchIsDocuments` says that nothing else gets through.
* **Counts in front of the checksum.** The magic and the number of entries of a
  vocabulary file, and the counts of a binary document, are not covered by the
  checksum; a changed count makes the rest misparse and is noticed
  (`VocabularyLasts`, `FilesAreFaithful`), but the vocabulary's count sizes an
  allocation before that.
* **Limits of a search** (`NM/binary/runtime.rs:37`). A layer of exactly
  `max_active_paths` is refused where the field says it is the maximum alive;
  `SearchIsComplete` speaks of the searches that were not refused.
* **Silent morphemes and stand-ins.** Analysis stops at the first terminal state
  and so misses silent morphemes behind it (`AnalysisLeaves`); generation
  evaluates conditions as if a tail followed, and recomputes phonetic bits that
  analysis carries over. Numerals are rewritten in analyses of any numeral stem,
  so a longer number word that contains the stand-in loses letters
  (`LongerNumberWord`). The fallback for an attached question particle is never
  reached by words with an apostrophe.
* **Exact scores** (`NM/disambiguation.rs`). f32 sums depend on the order of
  features, which differs between the prepared and the direct way and with the
  length a scratch table has grown to; retained scores may then differ in their
  last bits from computed ones. Integer weights hide this. A table that grows
  places states by the old modulus and may hold one twice: harmless, as
  `ChoicesAreBest` shows with `MaxDenseStates = 8`.

## 7. Not modelled

* Nedoformer's feature tensors (`NT/nedoformer*.rs`): wide records copied field
  by field. The score rows it asks of the disambiguator are covered
  (`RowsExplainChoice`).
* Tensor arithmetic and the NedoLM graph: numbers, no control.
* Options, chat formatting and web search of the command line, build and
  conversion scripts: text handling without lasting state.
* Of modelled components: the section tables and string pools of the morphology
  bundle and its JSON front end (layout without control); the file and the
  perfect hash of the disambiguation model (weights are a function here);
  rounding; harmony errors of malformed templates; the compiled table of
  analyses and the statistics of the tokenizer; buffers that are only reused.
* Abstractions that stand for more than they show: bytes beyond ASCII are
  classes of scalars, file cells are fields, ids in `SurfaceBatch` are named by
  what they were made from, and unknown ids are refused everywhere.
