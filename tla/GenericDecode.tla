---------------------------- MODULE GenericDecode ---------------------------
(***************************************************************************)
(* mercan_generic_decode (core/generic_backend.cpp): one context of the    *)
(* generic backend, its per-layer K/V cache and the decode call, step by   *)
(* step, with every failure the call can meet.                             *)
(*                                                                         *)
(* The numbers in tensors are abstracted to where they come from.  A K/V   *)
(* row records the token and position it was projected from and, above the *)
(* first layer, which key rows the attention of the layer below read for   *)
(* it: two rows are equal exactly when the runtime fed the network the     *)
(* same inputs for them.  Layers are numbered from 1, positions from 0.    *)
(***************************************************************************)
EXTENDS Naturals, Sequences

CONSTANTS
  Token,      \* the vocabulary
  NoToken,    \* what a zero-filled cache row holds
  NoLogits,   \* logits vector still empty
  NCtx,       \* mercan_context_params.n_ctx
  NLayers,    \* layers whose attention goes through the runtime's cache
  Window,     \* mercan.attention.sliding_window, 0 for full attention
  MaxBatch,   \* bound: the longest batch a caller submits
  Layouts     \* the layouts architectures give Q, K and V

ASSUME SizesAssumption ==
  /\ NCtx \in Nat \ {0}
  /\ NLayers \in Nat \ {0}
  /\ Window \in Nat
  /\ MaxBatch \in Nat \ {0}

\* 3-D head layout or not, heads of Q, heads of K and V; 2-D is single-head.
ASSUME LayoutAssumption == \A y \in Layouts :
  /\ DOMAIN y = {"threeD", "heads", "kvHeads"}
  /\ y.threeD \in BOOLEAN
  /\ y.heads \in Nat \ {0}
  /\ y.kvHeads \in 1..y.heads
  /\ ~y.threeD => y.heads = 1

ASSUME NullAssumption == NoToken \notin Token

VARIABLES
  nPast,    \* mercan_generic_context.n_past
  ctx,      \* layer |-> generic_layer_cache.ctx is set
  kvHeads,  \* layer |-> generic_layer_cache.n_kv_heads, 0 until recorded
  rows,     \* layer |-> the rows of its K/V cache tensors
  logits,   \* mercan_generic_context.logits
  stage,    \* where the decode call stands
  batch,    \* the tokens of the call, <<>> between calls
  layout,   \* the layout of the call's Q, K and V
  layer,    \* the layer being built or copied
  fresh,    \* the K/V rows and the output the executed graph holds
  ret       \* outcome of the last call: "ok", or why it failed

cacheVars == <<ctx, kvHeads, rows>>
decodeVars == <<nPast, ctx, kvHeads, rows, logits, stage, batch, layout, layer, fresh, ret>>

Layer == 1..NLayers
Pos == 0..(NCtx - 1)
Label == [tok : Token \cup {NoToken}, pos : Pos]
Row == [tok : Token \cup {NoToken}, pos : Pos,
        att : UNION {[S -> Label] : S \in SUBSET Pos}]
Batches == UNION {[1..n -> Token] : n \in 1..MaxBatch}
NoCall == <<>>
Plain == [threeD |-> FALSE, heads |-> 1, kvHeads |-> 1]

\* ggml_backend_buffer_clear fills a new cache with zeros.
Cleared == [tok |-> NoToken, pos |-> 0, att |-> <<>>]

Failures == {"args", "capacity", "alloc", "shape", "changed", "mask", "graph", "compute", "vocab"}

(***************************************************************************)
(* The batch being decoded and what the graph computes for it.             *)
(***************************************************************************)
N == Len(batch)
Queries == nPast..(nPast + N - 1)

\* Fault: the window reaches one key too far.
MinKeyOffByOne(q) == IF Window > 0 /\ q > Window THEN q - Window ELSE 0

\* The position tensor: n_past + i for the i-th token of the batch.
Position(q) == q

\* The first key the mask admits for absolute position q.
MinKey(q) == IF Window > 0 /\ q >= Window THEN q - Window + 1 ELSE 0

\* The mask row of absolute position q: keys with 0 rather than -infinity.
Visible(q) == {key \in 0..(nPast + N - 1) : MinKey(q) <= key /\ key <= q}

LabelOf(row) == [tok |-> row.tok, pos |-> row.pos]
BatchLabel(q) == [tok |-> batch[q - nPast + 1], pos |-> Position(q)]

\* Attention concatenates the first n_past cached rows with the batch's own.
Key(l, key) == IF key < nPast THEN LabelOf(rows[l][key]) ELSE BatchLabel(key)

\* Layer NLayers + 1 stands for the output head: its row is the logits.
ComputedRow(l, q) ==
  [tok |-> BatchLabel(q).tok, pos |-> BatchLabel(q).pos,
   att |-> IF l = 1 THEN <<>> ELSE [key \in Visible(q) |-> Key(l - 1, key)]]

(***************************************************************************)
(* Shapes, as g_attention reads them from ne[1] and ne[2].                 *)
(***************************************************************************)
Ne1(heads, n) == IF layout.threeD THEN heads ELSE n
Ne2(n) == IF layout.threeD THEN n ELSE 1

\* A tensor is taken for 3-D only when its third dimension exceeds 1.
LooksThreeD(n) == Ne2(n) > 1
HeadsSeen(heads, n) == IF LooksThreeD(n) THEN Ne1(heads, n) ELSE 1
TokensSeen(heads, n) == IF LooksThreeD(n) THEN Ne2(n) ELSE Ne1(heads, n)

ShapesCompatible(n) ==
  /\ TokensSeen(layout.kvHeads, n) = TokensSeen(layout.heads, n)
  /\ HeadsSeen(layout.heads, n) % HeadsSeen(layout.kvHeads, n) = 0

-----------------------------------------------------------------------------
DecodeInit ==
  /\ nPast = 0
  /\ ctx = [l \in Layer |-> FALSE]
  /\ kvHeads = [l \in Layer |-> 0]
  /\ rows = [l \in Layer |-> [p \in Pos |-> Cleared]]
  /\ logits = NoLogits
  /\ stage = "idle"
  /\ batch = NoCall
  /\ layout = Plain
  /\ layer = 1
  /\ fresh = <<>>
  /\ ret = "none"

\* The call returns an error; whatever the caches hold stays as it is.
Fail(why) ==
  /\ stage' = "idle"
  /\ ret' = why
  /\ batch' = NoCall
  /\ layout' = Plain
  /\ layer' = 1
  /\ fresh' = <<>>
  /\ UNCHANGED <<nPast, logits>>

\* Null arguments or n <= 0.
RefuseArguments ==
  /\ stage = "idle"
  /\ Fail("args")
  /\ UNCHANGED cacheVars

\* The batch does not fit behind what the context already holds.
RefuseCapacity ==
  /\ stage = "idle"
  /\ \E b \in Batches : nPast + Len(b) > NCtx
  /\ Fail("capacity")
  /\ UNCHANGED cacheVars

\* A call whose batch fits: the previous graph is dropped, inputs are filled.
\* The architecture builds its graph anew and in a layout of its choice.
Begin(b, y) ==
  /\ stage = "idle"
  /\ nPast + Len(b) <= NCtx
  /\ stage' = "build"
  /\ batch' = b
  /\ layout' = y
  /\ UNCHANGED <<nPast, cacheVars, logits, layer, fresh, ret>>

\* Allocating the graph or the input tensors fails before the callback runs.
InputsFail ==
  /\ stage = "build"
  /\ layer = 1
  /\ Fail("alloc")
  /\ UNCHANGED cacheVars

(***************************************************************************)
(* ensure_layer_cache: reuse the layer's cache or create it.  The context  *)
(* pointer is set first and the dimensions last, so a failure in between   *)
(* leaves a half-made cache behind.                                        *)
(***************************************************************************)
HalfMade(l) == ctx[l] /\ kvHeads[l] = 0

Reuse(l, heads) ==
  /\ ctx[l]
  /\ kvHeads[l] = heads
  /\ UNCHANGED cacheVars

Create(l, heads) ==
  /\ ~ctx[l]
  /\ ctx' = [ctx EXCEPT ![l] = TRUE]
  /\ kvHeads' = [kvHeads EXCEPT ![l] = heads]
  /\ rows' = [rows EXCEPT ![l] = [p \in Pos |-> Cleared]]

\* Fault: a cache whose context exists is reused unseen.
EnsureUnverified(l, heads) == Create(l, heads) \/ (ctx[l] /\ UNCHANGED cacheVars)

Ensure(l, heads) == Reuse(l, heads) \/ Create(l, heads)

(***************************************************************************)
(* g_attention, once per layer while the architecture builds its graph.    *)
(***************************************************************************)
Attending ==
  /\ stage = "build"
  /\ layer <= NLayers

Admitted ==
  /\ ShapesCompatible(N)
  /\ nPast + TokensSeen(layout.heads, N) <= NCtx

ShapeFails ==
  /\ Attending
  /\ ~ShapesCompatible(N)
  /\ Fail("shape")
  /\ UNCHANGED cacheVars

\* Reached only when the shapes were misread: the call checked the batch.
AttentionOverflows ==
  /\ Attending
  /\ ShapesCompatible(N)
  /\ nPast + TokensSeen(layout.heads, N) > NCtx
  /\ Fail("capacity")
  /\ UNCHANGED cacheVars

CacheChanged ==
  /\ Attending
  /\ Admitted
  /\ ctx[layer]
  /\ kvHeads[layer] # HeadsSeen(layout.kvHeads, N)
  /\ Fail("changed")
  /\ UNCHANGED cacheVars

\* ggml_init fails: nothing was recorded and a later call starts over.
CacheContextFails ==
  /\ Attending
  /\ Admitted
  /\ ~ctx[layer]
  /\ Fail("alloc")
  /\ UNCHANGED cacheVars

\* The K/V tensors or their buffer cannot be had: the context stays set.
CacheBufferFails ==
  /\ Attending
  /\ Admitted
  /\ ~ctx[layer]
  /\ ctx' = [ctx EXCEPT ![layer] = TRUE]
  /\ Fail("alloc")
  /\ UNCHANGED <<kvHeads, rows>>

\* The mask was made for N tokens; the cache exists by now.
MaskMismatch ==
  /\ Attending
  /\ Admitted
  /\ Ensure(layer, HeadsSeen(layout.kvHeads, N))
  /\ TokensSeen(layout.heads, N) # N
  /\ Fail("mask")

Attend ==
  /\ Attending
  /\ Admitted
  /\ Ensure(layer, HeadsSeen(layout.kvHeads, N))
  /\ TokensSeen(layout.heads, N) = N
  /\ layer' = layer + 1
  /\ UNCHANGED <<nPast, logits, stage, batch, layout, fresh, ret>>

\* Anything else that stops the graph: another builder call fails, logits
\* missing or not F32, no room in the scheduler.
GraphFails ==
  /\ stage = "build"
  /\ Fail("graph")
  /\ UNCHANGED cacheVars

GraphBuilt ==
  /\ stage = "build"
  /\ layer = NLayers + 1
  /\ stage' = "compute"
  /\ UNCHANGED <<nPast, cacheVars, logits, batch, layout, layer, fresh, ret>>

ComputeFails ==
  /\ stage = "compute"
  /\ Fail("compute")
  /\ UNCHANGED cacheVars

Compute ==
  /\ stage = "compute"
  /\ fresh' = [l \in 1..(NLayers + 1) |-> [q \in Queries |-> ComputedRow(l, q)]]
  /\ stage' = "copy"
  /\ layer' = 1
  /\ UNCHANGED <<nPast, cacheVars, logits, batch, layout, ret>>

\* The rows of one layer go behind the n_past rows its cache holds.
CopyLayer ==
  /\ stage = "copy"
  /\ layer <= NLayers
  /\ rows' = [rows EXCEPT ![layer] =
       [p \in Pos |-> IF p \in Queries THEN fresh[layer][p] ELSE @[p]]]
  /\ layer' = layer + 1
  /\ UNCHANGED <<nPast, ctx, kvHeads, logits, stage, batch, layout, fresh, ret>>

\* Fault: the batch counts as decoded although its logits cannot be read.
LogitsFailCounted ==
  /\ stage = "copy"
  /\ layer = NLayers + 1
  /\ stage' = "idle"
  /\ ret' = "vocab"
  /\ batch' = NoCall
  /\ layout' = Plain
  /\ layer' = 1
  /\ fresh' = <<>>
  /\ nPast' = nPast + N
  /\ UNCHANGED <<logits, cacheVars>>

\* The logits tensor has no columns: noticed after the caches were written.
LogitsFail ==
  /\ stage = "copy"
  /\ layer = NLayers + 1
  /\ Fail("vocab")
  /\ UNCHANGED cacheVars

\* The last column of the logits is the caller's; n_past moves last.
Finish ==
  /\ stage = "copy"
  /\ layer = NLayers + 1
  /\ logits' = fresh[NLayers + 1][nPast + N - 1]
  /\ nPast' = nPast + N
  /\ stage' = "idle"
  /\ ret' = "ok"
  /\ batch' = NoCall
  /\ layout' = Plain
  /\ layer' = 1
  /\ fresh' = <<>>
  /\ UNCHANGED cacheVars

DecodeNext ==
  \/ RefuseArguments
  \/ RefuseCapacity
  \/ \E b \in Batches, y \in Layouts : Begin(b, y)
  \/ InputsFail
  \/ ShapeFails
  \/ AttentionOverflows
  \/ CacheChanged
  \/ CacheContextFails
  \/ CacheBufferFails
  \/ MaskMismatch
  \/ Attend
  \/ GraphFails
  \/ GraphBuilt
  \/ ComputeFails
  \/ Compute
  \/ CopyLayer
  \/ LogitsFail
  \/ Finish

DecodeSpec == DecodeInit /\ [][DecodeNext]_decodeVars

-----------------------------------------------------------------------------
(***************************************************************************)
(* What the cache means: the tokens the context has accepted, and the row  *)
(* that evaluating the whole history at once would give.                   *)
(***************************************************************************)
History == [i \in 1..nPast |-> rows[1][i - 1].tok]

\* Position p sees the last Window positions up to its own.
RefVisible(p) == {key \in 0..p : Window > 0 => p - key < Window}

RefRow(l, p, h) ==
  [tok |-> h[p + 1], pos |-> p,
   att |-> IF l = 1 THEN <<>>
           ELSE [key \in RefVisible(p) |-> [tok |-> h[key + 1], pos |-> key]]]

RefLogits(h) == RefRow(NLayers + 1, Len(h) - 1, h)

ReplyOf(r) == IF r = "ok" \/ r = "none" THEN r ELSE "error"

\* The abstract context this one implements.
Abs == INSTANCE TokenHistory WITH
  Capacity <- NCtx,
  Predict <- RefLogits,
  history <- History,
  request <- batch,
  reply <- ReplyOf(ret)

(***************************************************************************)
(* Properties.                                                             *)
(***************************************************************************)

\* Every variable stays within its type.
DecodeTypeOK ==
  /\ nPast \in 0..NCtx
  /\ ctx \in [Layer -> BOOLEAN]
  /\ kvHeads \in [Layer -> Nat]
  /\ rows \in [Layer -> [Pos -> Row]]
  /\ logits \in Row \cup {NoLogits}
  /\ stage \in {"idle", "build", "compute", "copy"}
  /\ batch \in Batches \cup {NoCall}
  /\ layout \in Layouts \cup {Plain}
  /\ layer \in 1..(NLayers + 1)
  /\ ret \in {"none", "ok"} \cup Failures

\* Incremental decoding is evaluation of the whole history: the rows below
\* n_past of every layer are those one call over all accepted tokens would
\* have left, however the history was cut into calls and whatever calls
\* failed in between (g_attention and the copy loop of the decode).
CacheIsHistory ==
  \A l \in Layer : \A p \in 0..(nPast - 1) : rows[l][p] = RefRow(l, p, History)

\* When the copy loop runs every layer's cache is complete: a half-made cache
\* (ensure_layer_cache failing midway) is never written through or read.
CopyTargetsExist ==
  stage = "copy" => \A l \in Layer : ctx[l] /\ kvHeads[l] = HeadsSeen(layout.kvHeads, N)

\* A context with a half-made cache accepts nothing more and keeps showing the
\* logits it has; calls only fail.
HalfMadeStopsContext ==
  [][(\E l \in Layer : HalfMade(l)) => UNCHANGED <<nPast, logits>>]_decodeVars

\* No step, of a failing call or of a successful one, rewrites a row that a
\* later call will read.
PrefixImmutable ==
  [][\A l \in Layer : \A p \in 0..(nPast - 1) : rows'[l][p] = rows[l][p]]_decodeVars

\* A decode call appends its whole batch to the history or changes nothing,
\* and the logits shown are always those of the history accepted last.
ImplementsTokenHistory == Abs!Spec

\* Both documented Q/K/V layouts are served: a single-head 2-D or a 3-D
\* batch that fits the context is not turned down for its shape.
LayoutServed == ret \notin {"shape", "mask"}

\* A context is sound between any two steps of a decode: the cache is that of
\* one whole decode of the history, and rows are only copied into tensors that
\* exist, whatever earlier calls failed at.
ContextSound == DecodeTypeOK /\ CacheIsHistory /\ CopyTargetsExist

\* A step never decodes over caches half made by a call that failed, and never
\* changes a row of a position decoded before.
ContextKept == HalfMadeStopsContext /\ PrefixImmutable
=============================================================================
