----------------------------- MODULE CoreProofs -----------------------------
(***************************************************************************)
(* Theorems about the library's core.  GenericDecode, for every            *)
(* vocabulary, context size, number of layers, window and head layout: the *)
(* cache is the history's, and a call adds its batch or nothing.           *)
(* PluginHost, for every number of threads, plugins and calls: a registry  *)
(* only ever grows at its end and keeps its names apart, init runs once    *)
(* for a path, and loaded plugins and built-ins are found.                 *)
(***************************************************************************)
EXTENDS GenericDecode, PluginHost, SequenceTheorems, FiniteSetTheorems, TLAPS

-----------------------------------------------------------------------------
(* GenericDecode.                                                          *)

\* The tokens the context would hold if the call in progress succeeded.
Extended == [i \in 1..(nPast + N) |->
               IF i <= nPast THEN rows[1][i - 1].tok ELSE batch[i - nPast]]

Ready(l) == ctx[l] /\ kvHeads[l] = HeadsSeen(layout.kvHeads, N)

\* A call in progress has a batch, and room for it.
CallFits ==
  /\ stage = "idle" => batch = NoCall /\ layer = 1
  /\ stage # "idle" => batch \in Batches /\ nPast + N <= NCtx

\* The layers already attended to have complete caches.
LayersReady ==
  /\ stage = "build" => \A l \in Layer : l < layer => Ready(l)
  /\ stage \in {"compute", "copy"} => \A l \in Layer : Ready(l)

\* The graph computed the rows of the extended history.
FreshIsHistory ==
  stage = "copy" =>
    fresh = [l \in 1..(NLayers + 1) |-> [q \in Queries |-> RefRow(l, q, Extended)]]

\* The copy loop has stored them for the layers it has passed.
CopiedSoFar ==
  stage = "copy" =>
    \A l \in Layer : l < layer => \A q \in Queries : rows[l][q] = RefRow(l, q, Extended)

\* Nothing is accepted before every layer has a cache, so no cache is created,
\* cleared, once there are rows to lose.
CachesExist == nPast > 0 => \A l \in Layer : ctx[l]

DecodeInv ==
  /\ DecodeTypeOK
  /\ CallFits
  /\ CachesExist
  /\ LayersReady
  /\ CacheIsHistory
  /\ FreshIsHistory
  /\ CopiedSoFar

-----------------------------------------------------------------------------
(***************************************************************************)
(* Facts about the data.                                                   *)
(***************************************************************************)

\* A batch is a non-empty sequence of tokens, numbered from 1.
LEMMA BatchFacts ==
  ASSUME NEW b \in Batches
  PROVE  /\ b \in Seq(Token)
         /\ Len(b) \in Nat \ {0}
         /\ \A i \in 1..Len(b) : b[i] \in Token
         /\ b # NoCall
<1>1. PICK n \in 1..MaxBatch : b \in [1..n -> Token]
  BY DEF Batches
<1>2. n \in Nat \ {0}
  BY <1>1, SizesAssumption
<1>3. b \in Seq(Token) /\ Len(b) = n
  BY <1>1, <1>2
<1>. QED
  BY <1>1, <1>2, <1>3 DEF NoCall

\* However the shape is read, at least one K/V head is seen.
LEMMA HeadsFacts ==
  ASSUME layout \in Layouts \cup {Plain}, NEW n \in Nat \ {0}
  PROVE  HeadsSeen(layout.kvHeads, n) \in Nat \ {0}
<1>1. layout.kvHeads \in Nat \ {0}
  BY LayoutAssumption DEF Plain
<1>. QED
  BY <1>1 DEF HeadsSeen, LooksThreeD, Ne1, Ne2

\* The mask admits the last Window positions up to the query's own.
LEMMA MaskIsWindow ==
  ASSUME nPast \in Nat, N \in Nat, NEW q \in Queries
  PROVE  Visible(q) = RefVisible(q)
BY SizesAssumption DEF Visible, RefVisible, MinKey, Queries

\* A row depends on the history up to its own position only.
LEMMA RowDependsOnPrefix ==
  ASSUME NEW l, NEW p \in Nat, NEW g, NEW h,
         \A i \in 1..(p + 1) : g[i] = h[i]
  PROVE  RefRow(l, p, g) = RefRow(l, p, h)
<1>1. \A key \in RefVisible(p) : key + 1 \in 1..(p + 1)
  BY DEF RefVisible
<1>2. [key \in RefVisible(p) |-> [tok |-> g[key + 1], pos |-> key]]
        = [key \in RefVisible(p) |-> [tok |-> h[key + 1], pos |-> key]]
  BY <1>1
<1>. QED
  BY <1>2 DEF RefRow

\* A reference row built from a history of tokens is a row of the cache.
LEMMA RefRowType ==
  ASSUME NEW l, NEW p \in Pos, NEW h,
         \A i \in 1..(p + 1) : h[i] \in Token \cup {NoToken}
  PROVE  RefRow(l, p, h) \in Row
<1>1. RefVisible(p) \in SUBSET Pos
  BY SizesAssumption DEF RefVisible, Pos
<1>2. ASSUME NEW key \in RefVisible(p)
      PROVE  [tok |-> h[key + 1], pos |-> key] \in Label
  BY <1>1, SizesAssumption DEF RefVisible, Label, Pos
<1>3. [key \in RefVisible(p) |-> [tok |-> h[key + 1], pos |-> key]] \in [RefVisible(p) -> Label]
  BY <1>2
<1>4. <<>> \in [{} -> Label] /\ {} \in SUBSET Pos
  OBVIOUS
<1>5. RefRow(l, p, h).att \in UNION {[S -> Label] : S \in SUBSET Pos}
  BY <1>1, <1>3, <1>4 DEF RefRow
<1>. QED
  BY <1>5, SizesAssumption DEF RefRow, Row, Pos

-----------------------------------------------------------------------------
(***************************************************************************)
(* What groups of actions have in common.                                  *)
(***************************************************************************)

\* A call gave up: nothing a caller can see of the context changed.
Stopped ==
  /\ stage' = "idle"
  /\ batch' = NoCall
  /\ layout' = Plain
  /\ layer' = 1
  /\ fresh' = <<>>
  /\ ret' \in Failures
  /\ UNCHANGED <<nPast, logits>>

\* Caches may appear, those that exist keep their shape and rows.
CachesKept ==
  /\ ctx' \in [Layer -> BOOLEAN]
  /\ kvHeads' \in [Layer -> Nat]
  /\ rows' \in [Layer -> [Pos -> Row]]
  /\ \A l \in Layer : ctx[l] => /\ ctx'[l]
                               /\ kvHeads'[l] = kvHeads[l]
                               /\ rows'[l] = rows[l]

StoppingStep ==
  \/ RefuseArguments
  \/ RefuseCapacity
  \/ InputsFail
  \/ ShapeFails
  \/ AttentionOverflows
  \/ CacheChanged
  \/ CacheContextFails
  \/ CacheBufferFails
  \/ MaskMismatch
  \/ GraphFails
  \/ ComputeFails
  \/ LogitsFail

\* A cleared cache row is a row.
LEMMA ClearedIsRow == Cleared \in Row
<1>1. <<>> \in [{} -> Label] /\ {} \in SUBSET Pos
  OBVIOUS
<1>2. <<>> \in UNION {[S -> Label] : S \in SUBSET Pos}
  BY <1>1
<1>3. 0 \in Pos /\ NoToken \in Token \cup {NoToken}
  BY SizesAssumption DEF Pos
<1> QED BY <1>2, <1>3 DEF Row, Cleared

\* A new cache is a cleared one of as many heads as the shape shows.
LEMMA EnsureKeepsCaches ==
  ASSUME DecodeTypeOK, layer \in Layer, N \in Nat \ {0},
         Ensure(layer, HeadsSeen(layout.kvHeads, N))
  PROVE  /\ CachesKept
         /\ ctx'[layer]
         /\ kvHeads'[layer] = HeadsSeen(layout.kvHeads, N)
<1>1. Cleared \in Row
  BY ClearedIsRow
<1>2. HeadsSeen(layout.kvHeads, N) \in Nat
  BY HeadsFacts DEF DecodeTypeOK
<1>3. CASE Reuse(layer, HeadsSeen(layout.kvHeads, N))
  BY <1>3 DEF Reuse, CachesKept, DecodeTypeOK, cacheVars
<1>4. CASE Create(layer, HeadsSeen(layout.kvHeads, N))
  <2>1. [p \in Pos |-> Cleared] \in [Pos -> Row]
    BY <1>1
  <2>. QED
    BY <1>2, <1>4, <2>1 DEF Create, CachesKept, DecodeTypeOK
<1>. QED
  BY <1>3, <1>4 DEF Ensure

LEMMA StoppingStepFacts ==
  ASSUME DecodeTypeOK, CallFits, StoppingStep
  PROVE  Stopped /\ CachesKept
<1>1. stage # "idle" => N \in Nat \ {0}
  BY BatchFacts DEF CallFits, N
<1>2. UNCHANGED cacheVars => CachesKept
  BY DEF cacheVars, CachesKept, DecodeTypeOK
<1>3. \A why \in Failures : Fail(why) => Stopped
  BY DEF Fail, Stopped
<1>4. {"args", "capacity", "alloc", "shape", "changed", "mask", "graph", "compute", "vocab"} \subseteq Failures
  BY DEF Failures
<1>5. CASE RefuseArguments
  BY <1>2, <1>3, <1>4, <1>5 DEF RefuseArguments
<1>6. CASE RefuseCapacity
  BY <1>2, <1>3, <1>4, <1>6 DEF RefuseCapacity
<1>7. CASE InputsFail
  BY <1>2, <1>3, <1>4, <1>7 DEF InputsFail
<1>8. CASE ShapeFails
  BY <1>2, <1>3, <1>4, <1>8 DEF ShapeFails
<1>9. CASE AttentionOverflows
  BY <1>2, <1>3, <1>4, <1>9 DEF AttentionOverflows
<1>10. CASE CacheChanged
  BY <1>2, <1>3, <1>4, <1>10 DEF CacheChanged
<1>11. CASE CacheContextFails
  BY <1>2, <1>3, <1>4, <1>11 DEF CacheContextFails
<1>12. CASE CacheBufferFails
  <2>1. CachesKept
    BY <1>12 DEF CacheBufferFails, CachesKept, DecodeTypeOK
  <2>. QED
    BY <1>3, <1>4, <1>12, <2>1 DEF CacheBufferFails
<1>13. CASE MaskMismatch
  <2>1. layer \in Layer /\ N \in Nat \ {0}
    BY <1>1, <1>13, SizesAssumption DEF MaskMismatch, Attending, DecodeTypeOK, Layer
  <2>. QED
    BY <1>3, <1>4, <1>13, <2>1, EnsureKeepsCaches DEF MaskMismatch
<1>14. CASE GraphFails
  BY <1>2, <1>3, <1>4, <1>14 DEF GraphFails
<1>15. CASE ComputeFails
  BY <1>2, <1>3, <1>4, <1>15 DEF ComputeFails
<1>16. CASE LogitsFail
  BY <1>2, <1>3, <1>4, <1>16 DEF LogitsFail
<1>. QED
  BY <1>5, <1>6, <1>7, <1>8, <1>9, <1>10, <1>11, <1>12, <1>13, <1>14, <1>15, <1>16
     DEF StoppingStep

\* Once a context holds tokens, keeping the caches keeps the history.
LEMMA HistoryKept ==
  ASSUME DecodeTypeOK, CachesExist, CacheIsHistory, CachesKept, UNCHANGED nPast
  PROVE  /\ CachesExist'
         /\ CacheIsHistory'
         /\ History' = History
<1>1. CASE nPast = 0
  BY <1>1 DEF CachesExist, CacheIsHistory, History
<1>2. CASE nPast > 0
  <2>1. \A l \in Layer : ctx'[l] /\ rows'[l] = rows[l]
    BY <1>2 DEF CachesExist, CachesKept
  <2>2. 1 \in Layer
    BY SizesAssumption DEF Layer
  <2>3. History' = History
    BY <2>1, <2>2 DEF History
  <2>. QED
    BY <2>1, <2>3 DEF CachesExist, CacheIsHistory
<1>. QED
  BY <1>1, <1>2 DEF DecodeTypeOK

LEMMA StoppingStepInv ==
  ASSUME DecodeInv, StoppingStep
  PROVE  DecodeInv'
<1>1. Stopped /\ CachesKept
  BY StoppingStepFacts DEF DecodeInv
<1>2. DecodeTypeOK'
  BY <1>1, SizesAssumption DEF DecodeInv, DecodeTypeOK, Stopped, CachesKept
<1>3. CallFits' /\ LayersReady' /\ FreshIsHistory' /\ CopiedSoFar'
  BY <1>1 DEF Stopped, CallFits, LayersReady, FreshIsHistory, CopiedSoFar
<1>4. CachesExist' /\ CacheIsHistory'
  BY <1>1, HistoryKept DEF DecodeInv, Stopped
<1>. QED
  BY <1>2, <1>3, <1>4 DEF DecodeInv

-----------------------------------------------------------------------------
(***************************************************************************)
(* The steps of a call that goes on.                                       *)
(***************************************************************************)

LEMMA BeginInv ==
  ASSUME DecodeInv, NEW b \in Batches, NEW y \in Layouts, Begin(b, y)
  PROVE  DecodeInv'
<1>1. DecodeTypeOK'
  BY DEF DecodeInv, DecodeTypeOK, Begin, cacheVars
<1>2. CallFits'
  BY BatchFacts DEF Begin, CallFits, N
<1>3. History' = History
  BY DEF Begin, cacheVars, History
<1>4. CachesExist' /\ CacheIsHistory'
  BY <1>3 DEF DecodeInv, Begin, cacheVars, CachesExist, CacheIsHistory
<1>5. LayersReady'
  BY DEF DecodeInv, CallFits, Begin, LayersReady, Layer
<1>6. FreshIsHistory' /\ CopiedSoFar'
  BY DEF Begin, FreshIsHistory, CopiedSoFar
<1>. QED
  BY <1>1, <1>2, <1>4, <1>5, <1>6 DEF DecodeInv

LEMMA AttendInv ==
  ASSUME DecodeInv, Attend
  PROVE  DecodeInv'
<1>1. layer \in Layer /\ batch \in Batches /\ N \in Nat \ {0}
  BY BatchFacts, SizesAssumption DEF DecodeInv, CallFits, DecodeTypeOK, Attend, Attending, Layer, N
<1>2. CachesKept /\ ctx'[layer] /\ kvHeads'[layer] = HeadsSeen(layout.kvHeads, N)
  BY <1>1, EnsureKeepsCaches DEF DecodeInv, Attend
<1>3. DecodeTypeOK'
  BY <1>1, <1>2, SizesAssumption DEF DecodeInv, DecodeTypeOK, Attend, CachesKept, Layer
<1>4. CallFits'
  BY DEF DecodeInv, CallFits, Attend, Attending, N
<1>5. LayersReady'
  <2>1. N' = N /\ layout' = layout
    BY DEF Attend, N
  <2>2. ASSUME NEW l \in Layer, l < layer + 1
        PROVE  Ready(l)'
    <3>1. CASE l = layer
      BY <1>2, <2>1, <3>1 DEF Ready, HeadsSeen, LooksThreeD, Ne1, Ne2
    <3>2. CASE l < layer
      <4>1. Ready(l)
        BY <3>2 DEF DecodeInv, LayersReady, Attend, Attending
      <4>. QED
        BY <1>2, <2>1, <4>1 DEF Ready, CachesKept, HeadsSeen, LooksThreeD, Ne1, Ne2
    <3>. QED
      BY <1>1, <2>2, <3>1, <3>2 DEF Layer
  <2>. QED
    BY <2>2 DEF LayersReady, Attend, Attending
<1>6. CachesExist' /\ CacheIsHistory'
  BY <1>2, HistoryKept DEF DecodeInv, Attend
<1>7. FreshIsHistory' /\ CopiedSoFar'
  BY DEF Attend, Attending, FreshIsHistory, CopiedSoFar
<1>. QED
  BY <1>3, <1>4, <1>5, <1>6, <1>7 DEF DecodeInv

LEMMA GraphBuiltInv ==
  ASSUME DecodeInv, GraphBuilt
  PROVE  DecodeInv'
<1>1. DecodeTypeOK' /\ CallFits'
  BY DEF DecodeInv, DecodeTypeOK, CallFits, GraphBuilt, cacheVars, N
<1>2. LayersReady'
  <2>1. \A l \in Layer : Ready(l)
    BY SizesAssumption DEF DecodeInv, LayersReady, GraphBuilt, Layer
  <2>. QED
    BY <2>1 DEF LayersReady, Ready, GraphBuilt, cacheVars, N, HeadsSeen, LooksThreeD, Ne1, Ne2
<1>3. History' = History
  BY DEF GraphBuilt, cacheVars, History
<1>4. CachesExist' /\ CacheIsHistory'
  BY <1>3 DEF DecodeInv, GraphBuilt, cacheVars, CachesExist, CacheIsHistory
<1>5. FreshIsHistory' /\ CopiedSoFar'
  BY DEF GraphBuilt, FreshIsHistory, CopiedSoFar
<1>. QED
  BY <1>1, <1>2, <1>4, <1>5 DEF DecodeInv

\* The heart of incremental decoding: attention over the cached prefix and the
\* batch's own rows sees what attention over the whole history would see.
LEMMA ComputedIsRef ==
  ASSUME DecodeInv, stage = "compute", NEW l \in 1..(NLayers + 1), NEW q \in Queries
  PROVE  ComputedRow(l, q) = RefRow(l, q, Extended)
<1>1. batch \in Batches /\ N \in Nat \ {0} /\ nPast \in Nat
  BY BatchFacts, SizesAssumption DEF DecodeInv, CallFits, DecodeTypeOK, N
<1>2. q \in Nat /\ nPast <= q /\ q < nPast + N
  BY <1>1 DEF Queries
<1>3. BatchLabel(q) = [tok |-> Extended[q + 1], pos |-> q]
  <2>1. q + 1 \in 1..(nPast + N) /\ ~(q + 1 <= nPast) /\ q + 1 - nPast = q - nPast + 1
    BY <1>1, <1>2
  <2>2. Extended[q + 1] = batch[q - nPast + 1]
    <3>1. PICK i \in 1..(nPast + N) : i = q + 1 /\ ~(i <= nPast)
      BY <2>1
    <3>2. Extended[i] = batch[i - nPast]
      BY <3>1 DEF Extended
    <3>. QED
      BY <1>1, <1>2, <2>1, <3>1, <3>2
  <2>. QED
    BY <2>2 DEF BatchLabel, Position
<1>4. CASE l = 1
  BY <1>3, <1>4 DEF ComputedRow, RefRow
<1>5. CASE l # 1
  <2>1. l - 1 \in Layer
    BY <1>5, SizesAssumption DEF Layer
  <2>2. Visible(q) = RefVisible(q)
    BY <1>1, MaskIsWindow
  <2>3. ASSUME NEW key \in RefVisible(q)
        PROVE  Key(l - 1, key) = [tok |-> Extended[key + 1], pos |-> key]
    <3>1. key \in 0..q
      BY DEF RefVisible
    <3>2. CASE key < nPast
      <4>1. rows[l - 1][key] = RefRow(l - 1, key, History)
        BY <1>1, <2>1, <3>1, <3>2 DEF DecodeInv, CacheIsHistory
      <4>2. History[key + 1] = Extended[key + 1]
        BY <1>1, <3>1, <3>2 DEF History, Extended
      <4>. QED
        BY <3>2, <4>1, <4>2 DEF Key, LabelOf, RefRow
    <3>3. CASE ~(key < nPast)
      BY <1>1, <1>2, <3>1, <3>3 DEF Key, BatchLabel, Position, Extended
    <3>. QED
      BY <3>2, <3>3
  <2>4. [key \in Visible(q) |-> Key(l - 1, key)]
          = [key \in RefVisible(q) |-> [tok |-> Extended[key + 1], pos |-> key]]
    BY <2>2, <2>3
  <2>. QED
    BY <1>3, <1>5, <2>4 DEF ComputedRow, RefRow
<1>. QED
  BY <1>4, <1>5

LEMMA ComputeInv ==
  ASSUME DecodeInv, Compute
  PROVE  DecodeInv'
<1>1. DecodeTypeOK' /\ CallFits'
  BY SizesAssumption DEF DecodeInv, DecodeTypeOK, CallFits, Compute, cacheVars, N
<1>2. LayersReady'
  BY DEF DecodeInv, LayersReady, Ready, Compute, cacheVars, N, HeadsSeen, LooksThreeD, Ne1, Ne2
<1>3. History' = History /\ Extended' = Extended /\ Queries' = Queries
  BY DEF Compute, cacheVars, History, Extended, Queries, N
<1>4. CachesExist' /\ CacheIsHistory'
  BY <1>3 DEF DecodeInv, Compute, cacheVars, CachesExist, CacheIsHistory
<1>5. FreshIsHistory'
  <2>1. \A l \in 1..(NLayers + 1) : \A q \in Queries :
          ComputedRow(l, q) = RefRow(l, q, Extended)
    BY ComputedIsRef DEF Compute
  <2>2. fresh' = [l \in 1..(NLayers + 1) |-> [q \in Queries |-> RefRow(l, q, Extended)]]
    BY <2>1 DEF Compute
  <2>. QED
    BY <1>3, <2>2 DEF FreshIsHistory
<1>6. CopiedSoFar'
  BY DEF Compute, CopiedSoFar, Layer
<1>. QED
  BY <1>1, <1>2, <1>4, <1>5, <1>6 DEF DecodeInv

LEMMA ExtendedType ==
  ASSUME DecodeInv, stage # "idle"
  PROVE  \A i \in 1..(nPast + N) : Extended[i] \in Token \cup {NoToken}
<1>1. batch \in Batches /\ N \in Nat \ {0} /\ nPast \in 0..NCtx /\ nPast + N <= NCtx
  BY BatchFacts, SizesAssumption DEF DecodeInv, CallFits, DecodeTypeOK, N
<1>. SUFFICES ASSUME NEW i \in 1..(nPast + N)
              PROVE  Extended[i] \in Token \cup {NoToken}
  OBVIOUS
<1>2. CASE i <= nPast
  <2>1. rows[1][i - 1] \in Row
    BY <1>1, <1>2, SizesAssumption DEF DecodeInv, DecodeTypeOK, Layer, Pos
  <2>. QED
    BY <1>2, <2>1 DEF Extended, Row
<1>3. CASE ~(i <= nPast)
  <2>1. i - nPast \in 1..Len(batch)
    BY <1>1, <1>3 DEF N
  <2>. QED
    BY <1>1, <1>3, <2>1, BatchFacts DEF Extended
<1>. QED
  BY <1>2, <1>3

\* Copying a layer touches no row below n_past.
LEMMA CopyLayerRows ==
  ASSUME DecodeInv, CopyLayer
  PROVE  /\ \A l \in Layer : \A p \in 0..(nPast - 1) : rows'[l][p] = rows[l][p]
         /\ \A l \in Layer : l # layer => rows'[l] = rows[l]
         /\ \A q \in Queries : rows'[layer][q] = RefRow(layer, q, Extended)
         /\ layer \in Layer
         /\ History' = History
         /\ Extended' = Extended
         /\ Queries' = Queries
<1>1. batch \in Batches /\ N \in Nat \ {0} /\ nPast \in 0..NCtx /\ nPast + N <= NCtx
  BY BatchFacts, SizesAssumption DEF DecodeInv, CallFits, DecodeTypeOK, CopyLayer, N
<1>2. layer \in Layer /\ 1 \in Layer
  BY SizesAssumption DEF DecodeInv, DecodeTypeOK, CopyLayer, Layer
<1>3. rows' = [rows EXCEPT ![layer] =
        [p \in Pos |-> IF p \in Queries THEN fresh[layer][p] ELSE rows[layer][p]]]
  BY DEF CopyLayer
<1>4. \A l \in Layer : l # layer => rows'[l] = rows[l]
  BY <1>3 DEF DecodeInv, DecodeTypeOK
<1>5. \A p \in Pos : rows'[layer][p] = IF p \in Queries THEN fresh[layer][p] ELSE rows[layer][p]
  BY <1>2, <1>3 DEF DecodeInv, DecodeTypeOK
<1>6. \A l \in Layer : \A p \in 0..(nPast - 1) : rows'[l][p] = rows[l][p]
  <2>1. \A p \in 0..(nPast - 1) : p \in Pos /\ p \notin Queries
    BY <1>1, SizesAssumption DEF Pos, Queries
  <2>. QED
    BY <1>4, <1>5, <2>1
<1>7. \A q \in Queries : rows'[layer][q] = RefRow(layer, q, Extended)
  <2>1. \A q \in Queries : q \in Pos
    BY <1>1, SizesAssumption DEF Pos, Queries
  <2>2. \A q \in Queries : fresh[layer][q] = RefRow(layer, q, Extended)
    BY <1>2, SizesAssumption DEF DecodeInv, FreshIsHistory, CopyLayer, Layer
  <2>. QED
    BY <1>5, <2>1, <2>2
<1>8. History' = History
  <2>1. nPast' = nPast /\ \A i \in 1..nPast : i - 1 \in 0..(nPast - 1)
    BY <1>1 DEF CopyLayer
  <2>. QED
    BY <1>2, <1>6, <2>1 DEF History
<1>9. Extended' = Extended /\ Queries' = Queries
  <2>1. nPast' = nPast /\ batch' = batch /\ N' = N
    BY DEF CopyLayer, N
  <2>2. \A i \in 1..(nPast + N) : i <= nPast => i - 1 \in 0..(nPast - 1)
    BY <1>1
  <2>. QED
    BY <1>2, <1>6, <2>1, <2>2 DEF Extended, Queries
<1>. QED
  BY <1>2, <1>4, <1>6, <1>7, <1>8, <1>9

LEMMA CopyLayerInv ==
  ASSUME DecodeInv, CopyLayer
  PROVE  DecodeInv'
<1>1. nPast' = nPast /\ N' = N /\ stage' = stage /\ fresh' = fresh /\ layer' = layer + 1
  BY DEF CopyLayer, N
<1>2. DecodeTypeOK'
  <2>1. nPast \in 0..NCtx /\ N \in Nat /\ nPast + N <= NCtx
    BY BatchFacts, SizesAssumption DEF DecodeInv, CallFits, DecodeTypeOK, CopyLayer, N
  <2>2. ASSUME NEW q \in Queries
        PROVE  RefRow(layer, q, Extended) \in Row
    <3>1. q \in Pos /\ \A i \in 1..(q + 1) : i \in 1..(nPast + N)
      BY <2>1, SizesAssumption DEF Queries, Pos
    <3>2. \A i \in 1..(q + 1) : Extended[i] \in Token \cup {NoToken}
      BY <3>1, ExtendedType DEF CopyLayer
    <3>. QED
      BY <3>1, <3>2, RefRowType
  <2>3. \A q \in Queries : fresh[layer][q] \in Row
    BY <2>2, SizesAssumption, CopyLayerRows DEF DecodeInv, FreshIsHistory, CopyLayer, Layer
  <2>4. [p \in Pos |-> IF p \in Queries THEN fresh[layer][p] ELSE rows[layer][p]] \in [Pos -> Row]
    BY <2>3, CopyLayerRows DEF DecodeInv, DecodeTypeOK
  <2>5. rows' \in [Layer -> [Pos -> Row]]
    BY <2>4 DEF DecodeInv, DecodeTypeOK, CopyLayer
  <2>6. layer' \in 1..(NLayers + 1)
    BY SizesAssumption DEF DecodeInv, DecodeTypeOK, CopyLayer
  <2>. QED
    BY <2>5, <2>6 DEF DecodeInv, DecodeTypeOK, CopyLayer
<1>3. CallFits'
  BY DEF DecodeInv, CallFits, CopyLayer, N
<1>4. LayersReady'
  BY DEF DecodeInv, LayersReady, Ready, CopyLayer, N, HeadsSeen, LooksThreeD, Ne1, Ne2
<1>5. CachesExist' /\ CacheIsHistory'
  BY <1>1, CopyLayerRows DEF DecodeInv, CachesExist, CacheIsHistory, CopyLayer
<1>6. FreshIsHistory'
  BY <1>1, CopyLayerRows DEF DecodeInv, FreshIsHistory, CopyLayer
<1>7. CopiedSoFar'
  <2>1. ASSUME NEW l \in Layer, l < layer + 1, NEW q \in Queries
        PROVE  rows'[l][q] = RefRow(l, q, Extended)
    <3>1. CASE l = layer
      BY <3>1, CopyLayerRows
    <3>2. CASE l # layer
      <4>1. l < layer
        BY <2>1, <3>2, CopyLayerRows DEF Layer
      <4>. QED
        BY <3>2, <4>1, CopyLayerRows DEF DecodeInv, CopiedSoFar, CopyLayer
    <3>. QED
      BY <3>1, <3>2
  <2>. QED
    BY <1>1, <2>1, CopyLayerRows DEF CopiedSoFar
<1>. QED
  BY <1>2, <1>3, <1>4, <1>5, <1>6, <1>7 DEF DecodeInv

\* When a call finishes the extended history is the history.
LEMMA FinishHistory ==
  ASSUME DecodeInv, Finish
  PROVE  /\ History' = Extended
         /\ logits' = RefLogits(Extended)
         /\ \A l \in Layer : \A p \in 0..(nPast + N - 1) : rows[l][p] = RefRow(l, p, Extended)
<1>1. batch \in Batches /\ N \in Nat \ {0} /\ nPast \in 0..NCtx /\ nPast + N <= NCtx
  BY BatchFacts, SizesAssumption DEF DecodeInv, CallFits, DecodeTypeOK, Finish, N
<1>2. \A l \in Layer : l < layer
  BY SizesAssumption DEF Finish, Layer
<1>3. ASSUME NEW l \in Layer, NEW p \in 0..(nPast + N - 1)
      PROVE  rows[l][p] = RefRow(l, p, Extended)
  <2>1. CASE p < nPast
    <3>1. rows[l][p] = RefRow(l, p, History)
      BY <1>1, <2>1 DEF DecodeInv, CacheIsHistory
    <3>2. \A i \in 1..(p + 1) : History[i] = Extended[i]
      BY <1>1, <2>1 DEF History, Extended
    <3>. QED
      BY <3>1, <3>2, RowDependsOnPrefix
  <2>2. CASE ~(p < nPast)
    BY <1>1, <1>2, <2>2 DEF DecodeInv, CopiedSoFar, Finish, Queries
  <2>. QED
    BY <2>1, <2>2
<1>4. History' = Extended
  <2>1. History' = [i \in 1..(nPast + N) |-> rows[1][i - 1].tok]
    BY DEF History, Finish, cacheVars
  <2>2. ASSUME NEW i \in 1..(nPast + N)
        PROVE  rows[1][i - 1].tok = Extended[i]
    <3>1. 1 \in Layer /\ i - 1 \in 0..(nPast + N - 1) /\ (i - 1) + 1 = i
      BY <1>1, SizesAssumption DEF Layer
    <3>2. rows[1][i - 1] = RefRow(1, i - 1, Extended)
      BY <1>3, <3>1
    <3>3. RefRow(1, i - 1, Extended).tok = Extended[(i - 1) + 1]
      BY DEF RefRow
    <3>. QED
      BY <3>1, <3>2, <3>3
  <2>. QED
    BY <2>1, <2>2 DEF Extended
<1>5. logits' = RefLogits(Extended)
  <2>1. Len(Extended) = nPast + N
    BY <1>1 DEF Extended
  <2>2. nPast + N - 1 \in Queries /\ NLayers + 1 \in 1..(NLayers + 1)
    BY <1>1, SizesAssumption DEF Queries
  <2>3. fresh[NLayers + 1][nPast + N - 1] = RefRow(NLayers + 1, nPast + N - 1, Extended)
    BY <2>2 DEF DecodeInv, FreshIsHistory, Finish
  <2>4. logits' = RefRow(NLayers + 1, nPast + N - 1, Extended)
    BY <2>3 DEF Finish
  <2>5. RefLogits(Extended) = RefRow(NLayers + 1, nPast + N - 1, Extended)
    BY <1>1, <2>1 DEF RefLogits, RefRow
  <2>. QED
    BY <2>4, <2>5
<1>. QED
  BY <1>3, <1>4, <1>5

LEMMA FinishInv ==
  ASSUME DecodeInv, Finish
  PROVE  DecodeInv'
<1>1. batch \in Batches /\ N \in Nat \ {0} /\ nPast \in 0..NCtx /\ nPast + N <= NCtx
  BY BatchFacts, SizesAssumption DEF DecodeInv, CallFits, DecodeTypeOK, Finish, N
<1>2. DecodeTypeOK'
  <2>1. nPast + N - 1 \in Pos /\ \A i \in 1..(nPast + N - 1 + 1) : i \in 1..(nPast + N)
    BY <1>1, SizesAssumption DEF Pos
  <2>2. \A i \in 1..(nPast + N - 1 + 1) : Extended[i] \in Token \cup {NoToken}
    BY <2>1, ExtendedType DEF Finish
  <2>3. RefRow(NLayers + 1, nPast + N - 1, Extended) \in Row
    BY <2>1, <2>2, RefRowType
  <2>4. Len(Extended) = nPast + N
    BY <1>1 DEF Extended
  <2>5. RefLogits(Extended) = RefRow(NLayers + 1, nPast + N - 1, Extended)
    BY <1>1, <2>4 DEF RefLogits, RefRow
  <2>6. logits' \in Row
    BY <2>3, <2>5, FinishHistory
  <2>. QED
    BY <1>1, <2>6, SizesAssumption DEF DecodeInv, DecodeTypeOK, Finish, cacheVars
<1>3. CallFits' /\ LayersReady' /\ FreshIsHistory' /\ CopiedSoFar'
  BY DEF Finish, CallFits, LayersReady, FreshIsHistory, CopiedSoFar
<1>4. CachesExist'
  BY DEF DecodeInv, LayersReady, Ready, Finish, cacheVars, CachesExist
<1>5. CacheIsHistory'
  <2>1. nPast' = nPast + N /\ rows' = rows /\ History' = Extended
    BY FinishHistory DEF Finish, cacheVars
  <2>2. ASSUME NEW l \in Layer, NEW p \in 0..(nPast' - 1)
        PROVE  rows'[l][p] = RefRow(l, p, History')
    <3>0. p \in 0..(nPast + N - 1)
      BY <1>1, <2>1
    <3>1. rows[l][p] = RefRow(l, p, Extended)
      BY <3>0, FinishHistory
    <3>2. RefRow(l, p, History') = RefRow(l, p, Extended)
      BY <2>1 DEF RefRow
    <3>. QED
      BY <1>1, <1>2, <2>1, <3>1, <3>2
  <2>. QED
    BY <2>2 DEF CacheIsHistory
<1>. QED
  BY <1>2, <1>3, <1>4, <1>5 DEF DecodeInv

-----------------------------------------------------------------------------
(***************************************************************************)
(* The invariant, and what follows from it.                                *)
(***************************************************************************)

LEMMA InitInv == DecodeInit => DecodeInv
<1>. SUFFICES ASSUME DecodeInit PROVE DecodeInv
  OBVIOUS
<1>1. Cleared \in Row
  BY ClearedIsRow
<1>2. DecodeTypeOK
  BY <1>1, SizesAssumption, LayoutAssumption DEF DecodeInit, DecodeTypeOK
<1>. QED
  BY <1>2 DEF DecodeInit, DecodeInv, CallFits, CachesExist, LayersReady, CacheIsHistory,
              FreshIsHistory, CopiedSoFar, NoCall

LEMMA NextSplit ==
  ASSUME DecodeNext
  PROVE  \/ StoppingStep
         \/ \E b \in Batches, y \in Layouts : Begin(b, y)
         \/ Attend
         \/ GraphBuilt
         \/ Compute
         \/ CopyLayer
         \/ Finish
BY DEF DecodeNext, StoppingStep

LEMMA NextInv == DecodeInv /\ [DecodeNext]_decodeVars => DecodeInv'
<1>. SUFFICES ASSUME DecodeInv, [DecodeNext]_decodeVars PROVE DecodeInv'
  OBVIOUS
<1>1. CASE UNCHANGED decodeVars
  <2>1. History' = History /\ Extended' = Extended /\ Queries' = Queries /\ N' = N
    BY <1>1 DEF decodeVars, History, Extended, Queries, N
  <2>2. DecodeTypeOK' /\ CallFits' /\ CachesExist'
    BY <1>1, <2>1 DEF decodeVars, DecodeInv, DecodeTypeOK, CallFits, CachesExist
  <2>3. LayersReady'
    BY <1>1, <2>1 DEF decodeVars, DecodeInv, LayersReady, Ready, N, HeadsSeen, LooksThreeD, Ne1, Ne2
  <2>4. CacheIsHistory'
    BY <1>1, <2>1 DEF decodeVars, DecodeInv, CacheIsHistory
  <2>5. FreshIsHistory' /\ CopiedSoFar'
    BY <1>1, <2>1 DEF decodeVars, DecodeInv, FreshIsHistory, CopiedSoFar
  <2>. QED
    BY <2>2, <2>3, <2>4, <2>5 DEF DecodeInv
<1>2. CASE DecodeNext
  BY <1>2, NextSplit, StoppingStepInv, BeginInv, AttendInv, GraphBuiltInv, ComputeInv,
     CopyLayerInv, FinishInv
<1>. QED
  BY <1>1, <1>2

\* The inductive invariant holds in every reachable state of a context.
THEOREM DecodeInvariance == DecodeSpec => []DecodeInv
BY InitInv, NextInv, PTL DEF DecodeSpec

\* Every variable of the decode stays within its type.
THEOREM TypeCorrect == DecodeSpec => []DecodeTypeOK
<1>1. DecodeInv => DecodeTypeOK
  BY DEF DecodeInv
<1>. QED
  BY <1>1, DecodeInvariance, PTL

\* The rows below n_past are those of one evaluation of the whole history,
\* however it was cut into calls and whatever calls failed in between.
THEOREM IncrementalIsWhole == DecodeSpec => []CacheIsHistory
<1>1. DecodeInv => CacheIsHistory
  BY DEF DecodeInv
<1>. QED
  BY <1>1, DecodeInvariance, PTL

\* The copy loop never meets a missing or half-made cache.
THEOREM CopyIsSafe == DecodeSpec => []CopyTargetsExist
<1>1. DecodeInv => CopyTargetsExist
  BY DEF DecodeInv, LayersReady, Ready, CopyTargetsExist
<1>. QED
  BY <1>1, DecodeInvariance, PTL

\* No step rewrites a row that a later call will read.
THEOREM PrefixStays == DecodeSpec => PrefixImmutable
<1>1. ASSUME DecodeInv, [DecodeNext]_decodeVars
      PROVE  [\A l \in Layer : \A p \in 0..(nPast - 1) : rows'[l][p] = rows[l][p]]_decodeVars
  <2>1. ASSUME CachesKept
        PROVE  \A l \in Layer : \A p \in 0..(nPast - 1) : rows'[l][p] = rows[l][p]
    <3>1. CASE nPast = 0
      BY <3>1
    <3>2. CASE nPast > 0
      BY <1>1, <2>1, <3>2 DEF DecodeInv, CachesExist, CachesKept
    <3>. QED
      BY <1>1, <3>1, <3>2 DEF DecodeInv, DecodeTypeOK
  <2>2. CASE StoppingStep
    BY <1>1, <2>1, <2>2, StoppingStepFacts DEF DecodeInv
  <2>3. CASE Attend
    <3>1. layer \in Layer /\ N \in Nat \ {0}
      BY <1>1, <2>3, BatchFacts, SizesAssumption
         DEF DecodeInv, CallFits, DecodeTypeOK, Attend, Attending, Layer, N
    <3>. QED
      BY <1>1, <2>1, <2>3, <3>1, EnsureKeepsCaches DEF DecodeInv, Attend
  <2>4. CASE CopyLayer
    BY <1>1, <2>4, CopyLayerRows
  <2>5. CASE (\E b \in Batches, y \in Layouts : Begin(b, y)) \/ GraphBuilt \/ Compute \/ Finish
    BY <2>5 DEF Begin, GraphBuilt, Compute, Finish, cacheVars
  <2>. QED
    BY <1>1, <2>2, <2>3, <2>4, <2>5, NextSplit
<1>. QED
  BY <1>1, DecodeInvariance, PTL DEF DecodeSpec, PrefixImmutable

\* A context with a half-made cache accepts nothing more.
THEOREM HalfMadeStops == DecodeSpec => HalfMadeStopsContext
<1>1. ASSUME DecodeInv, [DecodeNext]_decodeVars
      PROVE  [(\E l \in Layer : HalfMade(l)) => UNCHANGED <<nPast, logits>>]_decodeVars
  <2>1. CASE StoppingStep
    BY <1>1, <2>1, StoppingStepFacts DEF DecodeInv, Stopped
  <2>2. CASE Finish
    <3>1. N \in Nat \ {0}
      BY <1>1, <2>2, BatchFacts DEF DecodeInv, CallFits, Finish, N
    <3>2. \A l \in Layer : kvHeads[l] # 0
      BY <1>1, <2>2, <3>1, HeadsFacts DEF DecodeInv, DecodeTypeOK, LayersReady, Ready, Finish
    <3>. QED
      BY <3>2 DEF HalfMade
  <2>3. CASE (\E b \in Batches, y \in Layouts : Begin(b, y)) \/ Attend \/ GraphBuilt \/ Compute \/ CopyLayer
    BY <2>3 DEF Begin, Attend, GraphBuilt, Compute, CopyLayer
  <2>. QED
    BY <1>1, <2>1, <2>2, <2>3, NextSplit
<1>. QED
  BY <1>1, DecodeInvariance, PTL DEF DecodeSpec, HalfMadeStopsContext

-----------------------------------------------------------------------------
(***************************************************************************)
(* The refinement: read through History, every step of the decode is a     *)
(* step of TokenHistory or none.                                           *)
(***************************************************************************)

LEMMA ExtendedIsAppended ==
  ASSUME DecodeInv, stage # "idle"
  PROVE  /\ Extended = History \o batch
         /\ Len(History) = nPast
         /\ batch # <<>>
<1>1. batch \in Seq(Token) /\ N \in Nat \ {0} /\ nPast \in Nat /\ batch # <<>>
  BY BatchFacts, SizesAssumption DEF DecodeInv, CallFits, DecodeTypeOK, N, NoCall
<1>2. History \in Seq(Token \cup {NoToken}) /\ Len(History) = nPast
  <2>1. \A i \in 1..nPast : rows[1][i - 1] \in Row
    BY <1>1, SizesAssumption DEF DecodeInv, DecodeTypeOK, Layer, Pos
  <2>2. \A i \in 1..nPast : rows[1][i - 1].tok \in Token \cup {NoToken}
    BY <2>1 DEF Row
  <2>. QED
    BY <1>1, <2>2 DEF History
<1>3. Extended \in Seq(Token \cup {NoToken}) /\ Len(Extended) = nPast + N
  BY <1>1, ExtendedType, SMTT(30) DEF Extended
<1>4. batch \in Seq(Token \cup {NoToken})
  BY <1>1
<1>5. /\ History \o batch \in Seq(Token \cup {NoToken})
      /\ Len(History \o batch) = nPast + N
      /\ \A i \in 1..(nPast + N) :
           (History \o batch)[i] = IF i <= nPast THEN History[i] ELSE batch[i - nPast]
  BY <1>2, <1>4, ConcatProperties DEF N
<1>6. \A i \in 1..(nPast + N) : Extended[i] = (History \o batch)[i]
  BY <1>1, <1>5 DEF Extended, History
<1>7. Extended = History \o batch
  BY <1>3, <1>5, <1>6, SeqEqual
<1>. QED
  BY <1>1, <1>2, <1>7

LEMMA AbsInit == DecodeInit => Abs!Init
<1>. SUFFICES ASSUME DecodeInit PROVE Abs!Init
  OBVIOUS
<1>1. History = <<>>
  BY DEF DecodeInit, History
<1>. QED
  BY <1>1 DEF DecodeInit, Abs!Init, ReplyOf, NoCall

LEMMA AbsStop ==
  ASSUME DecodeInv, StoppingStep
  PROVE  Abs!Refuse \/ Abs!Abort
<1>1. Stopped /\ History' = History
  BY StoppingStepFacts, HistoryKept DEF DecodeInv, Stopped
<1>2. ReplyOf(ret)' = "error"
  BY <1>1 DEF Stopped, Failures, ReplyOf
<1>3. CASE batch = <<>>
  BY <1>1, <1>2, <1>3 DEF Abs!Refuse, Stopped, NoCall
<1>4. CASE batch # <<>>
  BY <1>1, <1>2, <1>4 DEF Abs!Abort, Stopped, NoCall
<1>. QED
  BY <1>3, <1>4

LEMMA AbsBegin ==
  ASSUME DecodeInv, NEW b \in Batches, NEW y \in Layouts, Begin(b, y)
  PROVE  Abs!Call
<1>1. History' = History
  BY DEF Begin, cacheVars, History
<1>2. batch = <<>> /\ batch' \in Seq(Token) /\ batch' # <<>>
  BY BatchFacts DEF DecodeInv, CallFits, Begin, NoCall
<1>. QED
  BY <1>1, <1>2 DEF Abs!Call, Begin

LEMMA AbsFinish ==
  ASSUME DecodeInv, Finish
  PROVE  Abs!Commit
<1>1. batch # <<>> /\ History' = History \o batch /\ logits' = RefLogits(Extended)
  BY ExtendedIsAppended, FinishHistory DEF Finish
<1>2. Len(History) + Len(batch) <= NCtx
  BY ExtendedIsAppended DEF DecodeInv, CallFits, Finish, N
<1>3. RefLogits(Extended) = RefLogits(History')
  BY FinishHistory DEF RefLogits, RefRow
<1>. QED
  BY <1>1, <1>2, <1>3 DEF Abs!Commit, Finish, ReplyOf, NoCall

LEMMA AbsInner ==
  ASSUME DecodeInv, Attend \/ GraphBuilt \/ Compute \/ CopyLayer
  PROVE  UNCHANGED Abs!vars
<1>1. History' = History
  <2>1. CASE Attend
    <3>1. layer \in Layer /\ N \in Nat \ {0}
      BY <2>1, BatchFacts, SizesAssumption
         DEF DecodeInv, CallFits, DecodeTypeOK, Attend, Attending, Layer, N
    <3>. QED
      BY <2>1, <3>1, EnsureKeepsCaches, HistoryKept DEF DecodeInv, Attend
  <2>2. CASE GraphBuilt \/ Compute
    BY <2>2 DEF GraphBuilt, Compute, cacheVars, History
  <2>3. CASE CopyLayer
    BY <2>3, CopyLayerRows
  <2>. QED
    BY <2>1, <2>2, <2>3
<1>2. UNCHANGED <<batch, logits, ret>>
  BY DEF Attend, GraphBuilt, Compute, CopyLayer
<1>. QED
  BY <1>1, <1>2 DEF Abs!vars, ReplyOf

\* A decode call appends its whole batch or changes nothing, and the logits
\* shown are those of the history accepted last.
THEOREM Refinement == DecodeSpec => ImplementsTokenHistory
<1>1. ASSUME DecodeInv, [DecodeNext]_decodeVars
      PROVE  [Abs!Next]_Abs!vars
  <2>1. CASE UNCHANGED decodeVars
    BY <2>1 DEF decodeVars, Abs!vars, History, ReplyOf
  <2>2. CASE DecodeNext
    BY <1>1, <2>2, NextSplit, AbsStop, AbsBegin, AbsFinish, AbsInner DEF Abs!Next
  <2>. QED
    BY <1>1, <2>1, <2>2
<1>. QED
  BY <1>1, AbsInit, DecodeInvariance, PTL DEF DecodeSpec, ImplementsTokenHistory, Abs!Spec

\* What a decode leaves behind is sound between any two of its steps: rows of
\* the whole history, and every cache that is copied into exists.
THEOREM ContextIsSound == DecodeSpec => []ContextSound
BY TypeCorrect, IncrementalIsWhole, CopyIsSafe, PTL DEF ContextSound

\* No step rewrites an accepted position or decodes over a half made cache.
THEOREM ContextStays == DecodeSpec => ContextKept
BY PrefixStays, HalfMadeStops DEF ContextKept

-----------------------------------------------------------------------------
(* PluginHost.                                                             *)

-----------------------------------------------------------------------------
(***************************************************************************)
(* The inductive invariant.                                                *)
(***************************************************************************)

Registered(p) == p.name \in Names(p.reg)

\* Who is past the lock holds it.
LoaderHolds == \A t \in Thread : pc[t] \in {"load", "init"} => mutex = t

\* Where a thread stands fits what it was called for.
CallsFit ==
  \A t \in Thread :
    /\ pc[t] \in {"lock", "load", "init"} => req[t] \in LoadCall
    /\ pc[t] \in {"ensure", "builtins", "look"} => req[t] \in LookCall \cup ListCall
    /\ pc[t] \notin {"init", "builtins"} => step[t] = 1

\* Positions of a registry hold different names.
NamesApart ==
  \A reg \in Registry : \A i, j \in DOMAIN registry[reg] :
    registry[reg][i].name = registry[reg][j].name => i = j

\* A path init ran for is recorded or is being loaded.
InitsCounted ==
  \A p \in Path :
    /\ inits[p] <= 1
    /\ inits[p] = 1 => p \in Recorded \/ \E t \in Thread : pc[t] = "init" /\ req[t].path = p

\* What init and call_once have come past is registered.
InitSoFar ==
  \A t \in Thread : pc[t] = "init" =>
    \A j \in DOMAIN Provides[Lib(t)] : j < step[t] => Registered(Provides[Lib(t)][j])

BuiltinsSoFar ==
  /\ \A t \in Thread : pc[t] = "builtins" =>
       \A j \in DOMAIN Builtins : j < step[t] => Registered(Builtins[j])
  /\ once = "done" => \A j \in DOMAIN Builtins : Registered(Builtins[j])
  /\ \A t \in Thread : pc[t] = "look" => once = "done"

IInv ==
  /\ TypeOK
  /\ LoaderHolds
  /\ CallsFit
  /\ NamesApart
  /\ InitsCounted
  /\ InitSoFar
  /\ BuiltinsSoFar
  /\ LoadedIsRegistered

\* What a registry holds stays at its place.
Grows ==
  \A reg \in Registry : \A i \in DOMAIN registry[reg] :
    i \in DOMAIN registry'[reg] /\ registry'[reg][i] = registry[reg][i]

-----------------------------------------------------------------------------
(***************************************************************************)
(* About the registries.                                                   *)
(***************************************************************************)

\* One registration: what was there stays, the provider is found, and names
\* stay apart.
LEMMA RegisterAppends ==
  ASSUME TypeOK, NamesApart,
         NEW p \in Provider, NEW owner \in Library \cup {"builtin"}, Register(p, owner)
  PROVE  /\ registry' \in [Registry -> Seq(Descriptor)]
         /\ Grows
         /\ NamesApart'
         /\ Registered(p)'
<1> DEFINE old == registry[p.reg]
           new == Append(old, [name |-> p.name, owner |-> owner])
<1>1. p.reg \in Registry /\ p.name \in Name
  BY DEF Provider
<1>2. old \in Seq(Descriptor) /\ [name |-> p.name, owner |-> owner] \in Descriptor
  BY <1>1 DEF TypeOK, Descriptor
<1>3. CASE p.name \in Names(p.reg)
  <2>1. registry' = registry
    BY <1>1, <1>3 DEF Register, TypeOK
  <2>2. QED
    BY <2>1, <1>3 DEF TypeOK, Grows, NamesApart, Registered, Names
<1>4. CASE p.name \notin Names(p.reg)
  <2>1. registry' = [registry EXCEPT ![p.reg] = new]
    BY <1>4 DEF Register
  <2>2. /\ new \in Seq(Descriptor)
        /\ Len(new) = Len(old) + 1
        /\ \A i \in 1..Len(old) : new[i] = old[i]
        /\ new[Len(old) + 1] = [name |-> p.name, owner |-> owner]
    BY <1>2
  <2>3. DOMAIN old = 1..Len(old) /\ DOMAIN new = 1..(Len(old) + 1)
    BY <1>2, <2>2
  <2>4. /\ registry'[p.reg] = new
        /\ \A reg \in Registry : reg # p.reg => registry'[reg] = registry[reg]
    BY <1>1, <2>1 DEF TypeOK
  <2>5. registry' \in [Registry -> Seq(Descriptor)]
    BY <2>1, <2>2 DEF TypeOK
  <2>6. Grows
    BY <2>2, <2>3, <2>4, SMTT(30) DEF Grows
  <2>7. \A i \in DOMAIN old : old[i].name # p.name
    BY <1>4 DEF Names
  <2>8. Len(old) \in Nat
    BY <1>2
  <2>9. \A i, j \in DOMAIN new : new[i].name = new[j].name => i = j
    BY <1>1, <2>2, <2>3, <2>7, <2>8, SMTT(30) DEF NamesApart
  <2>10. NamesApart'
    BY <2>4, <2>9 DEF NamesApart
  <2>11. Registered(p)'
    <3>1. Len(old) + 1 \in DOMAIN registry'[p.reg]
      BY <2>3, <2>4, <2>8
    <3>2. registry'[p.reg][Len(old) + 1].name = p.name
      BY <2>2, <2>4
    <3>3. QED
      BY <3>1, <3>2 DEF Registered, Names
  <2>12. QED
    BY <2>5, <2>6, <2>10, <2>11
<1>5. QED
  BY <1>3, <1>4

\* What is registered stays registered while registries grow.
LEMMA RegisteredStays ==
  ASSUME Grows, NEW p \in Provider, Registered(p)
  PROVE  Registered(p)'
<1>1. p.reg \in Registry
  BY DEF Provider
<1>2. PICK i \in DOMAIN registry[p.reg] : registry[p.reg][i].name = p.name
  BY DEF Registered, Names
<1>3. i \in DOMAIN registry'[p.reg] /\ registry'[p.reg][i].name = p.name
  BY <1>1, <1>2 DEF Grows
<1>4. QED
  BY <1>3 DEF Registered, Names

\* The providers of plugins and of the host are providers.
LEMMA ProvidersTyped ==
  /\ \A l \in Library : \A j \in DOMAIN Provides[l] : Provides[l][j] \in Provider
  /\ \A j \in DOMAIN Builtins : Builtins[j] \in Provider
BY PluginAssumption

\* Names apart are as many as their positions.
LEMMA ApartIsUnique ==
  ASSUME TypeOK, NamesApart
  PROVE  UniqueNames
<1> SUFFICES ASSUME NEW reg \in Registry
             PROVE  Cardinality(Names(reg)) = Len(registry[reg])
  BY DEF UniqueNames
<1> DEFINE s == registry[reg]
           f == [i \in 1..Len(s) |-> s[i].name]
<1>1. s \in Seq(Descriptor) /\ Len(s) \in Nat /\ DOMAIN s = 1..Len(s)
  BY DEF TypeOK
<1>2. Names(reg) = {s[i].name : i \in 1..Len(s)}
  BY <1>1 DEF Names
<1>3. f \in Bijection(1..Len(s), Names(reg))
  <2>1. f \in [1..Len(s) -> Names(reg)]
    BY <1>2
  <2>2. \A i, j \in 1..Len(s) : f[i] = f[j] => i = j
    BY <1>1 DEF NamesApart
  <2>3. \A n \in Names(reg) : \E i \in 1..Len(s) : f[i] = n
    BY <1>2
  <2>4. QED
    BY <2>1, <2>2, <2>3 DEF Bijection, Injection, Surjection, IsInjective
<1>4. ExistsBijection(1..Len(s), Names(reg))
  BY <1>3 DEF ExistsBijection
<1>5. QED
  BY <1>1, <1>4, FS_CountingElements

-----------------------------------------------------------------------------
(***************************************************************************)
(* The invariant holds.                                                    *)
(***************************************************************************)

LEMMA InitHolds == Init => IInv
<1> SUFFICES ASSUME Init PROVE IInv
  OBVIOUS
<1>1. TypeOK
  BY PluginAssumption DEF Init, TypeOK, Registry
<1>2. LoaderHolds /\ CallsFit /\ NamesApart /\ InitsCounted
  BY DEF Init, LoaderHolds, CallsFit, NamesApart, InitsCounted
<1>3. InitSoFar /\ BuiltinsSoFar /\ LoadedIsRegistered
  BY DEF Init, InitSoFar, BuiltinsSoFar, LoadedIsRegistered
<1>4. QED
  BY <1>1, <1>2, <1>3 DEF IInv

\* How threads move from place to place in a step: none leaves init but by
\* recording its path, and none passes over a registration.
InitsStay ==
  \A u \in Thread : pc[u] = "init" => pc'[u] = "init" /\ req'[u] = req[u]

Moves ==
  \A u \in Thread :
    /\ pc'[u] = "init" =>
         (pc[u] = "init" /\ req'[u] = req[u] /\ step'[u] = step[u]) \/ step'[u] = 1
    /\ pc'[u] = "builtins" => (pc[u] = "builtins" /\ step'[u] = step[u]) \/ step'[u] = 1
    /\ pc'[u] = "look" => once' = "done"

\* The arrays of the threads, without the rest of their types.
Arrays ==
  /\ pc = [u \in Thread |-> pc[u]]
  /\ req = [u \in Thread |-> req[u]]
  /\ step = [u \in Thread |-> step[u]]

LEMMA ArraysTyped == ASSUME TypeOK PROVE Arrays
BY DEF TypeOK, Arrays

LEMMA SoFarStays ==
  ASSUME InitSoFar, BuiltinsSoFar, CallsFit, TypeOK, Grows, Moves, CallsFit',
         once' = "done" => once = "done" \/ \A j \in DOMAIN Builtins : Registered(Builtins[j])
  PROVE  InitSoFar' /\ BuiltinsSoFar'
<1>1. \A l \in Library : DOMAIN Provides[l] = 1..Len(Provides[l])
  BY PluginAssumption
<1>2. DOMAIN Builtins = 1..Len(Builtins)
  BY PluginAssumption
<1>3. InitSoFar'
  <2> SUFFICES ASSUME NEW u \in Thread, pc'[u] = "init",
                      NEW j, j \in DOMAIN Provides[Lib(u)'], j < step'[u]
               PROVE  Registered(Provides[Lib(u)][j])'
    BY DEF InitSoFar
  <2> DEFINE p == Provides[Lib(u)][j]
  <2>1. Lib(u)' \in Library
    BY PluginAssumption DEF CallsFit, LoadCall, Lib
  <2>2. step'[u] # 1
    BY <1>1, <2>1
  <2>3. pc[u] = "init" /\ req'[u] = req[u] /\ step'[u] = step[u]
    BY <2>2 DEF Moves
  <2>4. Lib(u)' = Lib(u)
    BY <2>3 DEF Lib
  <2>5. p \in Provider /\ Registered(p)
    BY <2>1, <2>3, <2>4, ProvidersTyped DEF InitSoFar
  <2>6. p.name \in {registry'[p.reg][i].name : i \in DOMAIN registry'[p.reg]}
    <3>1. \A q \in Provider : Registered(q) => q.name \in {registry'[q.reg][i].name : i \in DOMAIN registry'[q.reg]}
      BY RegisteredStays DEF Registered, Names
    <3>2. QED
      BY <2>5, <3>1
  <2>7. QED
    BY <2>4, <2>6 DEF Registered, Names
<1>4. \A j \in DOMAIN Builtins : Registered(Builtins[j]) => Registered(Builtins[j])'
  BY ProvidersTyped, RegisteredStays
<1>5. \A u \in Thread : pc'[u] = "builtins" =>
        \A j \in DOMAIN Builtins : j < step'[u] => Registered(Builtins[j])'
  BY <1>2, <1>4 DEF Moves, BuiltinsSoFar
<1>6. once' = "done" => \A j \in DOMAIN Builtins : Registered(Builtins[j])'
  BY <1>4 DEF BuiltinsSoFar
<1>7. \A u \in Thread : pc'[u] = "look" => once' = "done"
  BY DEF Moves
<1>8. BuiltinsSoFar'
  BY <1>5, <1>6, <1>7 DEF BuiltinsSoFar
<1>9. QED
  BY <1>3, <1>8

LEMMA LoadedStays ==
  ASSUME TypeOK, LoadedIsRegistered, Grows, plugins' = plugins
  PROVE  LoadedIsRegistered'
<1> SUFFICES ASSUME NEW i \in DOMAIN plugins, plugins[i].code = 0,
                    NEW j \in DOMAIN Provides[LibOf[plugins[i].path]]
             PROVE  Registered(Provides[LibOf[plugins[i].path]][j])'
  BY DEF LoadedIsRegistered, Registered
<1>1. LibOf[plugins[i].path] \in Library
  <2>1. plugins \in Seq([path : Path, code : {0, -3, -4, -5}]) /\ i \in 1..Len(plugins)
    BY DEF TypeOK
  <2>2. plugins[i] \in [path : Path, code : {0, -3, -4, -5}]
    BY <2>1, ElementOfSeq
  <2>3. QED
    BY <2>2, PluginAssumption
<1>2. Registered(Provides[LibOf[plugins[i].path]][j])
  BY DEF LoadedIsRegistered, Registered
<1>3. QED
  BY <1>1, <1>2, ProvidersTyped, RegisteredStays

\* What a look-up answers.
LEMMA ResolveTyped ==
  ASSUME TypeOK, NamesApart, NEW r \in LookCall \cup ListCall
  PROVE  Resolve(r) \in Descriptor \cup {None}
<1> DEFINE s == registry[r.reg]
<1>1. r.reg \in Registry /\ s \in Seq(Descriptor)
  BY DEF LookCall, ListCall, TypeOK
<1>2. CASE r.op = "at"
  BY <1>1, <1>2 DEF Resolve
<1>3. CASE r.op # "at" /\ r.name \in Names(r.reg)
  <2>1. PICK i \in DOMAIN s : s[i].name = r.name
    BY <1>3 DEF Names
  <2>2. \A j \in 1..(i - 1) : s[j].name # r.name
    BY <1>1, <2>1 DEF NamesApart
  <2>3. FirstNamed(r.reg, r.name) \in DOMAIN s
    BY <2>1, <2>2 DEF FirstNamed
  <2>4. s[FirstNamed(r.reg, r.name)] \in Descriptor
    BY <1>1, <2>3
  <2>5. QED
    BY <1>3, <2>4 DEF Resolve
<1>4. CASE r.op # "at" /\ r.name \notin Names(r.reg)
  BY <1>4 DEF Resolve
<1>5. QED
  BY <1>2, <1>3, <1>4

\* Steps that leave registries and records alone.
LEMMA QuietStep ==
  ASSUME IInv, NEW t \in Thread,
         \/ \E r \in LoadCall \cup LookCall \cup ListCall : Call(t, r)
         \/ RefuseEmptyPath(t) \/ Lock(t) \/ AlreadyLoaded(t) \/ OpenFails(t) \/ StartInit(t)
         \/ EnsureStart(t) \/ EnsureFinish(t) \/ EnsureDone(t) \/ Look(t)
  PROVE  IInv'
<1>1. registry' = registry /\ plugins' = plugins
  BY DEF Call, RefuseEmptyPath, Lock, AlreadyLoaded, OpenFails, StartInit, EnsureStart, EnsureFinish, EnsureDone, Look, Return
<1>2. Arrays /\ TypeOK /\ CallsFit /\ LoaderHolds
  BY ArraysTyped DEF IInv
<1>3. TypeOK'
  <2>1. CASE \E r \in LoadCall \cup LookCall \cup ListCall : Call(t, r)
    <3>1. PICK r \in LoadCall \cup LookCall \cup ListCall : Call(t, r)
      BY <2>1
    <3>2. req' \in [Thread -> LoadCall \cup LookCall \cup ListCall \cup {None}]
      BY <1>2, <3>1 DEF Call, TypeOK
    <3>3. calls' \in 0..MaxCalls
      BY <1>2, <3>1, PluginAssumption DEF Call, TypeOK
    <3>4. pc' \in [Thread -> {"idle", "lock", "load", "init", "ensure", "builtins", "look"}]
      BY <1>2, <3>1 DEF Call, Goto, TypeOK
    <3>5. answer' \in [Thread -> Code \cup Descriptor \cup {None}]
      BY <1>2, <3>1 DEF Call, TypeOK
    <3>6. QED
      BY <1>2, <3>1, <3>2, <3>3, <3>4, <3>5 DEF Call, TypeOK
  <2>2. CASE RefuseEmptyPath(t)
    BY <1>2, <2>2, PluginAssumption DEF RefuseEmptyPath, Goto, TypeOK, Code
  <2>3. CASE Lock(t)
    BY <1>2, <2>3, PluginAssumption DEF Lock, Goto, TypeOK, Code
  <2>4. CASE AlreadyLoaded(t)
    BY <1>2, <2>4, PluginAssumption DEF AlreadyLoaded, Return, Goto, TypeOK, Code
  <2>5. CASE OpenFails(t)
    BY <1>2, <2>5, PluginAssumption DEF OpenFails, Return, Goto, TypeOK, Code
  <2>6. CASE StartInit(t)
    <3>1. req[t].path \in Path
      BY <1>2, <2>6 DEF StartInit, CallsFit, LoadCall
    <3>2. inits' \in [Path -> Nat]
      BY <1>2, <2>6, <3>1 DEF StartInit, TypeOK
    <3>3. QED
      BY <1>2, <2>6, <3>2 DEF StartInit, Goto, TypeOK
  <2>7. CASE EnsureStart(t)
    BY <1>2, <2>7, PluginAssumption DEF EnsureStart, Goto, TypeOK, Code
  <2>8. CASE EnsureFinish(t)
    BY <1>2, <2>8, PluginAssumption DEF EnsureFinish, Goto, TypeOK, Code
  <2>9. CASE EnsureDone(t)
    BY <1>2, <2>9, PluginAssumption DEF EnsureDone, Goto, TypeOK, Code
  <2>10. CASE Look(t)
    <3>1. Resolve(req[t]) \in Descriptor \cup {None}
      BY <1>2, <2>10, ResolveTyped DEF Look, CallsFit, IInv
    <3>2. answer' \in [Thread -> Code \cup Descriptor \cup {None}]
      BY <1>2, <2>10, <3>1 DEF Look, TypeOK
    <3>3. QED
      BY <1>2, <2>10, <3>2 DEF Look, Goto, TypeOK
  <2>11. QED
    BY <2>1, <2>2, <2>3, <2>4, <2>5, <2>6, <2>7, <2>8, <2>9, <2>10
<1>4. LoaderHolds'
  <2>1. CASE \E r \in LoadCall \cup LookCall \cup ListCall : Call(t, r)
    BY <1>2, <2>1, PluginAssumption DEF Call, Goto, Arrays, LoaderHolds
  <2>2. CASE RefuseEmptyPath(t)
    BY <1>2, <2>2, PluginAssumption DEF RefuseEmptyPath, Goto, Arrays, LoaderHolds
  <2>3. CASE Lock(t)
    BY <1>2, <2>3, PluginAssumption DEF Lock, Goto, Arrays, LoaderHolds
  <2>4. CASE AlreadyLoaded(t)
    BY <1>2, <2>4, PluginAssumption DEF AlreadyLoaded, Return, Goto, Arrays, LoaderHolds
  <2>5. CASE OpenFails(t)
    BY <1>2, <2>5, PluginAssumption DEF OpenFails, Return, Goto, Arrays, LoaderHolds
  <2>6. CASE StartInit(t)
    BY <1>2, <2>6, PluginAssumption DEF StartInit, Goto, Arrays, LoaderHolds
  <2>7. CASE EnsureStart(t)
    BY <1>2, <2>7, PluginAssumption DEF EnsureStart, Goto, Arrays, LoaderHolds
  <2>8. CASE EnsureFinish(t)
    BY <1>2, <2>8, PluginAssumption DEF EnsureFinish, Goto, Arrays, LoaderHolds
  <2>9. CASE EnsureDone(t)
    BY <1>2, <2>9, PluginAssumption DEF EnsureDone, Goto, Arrays, LoaderHolds
  <2>10. CASE Look(t)
    BY <1>2, <2>10, PluginAssumption DEF Look, Goto, Arrays, LoaderHolds
  <2>11. QED
    BY <2>1, <2>2, <2>3, <2>4, <2>5, <2>6, <2>7, <2>8, <2>9, <2>10
<1>5. CallsFit'
  <2>1. CASE \E r \in LoadCall \cup LookCall \cup ListCall : Call(t, r)
    <3>1. PICK r \in LoadCall \cup LookCall \cup ListCall : Call(t, r)
      BY <2>1
    <3>2. (r.op = "load" => r \in LoadCall) /\ (r.op # "load" => r \in LookCall \cup ListCall)
      BY DEF LoadCall, LookCall, ListCall
    <3>3. pc[t] = "idle" /\ step' = step
          /\ pc' = [pc EXCEPT ![t] = IF r.op = "load" THEN "lock" ELSE "ensure"]
          /\ req' = [req EXCEPT ![t] = r]
      BY <3>1 DEF Call, Goto
    <3>4. QED
      BY <1>2, <3>2, <3>3 DEF Arrays, CallsFit
  <2>2. CASE RefuseEmptyPath(t)
    BY <1>2, <2>2 DEF RefuseEmptyPath, Goto, Arrays, CallsFit
  <2>3. CASE Lock(t)
    BY <1>2, <2>3 DEF Lock, Goto, Arrays, CallsFit
  <2>4. CASE AlreadyLoaded(t)
    BY <1>2, <2>4 DEF AlreadyLoaded, Return, Goto, Arrays, CallsFit
  <2>5. CASE OpenFails(t)
    BY <1>2, <2>5 DEF OpenFails, Return, Goto, Arrays, CallsFit
  <2>6. CASE StartInit(t)
    BY <1>2, <2>6 DEF StartInit, Goto, Arrays, CallsFit
  <2>7. CASE EnsureStart(t)
    BY <1>2, <2>7 DEF EnsureStart, Goto, Arrays, CallsFit
  <2>8. CASE EnsureFinish(t)
    BY <1>2, <2>8 DEF EnsureFinish, Goto, Arrays, CallsFit
  <2>9. CASE EnsureDone(t)
    BY <1>2, <2>9 DEF EnsureDone, Goto, Arrays, CallsFit
  <2>10. CASE Look(t)
    BY <1>2, <2>10 DEF Look, Goto, Arrays, CallsFit
  <2>11. QED
    BY <2>1, <2>2, <2>3, <2>4, <2>5, <2>6, <2>7, <2>8, <2>9, <2>10
<1>6. InitsStay /\ Moves
  <2>1. CASE \E r \in LoadCall \cup LookCall \cup ListCall : Call(t, r)
    BY <1>2, <2>1 DEF Call, Goto, Arrays, CallsFit, InitsStay, Moves, IInv, BuiltinsSoFar
  <2>2. CASE RefuseEmptyPath(t)
    BY <1>2, <2>2 DEF RefuseEmptyPath, Goto, Arrays, CallsFit, InitsStay, Moves, IInv, BuiltinsSoFar
  <2>3. CASE Lock(t)
    BY <1>2, <2>3 DEF Lock, Goto, Arrays, CallsFit, InitsStay, Moves, IInv, BuiltinsSoFar
  <2>4. CASE AlreadyLoaded(t)
    BY <1>2, <2>4 DEF AlreadyLoaded, Return, Goto, Arrays, CallsFit, InitsStay, Moves, IInv, BuiltinsSoFar
  <2>5. CASE OpenFails(t)
    BY <1>2, <2>5 DEF OpenFails, Return, Goto, Arrays, CallsFit, InitsStay, Moves, IInv, BuiltinsSoFar
  <2>6. CASE StartInit(t)
    BY <1>2, <2>6 DEF StartInit, Goto, Arrays, CallsFit, InitsStay, Moves, IInv, BuiltinsSoFar
  <2>7. CASE EnsureStart(t)
    BY <1>2, <2>7 DEF EnsureStart, Goto, Arrays, CallsFit, InitsStay, Moves, IInv, BuiltinsSoFar
  <2>8. CASE EnsureFinish(t)
    BY <1>2, <2>8 DEF EnsureFinish, Goto, Arrays, CallsFit, InitsStay, Moves, IInv, BuiltinsSoFar
  <2>9. CASE EnsureDone(t)
    BY <1>2, <2>9 DEF EnsureDone, Goto, Arrays, CallsFit, InitsStay, Moves, IInv, BuiltinsSoFar
  <2>10. CASE Look(t)
    BY <1>2, <2>10 DEF Look, Goto, Arrays, CallsFit, InitsStay, Moves, IInv, BuiltinsSoFar
  <2>11. QED
    BY <2>1, <2>2, <2>3, <2>4, <2>5, <2>6, <2>7, <2>8, <2>9, <2>10
<1>7. InitsCounted'
  <2>1. CASE StartInit(t)
    <3> DEFINE q == req[t].path
    <3>1. /\ pc[t] = "load" /\ mutex = t /\ q \in Path /\ q \notin Recorded
          /\ inits' = [inits EXCEPT ![q] = @ + 1]
          /\ pc'[t] = "init" /\ req' = req
      BY <1>2, <2>1 DEF StartInit, Goto, CallsFit, LoadCall, LoaderHolds, Arrays
    <3>2. \A u \in Thread : pc[u] # "init"
      BY <1>2, <3>1 DEF LoaderHolds
    <3>3. inits \in [Path -> Nat]
      BY <1>2 DEF TypeOK
    <3>4. inits[q] = 0
      BY <3>1, <3>2, <3>3 DEF IInv, InitsCounted
    <3>5. \A p \in Path : inits'[p] = IF p = q THEN 1 ELSE inits[p]
      BY <3>1, <3>3, <3>4
    <3>6. \A p \in Path : inits[p] <= 1 /\ (inits[p] = 1 => p \in Recorded)
      BY <3>2 DEF IInv, InitsCounted
    <3>7. Recorded' = Recorded
      BY <1>1 DEF Recorded
    <3>8. QED
      BY <3>1, <3>5, <3>6, <3>7 DEF InitsCounted
  <2>2. CASE ~StartInit(t)
    <3>1. inits' = inits
      BY <2>2 DEF Call, RefuseEmptyPath, Lock, AlreadyLoaded, OpenFails, EnsureStart, EnsureFinish, EnsureDone, Look
    <3>2. Recorded' = Recorded
      BY <1>1 DEF Recorded
    <3>3. QED
      BY <1>6, <3>1, <3>2 DEF IInv, InitsCounted, InitsStay
  <2>3. QED
    BY <2>1, <2>2
<1>8. Grows
  BY <1>1 DEF Grows
<1>9. once' = "done" => once = "done" \/ \A j \in DOMAIN Builtins : Registered(Builtins[j])
  <2> SUFFICES ASSUME EnsureFinish(t)
               PROVE  \A j \in DOMAIN Builtins : Registered(Builtins[j])
    BY DEF Call, RefuseEmptyPath, Lock, AlreadyLoaded, OpenFails, StartInit, EnsureStart, EnsureDone, Look, Return
  <2>1. pc[t] = "builtins" /\ step[t] > Len(Builtins) /\ step[t] \in Nat
    BY <1>2 DEF EnsureFinish, TypeOK
  <2>2. DOMAIN Builtins = 1..Len(Builtins) /\ Len(Builtins) \in Nat
    BY PluginAssumption
  <2>3. QED
    BY <2>1, <2>2 DEF IInv, BuiltinsSoFar
<1>10. InitSoFar' /\ BuiltinsSoFar'
  BY <1>2, <1>5, <1>6, <1>8, <1>9, SoFarStays DEF IInv
<1>11. LoadedIsRegistered'
  BY <1>1, <1>2, <1>8, LoadedStays DEF IInv
<1>12. NamesApart'
  BY <1>1 DEF IInv, NamesApart
<1>13. QED
  BY <1>3, <1>4, <1>5, <1>7, <1>10, <1>11, <1>12 DEF IInv


\* A load that ends with its path recorded.
LEMMA RecordStep ==
  ASSUME IInv, NEW t \in Thread, NEW c \in {0, -3, -4, -5}, pc[t] \in {"load", "init"},
         c = 0 => pc[t] = "init" /\ step[t] > Len(Provides[Lib(t)]),
         Record(t, c), Return(t, c), inits' = inits
  PROVE  IInv'
<1> DEFINE new == [path |-> req[t].path, code |-> c]
<1>1. Arrays /\ TypeOK /\ CallsFit /\ LoaderHolds
  BY ArraysTyped DEF IInv
<1>2. /\ pc' = [pc EXCEPT ![t] = "idle"] /\ step' = [step EXCEPT ![t] = 1]
      /\ registry' = registry /\ once' = once /\ req' = req
  BY DEF Return, Goto
<1>3. \A u \in Thread : pc[u] \in {"load", "init"} => u = t
  BY <1>1, PluginAssumption DEF LoaderHolds
<1>4. req[t] \in LoadCall /\ req[t].path \in Path
  BY <1>1 DEF CallsFit, LoadCall
<1>5. plugins \in Seq([path : Path, code : {0, -3, -4, -5}]) /\ new \in [path : Path, code : {0, -3, -4, -5}]
  BY <1>1, <1>4 DEF TypeOK
<1>6. /\ plugins' = Append(plugins, new)
      /\ DOMAIN plugins = 1..Len(plugins) /\ DOMAIN plugins' = 1..(Len(plugins) + 1)
      /\ Len(plugins) \in Nat
      /\ \A i \in DOMAIN plugins : plugins'[i] = plugins[i]
      /\ plugins'[Len(plugins) + 1] = new
  BY <1>5 DEF Record
<1>7. TypeOK'
  <2>1. plugins' \in Seq([path : Path, code : {0, -3, -4, -5}])
    BY <1>5, <1>6
  <2>2. answer' \in [Thread -> Code \cup Descriptor \cup {None}]
    BY <1>1 DEF Return, TypeOK, Code
  <2>3. QED
    BY <1>1, <1>2, <2>1, <2>2 DEF Return, TypeOK
<1>8. LoaderHolds'
  BY <1>1, <1>2, <1>3 DEF Arrays, LoaderHolds
<1>9. CallsFit'
  BY <1>1, <1>2 DEF Arrays, CallsFit
<1>10. NamesApart'
  BY <1>2 DEF IInv, NamesApart
<1>11. InitsCounted'
  <2>1. Recorded \subseteq Recorded'
    BY <1>6 DEF Recorded
  <2>2. req[t].path \in Recorded'
    BY <1>6 DEF Recorded
  <2>3. \A p \in Path : inits'[p] <= 1 /\ (inits'[p] = 1 => p \in Recorded')
    BY <1>3, <2>1, <2>2 DEF IInv, InitsCounted
  <2>4. QED
    BY <2>3 DEF InitsCounted
<1>12. Grows /\ Moves
  BY <1>1, <1>2, <1>3 DEF Arrays, Grows, Moves, IInv, BuiltinsSoFar
<1>13. InitSoFar' /\ BuiltinsSoFar'
  BY <1>2, <1>9, <1>12, SoFarStays DEF IInv
<1>14. LoadedIsRegistered'
  <2> SUFFICES ASSUME NEW i \in DOMAIN plugins', plugins'[i].code = 0,
                      NEW j \in DOMAIN Provides[LibOf[plugins'[i].path]]
               PROVE  Registered(Provides[LibOf[plugins'[i].path]][j])
    BY <1>2 DEF LoadedIsRegistered, Registered, Names
  <2>1. CASE i \in DOMAIN plugins
    BY <1>6, <2>1 DEF IInv, LoadedIsRegistered, Registered
  <2>2. CASE i = Len(plugins) + 1
    <3>1. plugins'[i] = new /\ pc[t] = "init" /\ step[t] > Len(Provides[Lib(t)])
      BY <1>6, <2>2
    <3>2. LibOf[new.path] = Lib(t) /\ Lib(t) \in Library
      BY <1>4, PluginAssumption DEF Lib
    <3>3. j \in 1..Len(Provides[Lib(t)]) /\ step[t] \in Nat /\ Len(Provides[Lib(t)]) \in Nat
      BY <1>1, <3>1, <3>2, PluginAssumption DEF TypeOK
    <3>4. j < step[t]
      BY <3>1, <3>3
    <3>5. QED
      BY <3>1, <3>2, <3>4 DEF IInv, InitSoFar
  <2>3. QED
    BY <1>6, <2>1, <2>2
<1>15. QED
  BY <1>7, <1>8, <1>9, <1>10, <1>11, <1>13, <1>14 DEF IInv

\* What a registry holds after the step.
WillHold(p) == p.name \in {registry'[p.reg][i].name : i \in DOMAIN registry'[p.reg]}

\* A registration by either: what it registers is found, and nothing moves.
LEMMA RegisterGrows ==
  ASSUME IInv, NEW t \in Thread, InitRegisters(t) \/ RegisterBuiltin(t)
  PROVE  /\ registry' \in [Registry -> Seq(Descriptor)]
         /\ Grows
         /\ NamesApart'
         /\ pc[t] = "init" => WillHold(Provides[Lib(t)][step[t]])
         /\ pc[t] = "builtins" => WillHold(Builtins[step[t]])
<1>1. TypeOK /\ CallsFit /\ NamesApart
  BY DEF IInv
<1>2. CASE InitRegisters(t)
  <2>1. pc[t] = "init" /\ step[t] <= Len(Provides[Lib(t)]) /\ Register(Provides[Lib(t)][step[t]], Lib(t))
    BY <1>2 DEF InitRegisters
  <2>2. Lib(t) \in Library
    BY <1>1, <2>1, PluginAssumption DEF CallsFit, LoadCall, Lib
  <2>3. step[t] \in DOMAIN Provides[Lib(t)]
    BY <1>1, <2>1, <2>2, PluginAssumption DEF TypeOK
  <2>4. Provides[Lib(t)][step[t]] \in Provider
    BY <2>2, <2>3, ProvidersTyped
  <2>5. PICK p \in Provider : p = Provides[Lib(t)][step[t]]
    BY <2>4
  <2>6. Register(p, Lib(t))
    BY <2>1, <2>5
  <2>7. registry' \in [Registry -> Seq(Descriptor)] /\ Grows /\ NamesApart' /\ WillHold(p)
    BY <1>1, <2>2, <2>6, RegisterAppends DEF Registered, Names, WillHold
  <2>8. QED
    BY <2>1, <2>5, <2>7
<1>3. CASE RegisterBuiltin(t)
  <2>1. pc[t] = "builtins" /\ step[t] <= Len(Builtins) /\ Register(Builtins[step[t]], "builtin")
    BY <1>3 DEF RegisterBuiltin
  <2>2. step[t] \in DOMAIN Builtins
    BY <1>1, <2>1, PluginAssumption DEF TypeOK
  <2>3. Builtins[step[t]] \in Provider
    BY <2>2, ProvidersTyped
  <2>4. PICK p \in Provider : p = Builtins[step[t]]
    BY <2>3
  <2>5. registry' \in [Registry -> Seq(Descriptor)] /\ Grows /\ NamesApart' /\ WillHold(p)
    BY <1>1, <2>1, <2>4, RegisterAppends DEF Registered, Names, WillHold
  <2>6. QED
    BY <2>1, <2>4, <2>5
<1>4. QED
  BY <1>2, <1>3

\* A plugin's init, or the host itself, registers its next provider.
LEMMA RegisterStep ==
  ASSUME IInv, NEW t \in Thread, InitRegisters(t) \/ RegisterBuiltin(t)
  PROVE  IInv'
<1>1. Arrays /\ TypeOK /\ CallsFit /\ LoaderHolds
  BY ArraysTyped DEF IInv
<1>2. /\ pc[t] \in {"init", "builtins"} /\ step' = [step EXCEPT ![t] = @ + 1]
      /\ UNCHANGED <<plugins, once, mutex, pc, req, answer, inits, calls>>
  BY DEF InitRegisters, RegisterBuiltin
<1>8. /\ registry' \in [Registry -> Seq(Descriptor)] /\ Grows /\ NamesApart'
      /\ pc[t] = "init" => WillHold(Provides[Lib(t)][step[t]])
      /\ pc[t] = "builtins" => WillHold(Builtins[step[t]])
  BY RegisterGrows
<1>9. TypeOK'
  <2>1. step' \in [Thread -> Nat \ {0}]
    BY <1>1, <1>2 DEF TypeOK
  <2>2. QED
    BY <1>1, <1>2, <1>8, <2>1 DEF TypeOK
<1>10. LoaderHolds' /\ CallsFit'
  BY <1>1, <1>2 DEF Arrays, LoaderHolds, CallsFit
<1>11. InitsCounted'
  BY <1>2 DEF IInv, InitsCounted, Recorded
<1>12. LoadedIsRegistered'
  BY <1>1, <1>2, <1>8, LoadedStays DEF IInv
<1>13. \A q \in Provider : Registered(q) => WillHold(q)
  BY <1>8, RegisteredStays DEF WillHold, Registered, Names
<1>14. /\ \A u \in Thread : u # t => step'[u] = step[u]
       /\ step'[t] = step[t] + 1
       /\ step[t] \in Nat
  BY <1>1, <1>2 DEF Arrays, TypeOK
<1>15. InitSoFar'
  <2> SUFFICES ASSUME NEW u \in Thread, pc[u] = "init",
                      NEW j \in DOMAIN Provides[Lib(u)], j < step'[u]
               PROVE  WillHold(Provides[Lib(u)][j])
    <3>1. \A u \in Thread : Lib(u)' = Lib(u)
      BY <1>2 DEF Lib
    <3>2. QED
      BY <1>2, <3>1, SMTT(30) DEF InitSoFar, Registered, Names, WillHold
  <2>1. Lib(u) \in Library
    BY <1>1, PluginAssumption DEF CallsFit, LoadCall, Lib
  <2>2. Provides[Lib(u)][j] \in Provider /\ j \in Nat
    BY <2>1, ProvidersTyped, PluginAssumption
  <2>3. CASE u = t /\ j = step[t]
    BY <1>8, <2>3
  <2>4. CASE ~(u = t /\ j = step[t])
    <3>1. j < step[u]
      BY <1>14, <2>2, <2>4
    <3>2. Registered(Provides[Lib(u)][j])
      BY <3>1 DEF IInv, InitSoFar
    <3>3. QED
      BY <1>13, <2>2, <3>2
  <2>5. QED
    BY <2>3, <2>4
<1>16. BuiltinsSoFar'
  <2>1. \A u \in Thread : pc'[u] = "builtins" =>
          \A j \in DOMAIN Builtins : j < step'[u] => WillHold(Builtins[j])
    <3> SUFFICES ASSUME NEW u \in Thread, pc[u] = "builtins",
                        NEW j \in DOMAIN Builtins, j < step'[u]
                 PROVE  WillHold(Builtins[j])
      BY <1>2
    <3>1. Builtins[j] \in Provider /\ j \in Nat
      BY ProvidersTyped, PluginAssumption
    <3>2. CASE u = t /\ j = step[t]
      BY <1>8, <3>2
    <3>3. CASE ~(u = t /\ j = step[t])
      <4>1. j < step[u]
        BY <1>14, <3>1, <3>3
      <4>2. Registered(Builtins[j])
        BY <4>1 DEF IInv, BuiltinsSoFar
      <4>3. QED
        BY <1>13, <3>1, <4>2
    <3>4. QED
      BY <3>2, <3>3
  <2>2. once' = "done" => \A j \in DOMAIN Builtins : WillHold(Builtins[j])
    BY <1>2, <1>13, ProvidersTyped DEF IInv, BuiltinsSoFar
  <2>3. \A u \in Thread : pc'[u] = "look" => once' = "done"
    BY <1>2 DEF IInv, BuiltinsSoFar
  <2>4. QED
    BY <2>1, <2>2, <2>3 DEF BuiltinsSoFar, WillHold, Registered, Names
<1>17. QED
  BY <1>8, <1>9, <1>10, <1>11, <1>12, <1>15, <1>16 DEF IInv

\* The steps of a thread, and none.
LEMMA EveryStep == IInv /\ [Next]_vars => IInv'
<1> SUFFICES ASSUME IInv, [Next]_vars PROVE IInv'
  OBVIOUS
<1>1. CASE UNCHANGED vars
  <2> USE <1>1 DEF vars
  <2>1. TypeOK' /\ LoaderHolds' /\ CallsFit' /\ NamesApart'
    BY DEF IInv, TypeOK, LoaderHolds, CallsFit, NamesApart
  <2>2. InitsCounted'
    BY DEF IInv, InitsCounted, Recorded
  <2>3. Grows /\ Moves
    BY DEF Grows, Moves, IInv, BuiltinsSoFar
  <2>4. InitSoFar' /\ BuiltinsSoFar'
    BY <2>1, <2>3, SoFarStays DEF IInv
  <2>5. LoadedIsRegistered'
    BY <2>3, LoadedStays DEF IInv
  <2>6. QED
    BY <2>1, <2>2, <2>3, <2>4, <2>5 DEF IInv
<1>2. ASSUME NEW t \in Thread, EntryMissing(t) \/ DescriptorIncompatible(t) \/ InitFails(t) \/ InitSucceeds(t)
      PROVE  IInv'
  <2>1. \E c \in {0, -3, -4, -5} :
          /\ pc[t] \in {"load", "init"}
          /\ c = 0 => pc[t] = "init" /\ step[t] > Len(Provides[Lib(t)])
          /\ Record(t, c) /\ Return(t, c) /\ inits' = inits
    BY <1>2 DEF EntryMissing, DescriptorIncompatible, InitFails, InitSucceeds
  <2>2. QED
    BY <2>1, RecordStep
<1>3. ASSUME NEW t \in Thread, InitRegisters(t) \/ RegisterBuiltin(t)
      PROVE  IInv'
  BY <1>3, RegisterStep
<1>4. CASE Next
  BY <1>2, <1>3, <1>4, QuietStep DEF Next, Progress
<1>5. QED
  BY <1>1, <1>4

-----------------------------------------------------------------------------
(***************************************************************************)
(* The theorems.                                                           *)
(***************************************************************************)

\* Whatever the threads do, the invariant holds (g_plugin_mutex, call_once and
\* the registries' own order).
THEOREM Invariance == Spec => []IInv
BY InitHolds, EveryStep, PTL DEF Spec

\* Names are unique, init runs once for a path, and what was loaded or built in
\* is found, for any number of threads, plugins and providers.
THEOREM RegistriesAreSound == Spec => []RegistriesAnswer
<1>1. IInv => RegistriesAnswer
  <2> SUFFICES ASSUME IInv PROVE RegistriesAnswer
    OBVIOUS
  <2>1. TypeOK /\ NamesApart /\ InitsCounted /\ LoadedIsRegistered
    BY DEF IInv
  <2>2. UniqueNames /\ InitOncePerPath
    BY <2>1, ApartIsUnique DEF InitsCounted, InitOncePerPath
  <2>3. BuiltinsBeforeLookup
    BY DEF IInv, BuiltinsSoFar, BuiltinsBeforeLookup, Registered
  <2>4. QED
    BY <2>1, <2>2, <2>3 DEF RegistriesAnswer
<1>2. QED
  BY Invariance, <1>1, PTL

\* A provider handed out stays at its place in its registry.
THEOREM RegistriesGrow == Spec => RegistryAppendOnly
<1>1. IInv /\ [Next]_vars => Grows \/ UNCHANGED vars
  <2> SUFFICES ASSUME IInv, NEW t \in Thread,
                      \/ \E r \in LoadCall \cup LookCall \cup ListCall : Call(t, r)
                      \/ RefuseEmptyPath(t)
                      \/ Progress(t)
               PROVE  Grows
    BY DEF Next
  <2>1. CASE InitRegisters(t) \/ RegisterBuiltin(t)
    BY <2>1, RegisterGrows
  <2>2. CASE ~(InitRegisters(t) \/ RegisterBuiltin(t))
    <3>1. registry' = registry
      BY <2>2 DEF Progress, Call, RefuseEmptyPath, Lock, AlreadyLoaded, OpenFails, EntryMissing,
         DescriptorIncompatible, StartInit, InitFails, InitSucceeds, EnsureStart, EnsureFinish,
         EnsureDone, Look, Return
    <3>2. QED
      BY <3>1 DEF Grows
  <2>3. QED
    BY <2>1, <2>2
<1>2. QED
  BY Invariance, <1>1, PTL DEF Spec, RegistryAppendOnly, Grows
=============================================================================
