----------------------------- MODULE RowTransfer -----------------------------
(***************************************************************************)
(* The rows of keys and values themselves, followed from one prompt's      *)
(* cache to another's: the data plane (data_plane.py) between paged blocks *)
(* and staging, the plans of TransferRuntime and GptOssWorkerBridge that   *)
(* drive it, the key correction (torch_yarn.py), and the transfer evidence *)
(* probe that watches it (transfer_probe.py, correctness/transfer.py) when *)
(* transfer_evidence_path is configured, which it is not by default.       *)
(*                                                                         *)
(* A key row is what it was computed from, [layer, ctx, pos]: the layer,   *)
(* the tokens it attended to and the position it is rotated to; a value    *)
(* row has no position.  What WorkerTransfer follows in detail, the life   *)
(* of staging and of the connection to the server, is one flag here: after *)
(* a failed request to the server nothing is transferred any more.         *)
(***************************************************************************)
EXTENDS Layout

CONSTANTS
  ChunkSize,      \* LMCACHE_CHUNK_SIZE
  Capacity,       \* StagingConfig.token_capacity
  KvCacheConfigs, \* finalized KVCacheConfigs vLLM may hand over
  Prompts,        \* token sequences
  Allocations,    \* block tables vLLM may allocate, one per group
  MaxRequests     \* bound: requests served

ASSUME RowAssumption == ChunkSize \in Nat \ {0} /\ Capacity \in Nat /\ MaxRequests \in Nat

ASSUME ConfigAssumption ==
  KvCacheConfigs \subseteq Seq([kind : {"sliding", "full"}, layers : Seq(Nat), block_size : Nat])

Tokens == UNION {ToSet(prompt) : prompt \in Prompts}
ASSUME PromptAssumption == Prompts \subseteq Seq(Tokens)

\* vLLM's pool gives a block to one group of one request, and a request enough
\* of them for its prompt.
ASSUME AllocationAssumption ==
  /\ Allocations \subseteq Seq(Seq(Nat))
  /\ \A tables \in Allocations : Len(tables) = 2 =>
       /\ ToSet(tables[1]) \cap ToSet(tables[2]) = {}
       /\ \A prompt \in Prompts, g \in {1, 2} : Len(prompt) <= Len(tables[g]) * BlockSize

VARIABLES
  probing,   \* whether transfer_evidence_path is configured
  pc,        \* where the worker is
  config,    \* the registered KVCacheConfig, <<>> before
  mem,       \* paged memory: tensor -> slot -> [k, v]
  staging,   \* staging tensor: layer -> token -> [k, v]
  cur,       \* the request of this step
  live,      \* earlier requests that still hold their blocks
  served,    \* requests served so far
  ready,     \* GptOssWorkerBridge._require_ready
  objects,   \* the server: prefix of a prompt -> layer -> rows of its last chunk
  sidecar,   \* CacheRecords
  probe,     \* GptOssTransferEvidenceProbe: <<>> or the samples of a load
  evidence   \* the evidence file: <<>> or its content

vars == <<probing, pc, config, mem, staging, cur, live, served, ready, objects, sidecar,
          probe, evidence>>

-----------------------------------------------------------------------------
(* Rows, and how vLLM and the server place them.                            *)

Tensors == {l \div 2 : l \in Layers}
Tensor(l) == l \div 2   \* vLLM lets a layer of each group share one tensor
Slots == 0 .. NumBlocks * BlockSize - 1

\* The first layer sees the token alone, the others all tokens up to it.
Context(prompt, l, p) == IF l = 0 THEN <<prompt[p + 1]>> ELSE SubSeq(prompt, 1, p + 1)

\* What an ordinary forward pass computes for position p.
Computed(prompt, l, p) ==
  [k |-> [layer |-> l, ctx |-> Context(prompt, l, p), pos |-> p],
   v |-> [layer |-> l, ctx |-> Context(prompt, l, p)]]

Blank == [k |-> [layer |-> NumLayers, ctx |-> <<>>, pos |-> 0],
          v |-> [layer |-> NumLayers, ctx |-> <<>>]]

\* vLLM's slot mapping of a request.
SlotOf(r, l, p) ==
  r.tables[GroupOf(config, l)][(p \div BlockSize) + 1] * BlockSize + (p % BlockSize)

SlotsHeld(r) ==
  {<<Tensor(l), SlotOf(r, l, p)>> : l \in Layers, p \in 0 .. Len(r.prompt) - 1}

BlocksHeld(r) == ToSet(r.tables[1]) \cup ToSet(r.tables[2])

ChunkCount(prompt) == Len(prompt) \div ChunkSize
Window(prompt, start) == SubSeq(prompt, start + 1, start + ChunkSize)

\* The server keys a chunk by all tokens up to its end.
Key(prompt, n) == SubSeq(prompt, 1, n * ChunkSize)

-----------------------------------------------------------------------------
(* GptOssDataPlane.                                                         *)

RetrievalBufferOffset == 0
StoreBufferOffset == 0

\* Mutant of CorrectKeyPositions: rotated to the target without undoing the
\* rotation of the source.
RotateToTarget(key, source, target) == [key EXCEPT !.pos = @ + target]

\* GptOssTorchYarnCorrector: the rotation by target - source.
CorrectKeyPositions(key, source, target) == [key EXCEPT !.pos = (@ + target) - source]

\* A prepared copy: rows of one component, and where they go.
PreparedCopy(at, start, comp, rows) ==
  [at |-> at, start |-> start, comp |-> comp, rows |-> rows]

\* _prepare_scatter_span, for the key and for the value.
PrepareScatterSpan(s) ==
  LET first == RetrievalBufferOffset + s.span.target.start
      Staged(i) == staging[s.layer][first + i - 1]
  IN <<PreparedCopy(Tensor(s.layer), s.span.slot, "k",
         [i \in 1 .. TokenCount(s) |->
            CorrectKeyPositions(Staged(i).k, s.span.source.start + i - 1,
                                s.span.target.start + i - 1)]),
       PreparedCopy(Tensor(s.layer), s.span.slot, "v",
         [i \in 1 .. TokenCount(s) |-> Staged(i).v])>>

\* _prepare_gather_span: a document is compact in staging.
PrepareGatherSpan(s, offset, range) ==
  LET first == offset + s.span.target.start - range.start
      Paged(i) == mem[Tensor(s.layer)][s.span.slot + i - 1]
  IN <<PreparedCopy(s.layer, first, "k", [i \in 1 .. TokenCount(s) |-> Paged(i).k]),
       PreparedCopy(s.layer, first, "v", [i \in 1 .. TokenCount(s) |-> Paged(i).v])>>

\* A copy writes one component of its rows.
Writes(c, at, s, comp) ==
  c.at = at /\ c.comp = comp /\ s \in c.start .. c.start + Len(c.rows) - 1

\* _apply, broken off after the first n copies: the last one to write a
\* component of a row decides what it is.
Apply(m, copies, n) ==
  LET done == SubSeq(copies, 1, n)
      Cell(at, s, comp) ==
        LET writers == {i \in DOMAIN done : Writes(done[i], at, s, comp)}
            last == done[Max(writers)]
        IN IF writers = {} THEN m[at][s][comp] ELSE last.rows[s - last.start + 1]
  IN [at \in DOMAIN m |-> [s \in DOMAIN m[at] |->
        [k |-> Cell(at, s, "k"), v |-> Cell(at, s, "v")]]]

-----------------------------------------------------------------------------
(* The plans of a step.                                                     *)

\* TokenTransfer of a candidate, and of a chunk that is stored.
LoadTransfer(c) == TokenTransfer(c.record.source, c.target, ChunkSize)
StoreTransfer(n) == TokenTransfer((n - 1) * ChunkSize, (n - 1) * ChunkSize, ChunkSize)

Spans(transfer) == PlanTokenScatter(config, cur.tables, transfer)

\* _build_load_plan or _build_store_plan, and the bridge's preflights of it:
\* the tables reach, the spans are valid, staging has the room.
Preflight(transfers, offset, extent) ==
  /\ ready
  /\ offset + extent <= Capacity
  /\ \A t \in transfers : TablesCover(cur.tables, t) /\ ValidSpans(Spans(t), t)

\* The copies of one span after the other, each of the key and of the value.
InOrder(prepared) == [i \in 1 .. 2 * Len(prepared) |-> prepared[(i + 1) \div 2][2 - (i % 2)]]

ScatterCopies(c) ==
  LET spans == Spans(LoadTransfer(c))
  IN InOrder([i \in DOMAIN spans |-> PrepareScatterSpan(spans[i])])

\* GptOssWorkerBridge._chunk_store_offset
ChunkStoreOffset(n) == StoreBufferOffset + (n - 1) * ChunkSize

GatherCopies(n) ==
  LET spans == Spans(StoreTransfer(n))
  IN InOrder([i \in DOMAIN spans |->
       PrepareGatherSpan(spans[i], ChunkStoreOffset(n), StoreTransfer(n).target)])

-----------------------------------------------------------------------------
Init ==
  /\ probing \in BOOLEAN
  /\ pc = "start" /\ config = <<>>
  /\ mem = [t \in Tensors |-> [s \in Slots |-> Blank]]
  /\ staging = [l \in Layers |-> [i \in 0 .. Capacity - 1 |-> Blank]]
  /\ cur = <<>> /\ live = {} /\ served = 0 /\ ready = TRUE
  /\ objects = <<>> /\ sidecar = {}
  /\ probe = <<>> /\ evidence = <<>>

\* register_kv_caches, behind the constructor's adapt_kv_cache_config.
RegisterKvCaches(c) ==
  /\ pc = "start"
  /\ \/ ValidKvCacheConfig(c) /\ config' = c /\ pc' = "idle"
     \/ ~ValidKvCacheConfig(c) /\ config' = config /\ pc' = "stopped"
  /\ UNCHANGED <<mem, staging, cur, live, served, ready, objects, sidecar, probe, evidence>>

Candidates(prompt) ==
  {c \in [record : sidecar, target : 0 .. Len(prompt) - ChunkSize] :
     c.record.tokens = Window(prompt, c.target)}

Overlap(c, d) == c.target < d.target + ChunkSize /\ d.target < c.target + ChunkSize

\* What a lookup verifies and selects: candidates whose targets do not
\* overlap, as many as fit, in the order of their targets (Selection).
Selected(prompt) ==
  LET Ordered(q) == \A i, j \in DOMAIN q : i < j => q[i].target + ChunkSize <= q[j].target
      Full(q) == \A c \in Candidates(prompt) : \E i \in DOMAIN q : Overlap(c, q[i])
  IN {q \in UNION {[1 .. n -> Candidates(prompt)] : n \in 0 .. ChunkCount(prompt)} :
        Ordered(q) /\ Full(q)}

\* The engine schedules a prompt on blocks that nobody else holds
\* (update_state_after_alloc, _adapt_handoff_blocks).
Schedule(prompt, tables, candidates) ==
  /\ pc = "idle" /\ served < MaxRequests
  /\ \A r \in live : BlocksHeld(r) \cap (ToSet(tables[1]) \cup ToSet(tables[2])) = {}
  /\ served' = served + 1
  /\ \/ /\ ValidKvCacheBlocks(tables)
        /\ cur' = [prompt |-> prompt, tables |-> tables, candidates |-> candidates,
                   load |-> "none", store |-> "none", n |-> 0]
        /\ pc' = "before_forward"
     \/ ~ValidKvCacheBlocks(tables) /\ cur' = cur /\ pc' = "stopped"
  /\ UNCHANGED <<config, mem, staging, live, ready, objects, sidecar, probe, evidence>>

-----------------------------------------------------------------------------
(* TransferRuntime.before_forward.                                          *)

\* Every return of before_forward; the forward pass follows in any case.
LoadEnds(state) == cur' = [cur EXCEPT !.load = state, !.n = 0] /\ pc' = "forward"

BeforeForward ==
  /\ pc = "before_forward"
  /\ LET transfers == {LoadTransfer(c) : c \in ToSet(cur.candidates)}
         ok == Preflight(transfers, RetrievalBufferOffset, Len(cur.prompt))
     IN \/ cur.candidates = <<>> /\ LoadEnds("not_eligible")
        \/ cur.candidates # <<>> /\ ~ok /\ LoadEnds("fallback")
        \/ cur.candidates # <<>> /\ ok /\ pc' = "retrieve" /\ cur' = cur
  /\ UNCHANGED <<config, mem, staging, live, served, ready, objects, sidecar, probe, evidence>>

\* The server writes each object to the target of its candidate.
Retrieved(c) ==
  LET first == RetrievalBufferOffset + c.target
  IN [l \in Layers |-> [i \in first .. first + ChunkSize - 1 |->
        objects[c.record.key][l][i - first]]]

\* retrieve_verified.  A failed request may have written any of the targets.
RetrieveVerified ==
  /\ pc = "retrieve"
  /\ \E done \in SUBSET ToSet(cur.candidates) :
       /\ staging' = [l \in Layers |-> [i \in 0 .. Capacity - 1 |->
            LET here == {c \in done : i \in DOMAIN Retrieved(c)[l]}
            IN IF here = {} THEN staging[l][i] ELSE Retrieved(CHOOSE c \in here : TRUE)[l][i]]]
       /\ \/ done = ToSet(cur.candidates) /\ pc' = "scatter" /\ UNCHANGED <<cur, ready>>
          \/ LoadEnds("fallback") /\ ready' = FALSE
  /\ UNCHANGED <<config, mem, live, served, objects, sidecar, probe, evidence>>

-----------------------------------------------------------------------------
(* GptOssTransferEvidenceProbe.  A digest stands for the rows it is of.     *)

\* _canonical_spans: a layer's spans of every candidate, by their target.
CanonicalSpans(l) ==
  [i \in DOMAIN cur.candidates |->
     LayerSpans(config, cur.tables, LoadTransfer(cur.candidates[i]), l)]

\* _digest_views: what Row gives for each token of each span.
Digests(Row(_, _), spans) ==
  [i \in DOMAIN spans |-> [k \in DOMAIN spans[i] |->
     [j \in 1 .. TokenCount(spans[i][k]) |-> Row(spans[i][k], j)]]]

\* _paged_digests
PagedDigests(m, spans) ==
  Digests(LAMBDA s, j : m[Tensor(s.layer)][s.span.slot + j - 1], spans)

\* _staging_source_digests, after the correction.
StagingSourceDigests(spans) ==
  Digests(LAMBDA s, j : LET copies == PrepareScatterSpan(s)
                        IN [k |-> copies[1].rows[j], v |-> copies[2].rows[j]], spans)

\* The record loaded from position k * ChunkSize of the source.
SourceRecord(k) ==
  (CHOOSE c \in ToSet(cur.candidates) : c.record.source = k * ChunkSize).record

\* _source_prompt_tokens: the records continue one another from position zero;
\* a record that is loaded twice does not.
SourcePromptTokens ==
  [p \in 1 .. Len(cur.candidates) * ChunkSize |->
     SourceRecord((p - 1) \div ChunkSize).tokens[((p - 1) % ChunkSize) + 1]]
Contiguous ==
  \A k \in 0 .. Len(cur.candidates) - 1 :
    \E c \in ToSet(cur.candidates) : c.record.source = k * ChunkSize

\* begin_load, which refuses a second load and a source with gaps.
BeginLoad ==
  [spans |-> [l \in Layers |-> CanonicalSpans(l)],
   source |-> [l \in Layers |-> StagingSourceDigests(CanonicalSpans(l))],
   after_load |-> <<>>,
   prefill |-> [l \in Layers |-> <<>>]]

MayBegin == probe = <<>> /\ Contiguous

\* mark_load_complete
MarkLoadComplete(m) ==
  IF probe = <<>> THEN <<>>
  ELSE [probe EXCEPT !.after_load = [l \in Layers |-> PagedDigests(m, probe.spans[l])]]

-----------------------------------------------------------------------------
\* scatter_retrieved up to the first candidate: without a probe any sources will
\* do; a probe samples, or refuses and with it the load.
BeginScatter ==
  /\ pc = "scatter" /\ cur.n = 0
  /\ \/ /\ probing => MayBegin
        /\ probe' = IF probing THEN BeginLoad ELSE <<>>
        /\ cur' = [cur EXCEPT !.n = 1] /\ pc' = pc
     \/ probing /\ ~MayBegin /\ probe' = <<>> /\ LoadEnds("fallback")
  /\ UNCHANGED <<config, mem, staging, live, served, ready, objects, sidecar, evidence>>

\* One candidate: every correction and check precedes the first copy, and any
\* copy, or the synchronization after the last, may fail.
ScatterRetrieved ==
  /\ pc = "scatter" /\ cur.n > 0
  /\ LET copies == ScatterCopies(cur.candidates[cur.n]) IN
     \/ /\ mem' = Apply(mem, copies, Len(copies))
        /\ \/ /\ cur.n < Len(cur.candidates)
              /\ cur' = [cur EXCEPT !.n = @ + 1]
              /\ UNCHANGED <<pc, probe>>
           \/ /\ cur.n = Len(cur.candidates)
              /\ LoadEnds("succeeded")
              /\ probe' = MarkLoadComplete(mem')
     \/ /\ \E n \in 0 .. Len(copies) : mem' = Apply(mem, copies, n)
        /\ LoadEnds("fallback")
        /\ probe' = <<>>
  /\ UNCHANGED <<config, staging, live, served, ready, objects, sidecar, evidence>>

\* Mutant of SaveKvLayer: the hook runs before the layer has written its rows.
SaveKvLayerEarly(l, m) ==
  IF probe = <<>> THEN <<>>
  ELSE [probe EXCEPT !.prefill[l] = PagedDigests(mem, probe.spans[l])]

\* save_kv_layer and record_prefill_layer, after the layer's attention.
SaveKvLayer(l, m) ==
  IF probe = <<>> THEN <<>>
  ELSE [probe EXCEPT !.prefill[l] = PagedDigests(m, probe.spans[l])]

\* Mutant of ForwardLayer: the rows that were loaded are not recomputed.
ForwardLayerReuses ==
  /\ pc = "forward" /\ cur.n < NumLayers
  /\ LET loaded == IF cur.load # "succeeded" THEN {}
                   ELSE UNION {c.target .. c.target + ChunkSize - 1 : c \in ToSet(cur.candidates)}
         written == {p \in 0 .. Len(cur.prompt) - 1 : p \notin loaded}
     IN mem' = [mem EXCEPT ![Tensor(cur.n)] = [s \in Slots |->
          LET here == {p \in written : SlotOf(cur, cur.n, p) = s}
          IN IF here = {} THEN mem[Tensor(cur.n)][s]
             ELSE Computed(cur.prompt, cur.n, CHOOSE p \in here : TRUE)]]
  /\ probe' = SaveKvLayer(cur.n, mem')
  /\ cur' = [cur EXCEPT !.n = @ + 1]
  /\ UNCHANGED <<pc, config, staging, live, served, ready, objects, sidecar, evidence>>

\* The model recomputes every row of the prompt, layer by layer: the scheduler
\* was told of no external tokens.
ForwardLayer ==
  /\ pc = "forward" /\ cur.n < NumLayers
  /\ mem' = [mem EXCEPT ![Tensor(cur.n)] = [s \in Slots |->
       LET here == {p \in 0 .. Len(cur.prompt) - 1 : SlotOf(cur, cur.n, p) = s}
       IN IF here = {} THEN mem[Tensor(cur.n)][s]
          ELSE Computed(cur.prompt, cur.n, CHOOSE p \in here : TRUE)]]
  /\ probe' = SaveKvLayer(cur.n, mem')
  /\ cur' = [cur EXCEPT !.n = @ + 1]
  /\ UNCHANGED <<pc, config, staging, live, served, ready, objects, sidecar, evidence>>

-----------------------------------------------------------------------------
(* TransferRuntime.after_forward.                                           *)

\* Every return of after_forward, with the state of its outcome.
StoreEnds(state) == cur' = [cur EXCEPT !.store = state] /\ pc' = "finish"

AfterForward ==
  /\ pc = "forward" /\ cur.n = NumLayers
  /\ LET chunks == ChunkCount(cur.prompt)
         ok == Preflight({StoreTransfer(n) : n \in 1 .. chunks}, StoreBufferOffset,
                         chunks * ChunkSize)
     IN \/ chunks = 0 /\ StoreEnds("not_eligible")
        \/ chunks > 0 /\ ~ok /\ StoreEnds("fallback")
        \/ chunks > 0 /\ ok /\ pc' = "gather" /\ cur' = [cur EXCEPT !.n = 1]
  /\ UNCHANGED <<config, mem, staging, live, served, ready, objects, sidecar, probe, evidence>>

\* gather_recomputed, one chunk; a failure leaves part of it in staging.
GatherRecomputed ==
  /\ pc = "gather"
  /\ LET copies == GatherCopies(cur.n) IN
     \/ /\ staging' = Apply(staging, copies, Len(copies))
        /\ \/ cur.n < ChunkCount(cur.prompt) /\ cur' = [cur EXCEPT !.n = @ + 1] /\ pc' = pc
           \/ cur.n = ChunkCount(cur.prompt) /\ cur' = cur /\ pc' = "store"
     \/ /\ \E n \in 0 .. Len(copies) : staging' = Apply(staging, copies, n)
        /\ StoreEnds("fallback")
  /\ UNCHANGED <<config, mem, live, served, ready, objects, sidecar, probe, evidence>>

\* The server reads one chunk after another.
Stored ==
  LET Index(key) == Len(key) \div ChunkSize
  IN [key \in {Key(cur.prompt, n) : n \in 1 .. ChunkCount(cur.prompt)} |->
        [l \in Layers |-> [i \in 0 .. ChunkSize - 1 |->
           staging[l][StoreBufferOffset + (Index(key) - 1) * ChunkSize + i]]]]

\* It keeps the objects that it has.
WithStored ==
  [key \in DOMAIN objects \cup DOMAIN Stored |->
     IF key \in DOMAIN objects THEN objects[key] ELSE Stored[key]]

\* store_precomputed.  A request that fails may have been carried out.
StorePrecomputed ==
  /\ pc = "store"
  /\ \/ objects' = WithStored /\ pc' = "publish" /\ UNCHANGED <<cur, ready>>
     \/ objects' \in {objects, WithStored} /\ StoreEnds("fallback") /\ ready' = FALSE
  /\ UNCHANGED <<config, mem, staging, live, served, sidecar, probe, evidence>>

\* The records of the receipt, each checked against its chunk.
Records(prompt) ==
  {[tokens |-> Window(prompt, (n - 1) * ChunkSize), source |-> (n - 1) * ChunkSize,
    key |-> Key(prompt, n)] : n \in 1 .. ChunkCount(prompt)}

\* publish_sidecar_records_atomically
PublishSidecarRecords ==
  /\ pc = "publish"
  /\ \/ sidecar' = sidecar \cup Records(cur.prompt) /\ StoreEnds("succeeded")
     \/ sidecar' = sidecar /\ StoreEnds("fallback")
  /\ UNCHANGED <<config, mem, staging, live, served, ready, objects, probe, evidence>>

-----------------------------------------------------------------------------
(* The end of wait_for_save.                                                *)

\* LayerTransferEvidence: what finish samples once more agrees with what was
\* sampled before, layer by layer.
LayersAgree ==
  \A l \in Layers :
    /\ probe.after_load[l] = probe.source[l]
    /\ PagedDigests(mem, probe.spans[l]) = probe.prefill[l]

\* TransferEvidence, with its segments by their source.
Evidence ==
  [source_prompt |-> SourcePromptTokens,
   target_prompt |-> cur.prompt,
   loaded_tokens |-> Len(cur.candidates) * ChunkSize,
   recomputed_tokens |-> Len(cur.prompt),
   segments |-> ToSet(cur.candidates),
   prefill |-> probe.prefill]

\* wait_for_save finishes a probe only after a load and a store.
Concludes == probing /\ cur.load = "succeeded" /\ cur.store = "succeeded"

\* The file is created, never replaced: finish raises when it is there, or when
\* the samples disagree, and that ends the engine.
WaitForSave ==
  /\ pc = "finish"
  /\ \/ /\ Concludes /\ probe # <<>>
        /\ \/ /\ LayersAgree /\ evidence = <<>>
              /\ evidence' = Evidence
              /\ probe' = <<>> /\ pc' = "idle"
           \/ /\ ~LayersAgree \/ evidence # <<>>
              /\ pc' = "stopped" /\ UNCHANGED <<probe, evidence>>
     \/ ~(Concludes /\ probe # <<>>) /\ probe' = <<>> /\ evidence' = evidence /\ pc' = "idle"
  /\ live' = live \cup {[prompt |-> cur.prompt, tables |-> cur.tables]}
  /\ cur' = <<>>
  /\ UNCHANGED <<config, mem, staging, served, ready, objects, sidecar>>

\* A request is finished and its blocks are free for the next.
Release(r) ==
  /\ pc = "idle" /\ served < MaxRequests
  /\ live' = live \ {r}
  /\ UNCHANGED <<pc, config, mem, staging, cur, served, ready, objects, sidecar,
                 probe, evidence>>

\* The engine has ended, or the bound on requests is spent.
Stopped ==
  /\ pc = "stopped" \/ (pc = "idle" /\ served = MaxRequests)
  /\ UNCHANGED vars

WorkerStep ==
  \/ BeforeForward \/ RetrieveVerified \/ BeginScatter \/ ScatterRetrieved
  \/ ForwardLayer \/ AfterForward \/ GatherRecomputed \/ StorePrecomputed
  \/ PublishSidecarRecords \/ WaitForSave

EngineStep ==
  \/ \E c \in KvCacheConfigs : RegisterKvCaches(c)
  \/ \E prompt \in Prompts, tables \in Allocations : \E candidates \in Selected(prompt) :
       Schedule(prompt, tables, candidates)
  \/ WorkerStep
  \/ \E r \in live : Release(r)
  \/ Stopped

\* The configuration stays as it is.
Next == EngineStep /\ UNCHANGED probing

Spec == Init /\ [][Next]_vars

-----------------------------------------------------------------------------
(* Properties.                                                              *)

PCs == {"start", "idle", "before_forward", "retrieve", "scatter", "forward", "gather",
        "store", "publish", "finish", "stopped"}
Attempts == {"none", "not_eligible", "fallback", "succeeded"}

\* The shape of the state; blocks are never held by two requests.
TypeOK ==
  /\ probing \in BOOLEAN /\ pc \in PCs /\ served \in 0 .. MaxRequests /\ ready \in BOOLEAN
  /\ \A r, s \in live : r # s => BlocksHeld(r) \cap BlocksHeld(s) = {}
  /\ cur # <<>> => cur.load \in Attempts /\ cur.store \in Attempts
  /\ \A t \in Tensors : DOMAIN mem[t] = Slots
  /\ \A l \in Layers : DOMAIN staging[l] = 0 .. Capacity - 1

\* After a load, every row of a target is the stored row of its token in every
\* layer, the key rotated to the position the row has in this prompt, wherever
\* chunks and blocks begin, in whichever order vLLM lists its groups, and from
\* wherever in its own prompt the chunk was stored: without a probe, no source is
\* refused.
LoadedRowsAreCorrected ==
  (pc = "forward" /\ cur.n = 0 /\ cur.load = "succeeded") =>
    \A c \in ToSet(cur.candidates), l \in Layers, i \in 0 .. ChunkSize - 1 :
      LET row == mem[Tensor(l)][SlotOf(cur, l, c.target + i)]
          stored == Computed(c.record.key, l, c.record.source + i)
      IN /\ row.v = stored.v
         /\ row.k = [stored.k EXCEPT !.pos = c.target + i]
         /\ c.record.key[c.record.source + i + 1] = cur.prompt[c.target + i + 1]

\* The rows of requests that are still decoding are never touched, although all
\* requests and both groups share the tensors and a copy may fail anywhere.
ForeignRowsUntouched ==
  /\ TypeOK
  /\ \A r \in live : \A l \in Layers, p \in 0 .. Len(r.prompt) - 1 :
       mem[Tensor(l)][SlotOf(r, l, p)] = Computed(r.prompt, l, p)

\* What the server stores under a key is what an ordinary prefill of its tokens
\* computes: rows of another prompt never get back into the cache, even after
\* a load that succeeded or broke off half way.
StoredRowsAreComputed ==
  \A key \in DOMAIN objects, l \in Layers, i \in 0 .. ChunkSize - 1 :
    objects[key][l][i] = Computed(key, l, Len(key) - ChunkSize + i)

\* The probe never ends an engine whose transfer went right, and the evidence it
\* leaves is of a prompt that was loaded, recomputed and published.
EvidenceIsTrue ==
  /\ (pc = "finish" /\ Concludes /\ probe # <<>>) => LayersAgree
  /\ evidence # <<>> =>
       /\ evidence.recomputed_tokens = Len(evidence.target_prompt)
       /\ Len(evidence.source_prompt) = evidence.loaded_tokens
       /\ Records(evidence.target_prompt) \subseteq sidecar
       /\ \A c \in evidence.segments : c.record \in sidecar
       /\ \A l \in Layers : \A span \in UNION {ToSet(spans) : spans \in ToSet(evidence.prefill[l])} :
            ToSet(span) \subseteq {Computed(evidence.target_prompt, l, p) :
                                    p \in 0 .. Len(evidence.target_prompt) - 1}
=============================================================================
