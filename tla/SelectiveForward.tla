-------------------------- MODULE SelectiveForward --------------------------
(***************************************************************************)
(* One prompt forward that writes only the rows of its plan into the paged *)
(* cache (gpt_oss/selective_kv.py, selective_attention.py,                 *)
(* selective_runtime.py, forward_output.py).  The plan is bound to the     *)
(* worker's context around the forward; each layer first updates the cache *)
(* through GptOssSelectiveKvSession and then attends to it; a receipt is   *)
(* given out only at the end of all layers.                                *)
(*                                                                         *)
(* A row is [by, layer, pos]: nothing, a verified and corrected row of the *)
(* cache, or what the model computed.  The model, its attention and the    *)
(* slot mappings that vLLM passes are external.                            *)
(***************************************************************************)
EXTENDS SelectionPolicy

CONSTANTS Inputs,      \* prompts to select for: [n, cached, scores, suffix, tables]
          Ratios,      \* sequences of ratios to sweep
          KvConfig,    \* the registered KVCacheConfig
          MaxForwards  \* bound: forwards started

\* What vLLM registers and prepares: a KVCacheConfig that adapt_kv_cache_config
\* takes, and for a prompt a score for each row and the block tables of one
\* request, whose groups share no block.
ASSUME SelectiveAssumption ==
  /\ KvConfig \in Seq([kind : {"sliding", "full"}, layers : Seq(Nat), block_size : Nat])
  /\ ValidKvCacheConfig(KvConfig)
  /\ Ratios \subseteq Seq([num : Nat, den : Nat \ {0}])
  /\ \A in \in Inputs :
       /\ in.n \in Nat /\ in.suffix \in Nat
       /\ in.cached \in Seq([start : Nat, end : Nat])
       /\ in.scores \in [0 .. in.n - 1 -> Nat]
       /\ in.tables \in Seq(Seq(Nat)) /\ ValidKvCacheBlocks(in.tables)
       /\ ToSet(in.tables[1]) \cap ToSet(in.tables[2]) = {}

VARIABLES
  pc,       \* "idle", "forward" or "returned"
  sweep,    \* the SelectionSweep at hand
  artifact, \* the artifact's file: whether it exists, of which points, and whether
            \* all of their bytes are in it or a part of them, perhaps none
  written,  \* the sweep of which write_selection_sweep returned, or <<>>
  input,    \* what the sweep was made for
  plan,     \* SelectiveWritePlan: the row plan and its spans
  active,   \* _ACTIVE_PLAN
  mem,      \* paged memory: tensor -> slot -> [k, v]
  session,  \* GptOssSelectiveKvSession
  bridge,   \* SelectiveAttentionBridge
  attended, \* layer -> the rows its attention read, <<>> before
  receipt,  \* SelectiveUpdateReceipt, <<>> without one
  result,   \* what SelectiveForwardBridge.run gave back
  forwards

forwardVars == <<pc, sweep, artifact, written, input, plan, active, mem, session, bridge,
                 attended, receipt, result, forwards>>
policyVars == <<sweep, artifact, written, input>>

-----------------------------------------------------------------------------
(* Rows and spans.                                                          *)

Tensor(l) == l \div 2
Slots == 0 .. NumBlocks * BlockSize - 1
Row(by, l, p) == [by |-> by, layer |-> l, pos |-> p]
Blank == [k |-> Row("none", 0, 0), v |-> Row("none", 0, 0)]

SlotOf(in, l, p) ==
  in.tables[GroupOf(KvConfig, l)][(p \div BlockSize) + 1] * BlockSize + (p % BlockSize)

\* The cache when a forward starts: RowTransfer loaded the verified ranges.
Prepared(in) ==
  [t \in {Tensor(l) : l \in Layers} |-> [s \in Slots |->
     LET here == {h \in Layers \X RowsOf(in.cached) : Tensor(h[1]) = t /\ SlotOf(in, h[1], h[2]) = s}
     IN IF here = {} THEN Blank
        ELSE LET at == CHOOSE h \in here : TRUE
             IN [k |-> Row("cache", at[1], at[2]), v |-> Row("cache", at[1], at[2])]]]

\* The part of a span in one range, empty if there is none.
Cut(s, r) == TokenRange(Max({s.span.target.start, r.start}), Min({s.span.target.end, r.end}))

\* Mutant of Part: the slot of the whole span is kept.
PartKeepsSlot(s, cut) ==
  LET offset == cut.start - s.span.target.start
  IN [s EXCEPT !.span = [source |-> TokenRange(s.span.source.start + offset,
                           s.span.source.start + offset + cut.end - cut.start),
                         target |-> cut, slot |-> s.span.slot]]

Part(s, cut) ==
  LET offset == cut.start - s.span.target.start
  IN [s EXCEPT !.span = [source |-> TokenRange(s.span.source.start + offset,
                           s.span.source.start + offset + cut.end - cut.start),
                         target |-> cut, slot |-> s.span.slot + offset]]

\* _split_span: the parts of a span inside the ranges that are computed again.
SplitSpan(s, ranges) ==
  {Part(s, Cut(s, r)) : r \in {r \in ToSet(ranges) : Cut(s, r).start < Cut(s, r).end}}

\* plan_selective_kv_writes, with _validate_group_span and
\* _validate_layer_coverage: the spans of the whole prompt, and the parts written.
Whole(in) == TokenTransfer(0, 0, in.n)
FullSpans(in) == PlanTokenScatter(KvConfig, in.tables, Whole(in))
CanPlanWrites(in, rows) ==
  /\ in.n > 0 /\ rows.n = in.n /\ ValidRowPlan(rows)
  /\ TablesCover(in.tables, Whole(in)) /\ ValidSpans(FullSpans(in), Whole(in))
PlanSelectiveKvWrites(in, rows) ==
  LET full == ToSet(FullSpans(in))
  IN [rows |-> rows, full |-> full,
      spans |-> UNION {SplitSpan(s, rows.layers[s.layer]) : s \in full}]

SpansForLayer(spans, l) == {s \in spans : s.layer = l}

\* validate_slot_mapping: one slot per row, each the one of the plan.
ValidSlotMapping(writes, l, slots) ==
  /\ Len(slots) = writes.rows.n
  /\ \A s \in SpansForLayer(writes.full, l) :
       \A i \in 0 .. TokenCount(s) - 1 : slots[s.span.target.start + i + 1] = s.span.slot + i

\* vLLM's slot mapping of a layer, or one with a padded, missing or misplaced slot.
SlotMapping(l) == [i \in 1 .. input.n |-> SlotOf(input, l, i - 1)]
SlotMappings(l) ==
  {SlotMapping(l), Append(SlotMapping(l), 0), Tail(SlotMapping(l)), Reverse(SlotMapping(l)),
   [SlotMapping(l) EXCEPT ![1] = NumBlocks * BlockSize]}

\* _prepare_layer: a copy of keys and one of values for each span written.
PrepareLayer(writes, l) == [comp : {"k", "v"}, s : SpansForLayer(writes.spans, l)]

\* The order of copies: by layer and position, the keys of a span first.
Earlier(c, d) ==
  \/ c.s.layer < d.s.layer
  \/ c.s.layer = d.s.layer /\ c.s.span.target.start < d.s.span.target.start
  \/ c.s = d.s /\ c.comp = "k" /\ d.comp = "v"

\* What is done when copies break off before one of them, or not at all.
Broken(copies) == {{d \in copies : Earlier(d, c)} : c \in copies} \cup {copies}

Writes(c, t, slot, comp) == Tensor(c.s.layer) = t /\ slot \in SlotsOf(c.s) /\ c.comp = comp
Written(c, slot) == Row("model", c.s.layer, c.s.span.target.start + slot - c.s.span.slot)

\* Memory after some copies: a row holds what was last copied there.
Apply(m, done) ==
  [t \in DOMAIN m |-> [slot \in Slots |-> [comp \in {"k", "v"} |->
     LET here == {c \in done : Writes(c, t, slot, comp)}
     IN IF here = {} THEN m[t][slot][comp]
        ELSE Written(CHOOSE c \in here : \A d \in here \ {c} : Earlier(d, c), slot)]]]

Receipt(writes, rows) ==
  [recomputed |-> rows, cached |-> (writes.rows.n * NumLayers) - RecomputeTokens(writes.rows)]

-----------------------------------------------------------------------------
(* The sweep and its artifact.                                              *)

NewSession == [next |-> 0, failed |-> FALSE, finished |-> FALSE, rows |-> 0]
NewBridge == [next |-> 0, failed |-> FALSE, finished |-> FALSE]
NoPlan == [rows |-> FullRecompute(0), full |-> {}, spans |-> {}]

ForwardInit ==
  /\ pc = "idle" /\ sweep = <<>> /\ written = <<>>
  /\ artifact = [exists |-> FALSE, points |-> <<>>, whole |-> FALSE]
  /\ input \in Inputs
  /\ plan = NoPlan /\ active = <<>> /\ mem = Prepared(input)
  /\ session = NewSession /\ bridge = NewBridge
  /\ attended = [l \in Layers |-> <<>>]
  /\ receipt = <<>> /\ result = "none" /\ forwards = 0

\* CacheBlendSelectionPolicy.sweep; nothing changes when it raises.
MakeSweep(ratios) ==
  /\ pc = "idle" /\ sweep = <<>>
  /\ \A i \in DOMAIN ratios : ValidSelection(input, ratios[i])
  /\ ValidSweep(Sweep(input, ratios))
  /\ sweep' = Sweep(input, ratios)
  /\ UNCHANGED <<pc, artifact, written, input, plan, active, mem, session, bridge, attended,
                 receipt, result, forwards>>

\* with_measurements, or a SelectionSweep of which the first point is measured.
Measure ==
  /\ pc = "idle" /\ sweep # <<>>
  /\ sweep' \in {WithMeasurements(sweep), [sweep EXCEPT ![1].measured = TRUE]}
  /\ UNCHANGED <<pc, artifact, written, input, plan, active, mem, session, bridge, attended,
                 receipt, result, forwards>>

\* Mutant of WriteSweep: the file is opened with "wb" and not with "xb".
WriteSweepAgain ==
  /\ pc = "idle" /\ sweep # <<>>
  /\ \E whole, returns \in BOOLEAN :
       /\ whole => AcceptsSweep(sweep)
       /\ returns => whole
       /\ artifact' = [exists |-> TRUE, points |-> sweep, whole |-> whole]
       /\ written' = IF returns THEN sweep ELSE written
  /\ UNCHANGED <<pc, sweep, input, plan, active, mem, session, bridge, attended, receipt,
                 result, forwards>>

\* write_selection_sweep: the file is created before the sweep is validated, and
\* stays behind, empty, when that refuses it; when the write or the close fails,
\* with any part of the bytes.
WriteSweep ==
  /\ pc = "idle" /\ sweep # <<>> /\ ~artifact.exists
  /\ \E whole, returns \in BOOLEAN :
       /\ whole => AcceptsSweep(sweep)
       /\ returns => whole
       /\ artifact' = [exists |-> TRUE, points |-> sweep, whole |-> whole]
       /\ written' = IF returns THEN sweep ELSE written
  /\ UNCHANGED <<pc, sweep, input, plan, active, mem, session, bridge, attended, receipt,
                 result, forwards>>

\* read_selection_sweep: no sweep when the file is no JSON or its sweep is refused.
ReadSelectionSweep ==
  IF artifact.whole /\ AcceptsSweep(artifact.points) THEN artifact.points ELSE <<>>

-----------------------------------------------------------------------------
(* The forward.                                                             *)

\* SelectiveForwardBridge.run up to forward(), with a session of the backend for
\* the plan: ForwardRowPlanContext.bind refuses while another plan is bound.
StartForward(rows) ==
  /\ pc # "forward" /\ forwards < MaxForwards
  /\ active = <<>>
  /\ CanPlanWrites(input, rows)
  /\ plan' = PlanSelectiveKvWrites(input, rows)
  /\ active' = rows /\ pc' = "forward" /\ forwards' = forwards + 1
  /\ mem' = Prepared(input) /\ session' = NewSession /\ bridge' = NewBridge
  /\ attended' = [l \in Layers |-> <<>>] /\ receipt' = <<>> /\ result' = "none"
  /\ UNCHANGED policyVars

\* GptOssSelectiveModelAdapter.run: without token ids or positions, or with
\* prompt embeddings, no forward starts.
RefuseInputs ==
  /\ pc # "forward" /\ result # "refused"
  /\ result' = "refused"
  /\ UNCHANGED <<pc, policyVars, plan, active, mem, session, bridge, attended, receipt, forwards>>

Live(s) == ~s.failed /\ ~s.finished

\* run_layer: a call out of order, without sinks or without an attention to
\* call ends the bridge before its session is asked.
RefuseLayer ==
  /\ pc = "forward" /\ Live(bridge)
  /\ bridge' = [bridge EXCEPT !.failed = TRUE]
  /\ UNCHANGED <<pc, policyVars, plan, active, mem, session, attended, receipt, result, forwards>>

\* update_layer: refused by its session, by its preflight, or broken off between
\* two copies; what was copied stays.
UpdateFails(l) ==
  /\ pc = "forward" /\ Live(bridge) /\ l = bridge.next
  /\ \E done \in Broken(PrepareLayer(plan, l)) \cup {{}} :
       /\ done # {} => Live(session) /\ l = session.next /\ ValidSlotMapping(plan, l, SlotMapping(l))
       /\ mem' = Apply(mem, done)
  /\ session' = [session EXCEPT !.failed = @ \/ Live(session)]
  /\ bridge' = [bridge EXCEPT !.failed = TRUE]
  /\ UNCHANGED <<pc, policyVars, plan, active, attended, receipt, result, forwards>>

\* The rows of a layer that its attention reads.
ReadBy(m, l) == [p \in 0 .. input.n - 1 |-> m[Tensor(l)][SlotOf(input, l, p)]]

\* Mutant of RunLayer: attention goes before the update.
RunLayerAttendsFirst(l, slots, ok) ==
  /\ pc = "forward" /\ Live(bridge) /\ l = bridge.next
  /\ Live(session) /\ l = session.next /\ ValidSlotMapping(plan, l, slots)
  /\ mem' = Apply(mem, PrepareLayer(plan, l))
  /\ session' = [session EXCEPT !.next = @ + 1,
                   !.rows = @ + Cardinality(RowsOf(plan.rows.layers[l]))]
  /\ attended' = [attended EXCEPT ![l] = ReadBy(mem, l)]
  /\ bridge' = IF ok THEN [bridge EXCEPT !.next = @ + 1] ELSE [bridge EXCEPT !.failed = TRUE]
  /\ UNCHANGED <<pc, policyVars, plan, active, receipt, result, forwards>>

\* run_layer: the update, then attention, which may fail after it.
RunLayer(l, slots, ok) ==
  /\ pc = "forward" /\ Live(bridge) /\ l = bridge.next
  /\ Live(session) /\ l = session.next /\ ValidSlotMapping(plan, l, slots)
  /\ mem' = Apply(mem, PrepareLayer(plan, l))
  /\ session' = [session EXCEPT !.next = @ + 1,
                   !.rows = @ + Cardinality(RowsOf(plan.rows.layers[l]))]
  /\ attended' = [attended EXCEPT ![l] = ReadBy(mem', l)]
  /\ bridge' = IF ok THEN [bridge EXCEPT !.next = @ + 1] ELSE [bridge EXCEPT !.failed = TRUE]
  /\ UNCHANGED <<pc, policyVars, plan, active, receipt, result, forwards>>

\* Mutant of Finish: the session is not asked whether it is still alive.
FinishRegardless ==
  /\ pc # "idle" /\ ~bridge.finished
  /\ session' = [session EXCEPT !.finished = TRUE]
  /\ bridge' = [bridge EXCEPT !.finished = TRUE]
  /\ receipt' = Receipt(plan, session.rows)
  /\ UNCHANGED <<pc, policyVars, plan, active, mem, attended, result, forwards>>

\* SelectiveAttentionBridge.finish and the session's.
Finish ==
  /\ pc # "idle" /\ Live(bridge)
  /\ IF bridge.next # NumLayers
       THEN bridge' = [bridge EXCEPT !.failed = TRUE] /\ UNCHANGED <<session, receipt>>
       ELSE IF Live(session) /\ session.next = NumLayers
              THEN /\ session' = [session EXCEPT !.finished = TRUE]
                   /\ bridge' = [bridge EXCEPT !.finished = TRUE]
                   /\ receipt' = Receipt(plan, session.rows)
              ELSE /\ session' = [session EXCEPT !.failed = @ \/ Live(session)]
                   /\ bridge' = [bridge EXCEPT !.failed = TRUE] /\ UNCHANGED receipt
  /\ UNCHANGED <<pc, policyVars, plan, active, mem, attended, result, forwards>>

\* GptOssSelectiveKvUpdater.update, outside of any forward: every layer is
\* prepared before the first copy, and the copies may break off.
UpdateAll(rows) ==
  /\ pc # "forward" /\ forwards < MaxForwards /\ CanPlanWrites(input, rows)
  /\ plan' = PlanSelectiveKvWrites(input, rows)
  /\ LET copies == UNION {PrepareLayer(plan', l) : l \in Layers}
     IN \E done \in Broken(copies) \cup {{}} :
          /\ done # {} => \A l \in Layers : ValidSlotMapping(plan', l, SlotMapping(l))
          /\ mem' = Apply(Prepared(input), done)
          /\ receipt' \in {<<>>, Receipt(plan', RecomputeTokens(rows))}
          /\ receipt' # <<>> => done = copies
  /\ pc' = "idle" /\ forwards' = forwards + 1
  /\ session' = NewSession /\ bridge' = NewBridge
  /\ attended' = [l \in Layers |-> <<>>] /\ result' = "none"
  /\ UNCHANGED <<policyVars, active>>

\* ForwardOutputContract.validate: as many rows as the runner prepared, and
\* indices of rows among them, rising.
ValidOutput(rows, logits) ==
  /\ rows = input.n
  /\ \A i \in DOMAIN logits : logits[i] < rows /\ (i > 1 => logits[i - 1] < logits[i])

\* The rest of SelectiveForwardBridge.run: the context is left in every case,
\* then the output is validated.
EndForward(raises, rows, logits) ==
  /\ pc = "forward" /\ pc' = "returned"
  /\ active' = <<>>
  /\ result' = IF raises THEN "failed" ELSE IF ValidOutput(rows, logits) THEN "ok" ELSE "invalid"
  /\ UNCHANGED <<policyVars, plan, mem, session, bridge, attended, receipt, forwards>>
=============================================================================
