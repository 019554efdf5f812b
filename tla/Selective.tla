------------------------------ MODULE Selective ------------------------------
(***************************************************************************)
(* The dormant parts of selective recomputation: the registration of the   *)
(* extension, the artifact of a sweep, and forwards with plans of the      *)
(* selection policy.  Nothing in the repository joins them yet, so a       *)
(* behaviour is about one of them.                                         *)
(***************************************************************************)
EXTENDS SelectiveForward, SelectiveRegistry

VARIABLE part   \* which of them this behaviour is about

vars == <<forwardVars, registryVars, part>>

Init == ForwardInit /\ RegistryInit /\ part \in {"registry", "artifact", "forward"}

RowPlans == {sweep[i].plan : i \in DOMAIN sweep} \cup {FullRecompute(input.n)}

ForwardNext ==
  \/ RefuseInputs \/ RefuseLayer \/ Finish
  \/ \E rows \in RowPlans : StartForward(rows) \/ UpdateAll(rows)
  \/ \E l \in Layers :
       UpdateFails(l) \/ \E slots \in SlotMappings(l), ok \in BOOLEAN : RunLayer(l, slots, ok)
  \/ \E raises \in BOOLEAN, rows \in {input.n, input.n - 1}, logits \in {<<>>, <<0, 1>>, <<input.n>>, <<0, 0>>} :
       EndForward(raises, rows, logits)

Next ==
  \/ part = "registry" /\ RegistryNext /\ UNCHANGED <<forwardVars, part>>
  \/ part # "registry" /\ (\E ratios \in Ratios : MakeSweep(ratios)) /\ UNCHANGED <<registryVars, part>>
  \/ part = "artifact" /\ (Measure \/ WriteSweep) /\ UNCHANGED <<registryVars, part>>
  \/ part = "forward" /\ ForwardNext /\ UNCHANGED <<registryVars, part>>

Spec == Init /\ [][Next]_vars

-----------------------------------------------------------------------------
(* Properties of the forward.                                               *)

Recomputed(l) == RowsOf(plan.rows.layers[l])
RowWanted(l, p) == Row(IF p \in Recomputed(l) THEN "model" ELSE "cache", l, p)

\* ONLY PLANNED ROWS ARE WRITTEN.  At every moment, in the middle of a layer that
\* broke off and after it, a slot that differs from what the cache held before
\* holds the row of its own layer and position, and that row is one the plan
\* recomputes: no verified row, no row of another layer and no block of another
\* request is ever written (_split_span, validate_slot_mapping).
OnlyPlannedRowsWritten ==
  LET before == Prepared(input)
  IN mem # before =>
       \A t \in DOMAIN mem, s \in Slots, c \in {"k", "v"} :
         mem[t][s][c] # before[t][s][c] =>
           \E l \in Layers : \E p \in Recomputed(l) :
             Tensor(l) = t /\ SlotOf(input, l, p) = s /\ mem[t][s][c] = Row("model", l, p)

\* A RECEIPT IS TRUE.  Where a receipt was given out, by a session or by the
\* all-layer update, every row of every layer is what the plan says, keys and
\* values, and the receipt counts them; nothing failed before it
\* (GptOssSelectiveKvSession.finish, SelectiveAttentionBridge.finish).
ReceiptIsTrue ==
  receipt # <<>> =>
    /\ ~session.failed /\ ~bridge.failed
    /\ \A l \in Layers, p \in 0 .. input.n - 1 :
         LET row == mem[Tensor(l)][SlotOf(input, l, p)]
         IN row.k = RowWanted(l, p) /\ row.v = RowWanted(l, p)
    /\ receipt.recomputed = Cardinality({h \in Layers \X (0 .. input.n - 1) : h[2] \in Recomputed(h[1])})
    /\ receipt.recomputed + receipt.cached = NumLayers * input.n

\* ATTENTION READS BLENDED ROWS.  Whatever attention read in a layer, also in a
\* forward that failed later, were the fresh rows of the plan and verified rows
\* of the cache, never a row left over in the block (run_layer's order, and a
\* policy that recomputes every row without a verified one).  And the plan it
\* reads them by is bound exactly while its own forward runs, whether that
\* returns, raises or gives a wrong output (ForwardRowPlanContext.bind,
\* SelectiveForwardBridge.run).
AttentionReadsBlendedRows ==
  /\ \A l \in Layers : attended[l] # <<>> =>
       \A p \in DOMAIN attended[l] :
         attended[l][p].k = RowWanted(l, p) /\ attended[l][p].v = RowWanted(l, p)
  /\ active = IF pc = "forward" THEN plan.rows ELSE <<>>

\* SELECTION IS BY RANK.  At every ratio of a sweep the rows left to the cache are
\* exactly the verified rows outside the suffix that as many others as the budget
\* has room for precede in the order of scores; hence rows without verified KV
\* are recomputed at every ratio, and a lower ratio recomputes no other rows
\* (CacheBlendSelectionPolicy.select).
SelectionIsByRank ==
  \A i \in DOMAIN sweep :
    LET kept == {p \in Eligible(input) :
                   Cardinality({q \in Eligible(input) : Ahead(input, q, p)}) >= Budget(input, sweep[i].ratio)}
    IN /\ RowsOf(sweep[i].recompute) = (0 .. input.n - 1) \ kept
       /\ i > 1 => RowsOf(sweep[i].recompute) \subseteq RowsOf(sweep[i - 1].recompute)

\* SWEEPS CAN BE READ BACK.  The artifact's reader, which works every point out
\* again, accepts each sweep the policy makes, without measurements and with them
\* (selection_sweep_from_dict); and once a write has returned the file gives that
\* very sweep, whatever is measured or written afterwards and although other
\* writes leave a file that cannot be read (write_selection_sweep).
SweepsCanBeRead ==
  /\ sweep # <<>> => \A m \in BOOLEAN :
       AcceptsSweep([i \in DOMAIN sweep |-> [sweep[i] EXCEPT !.measured = m]])
  /\ written # <<>> => ReadSelectionSweep = written
=============================================================================
