------------------------------- MODULE Layout -------------------------------
(***************************************************************************)
(* Where the rows of a prompt live (gpt_oss/layout.py, adapters.py).       *)
(* vLLM keeps GPT-OSS in two cache groups, the sliding-window layers (even *)
(* indexes) and the full-attention layers (odd ones), each with a block    *)
(* table of its own for every request.  A transfer from a source range to  *)
(* a target range of equal length becomes, for every layer, one span per   *)
(* block of its group's table that the target touches.                     *)
(*                                                                         *)
(* Token ranges are records with "start" and "end", the end excluded.      *)
(* Positions, block offsets and slots count from zero, tables and groups   *)
(* (Len 2) from one.                                                       *)
(***************************************************************************)
EXTENDS Naturals, Sequences, FiniteSets, SequencesExt

CONSTANTS NumLayers,   \* GPT_OSS_NUM_LAYERS
          BlockSize,   \* GPT_OSS_BLOCK_SIZE
          NumBlocks    \* KVCacheConfig.num_blocks; block 0 is vLLM's null block

ASSUME LayoutAssumption ==
  NumLayers \in Nat \ {0} /\ BlockSize \in Nat \ {0} /\ NumBlocks \in Nat \ {0}

Layers == 0 .. NumLayers - 1
NullBlock == 0

\* A layer's attention kind by the parity of its index.
AttentionKind(l) == IF l % 2 = 0 THEN "sliding" ELSE "full"

\* GptOssHybridCacheLayout: one group of each kind, every layer in the group of
\* its kind and in no other.  A config of vLLM is a sequence of
\* [kind, layers, block_size], in any order of its groups.
ValidLayout(config) ==
  /\ Len(config) = 2
  /\ {config[g].kind : g \in DOMAIN config} = {"sliding", "full"}
  /\ \A g \in DOMAIN config : \A l \in ToSet(config[g].layers) : config[g].kind = AttentionKind(l)
  /\ UNION {ToSet(config[g].layers) : g \in DOMAIN config} = Layers

\* adapt_kv_cache_config: the shape of each group, and the layout behind it.
ValidKvCacheConfig(config) ==
  /\ \A g \in DOMAIN config :
       config[g].block_size = BlockSize /\ IsInjective(config[g].layers)
  /\ ValidLayout(config)

\* GptOssHybridCacheLayout.layer: the group of a layer.
GroupOf(config, l) == CHOOSE g \in DOMAIN config : l \in ToSet(config[g].layers)

\* adapt_kv_cache_blocks: the block ids of each group, copied from vLLM.
ValidKvCacheBlocks(tables) ==
  /\ Len(tables) = 2
  /\ \A g \in DOMAIN tables :
       /\ IsInjective(tables[g])
       /\ \A b \in ToSet(tables[g]) : b < NumBlocks /\ b # NullBlock

\* TokenTransfer: both ranges are as long, and not empty.
TokenTransfer(source, target, n) ==
  [source |-> [start |-> source, end |-> source + n],
   target |-> [start |-> target, end |-> target + n]]

\* The logical blocks that a transfer's target begins and ends in.
FirstBlock(transfer) == transfer.target.start \div BlockSize
LastBlock(transfer) == (transfer.target.end - 1) \div BlockSize
BlocksTouched(transfer) == LastBlock(transfer) - FirstBlock(transfer) + 1

\* _validated_tables: every table reaches to the last row of the target.
TablesCover(tables, transfer) ==
  \A g \in DOMAIN tables : LastBlock(transfer) < Len(tables[g])

\* Mutant of ScatterGroup: the logical block is taken for the physical one.
ScatterGroupLogical(table, transfer) ==
  [i \in 1 .. BlocksTouched(transfer) |->
    LET block == FirstBlock(transfer) + i - 1
        start == Max({transfer.target.start, block * BlockSize})
        end == Min({transfer.target.end, (block + 1) * BlockSize})
        source == transfer.source.start + start - transfer.target.start
    IN [source |-> [start |-> source, end |-> source + end - start],
        target |-> [start |-> start, end |-> end],
        slot |-> block * BlockSize + (start % BlockSize)]]

\* _scatter_group: the part of the target in each of the blocks it touches.
ScatterGroup(table, transfer) ==
  [i \in 1 .. BlocksTouched(transfer) |->
    LET block == FirstBlock(transfer) + i - 1
        start == Max({transfer.target.start, block * BlockSize})
        end == Min({transfer.target.end, (block + 1) * BlockSize})
        source == transfer.source.start + start - transfer.target.start
    IN [source |-> [start |-> source, end |-> source + end - start],
        target |-> [start |-> start, end |-> end],
        slot |-> table[block + 1] * BlockSize + (start % BlockSize)]]

\* LayerTokenScatterSpan: the spans of one layer, in the order of the target.
LayerSpans(config, tables, transfer, l) ==
  LET spans == ScatterGroup(tables[GroupOf(config, l)], transfer)
  IN [k \in DOMAIN spans |-> [layer |-> l, span |-> spans[k]]]

\* plan_token_scatter: the spans of every layer, in the order of the layers.
\* Blocks are as large in both groups, so every layer has as many.
PlanTokenScatter(config, tables, transfer) ==
  LET perLayer == BlocksTouched(transfer)
  IN [i \in 1 .. NumLayers * perLayer |->
        LayerSpans(config, tables, transfer, (i - 1) \div perLayer)[((i - 1) % perLayer) + 1]]

TokenCount(s) == s.span.target.end - s.span.target.start
SlotsOf(s) == s.span.slot .. s.span.slot + TokenCount(s) - 1

\* _validate_spans: the spans of each layer cover the same range without a gap,
\* each within one block, no slot written twice.
ValidSpans(spans, transfer) ==
  /\ {spans[i].layer : i \in DOMAIN spans} = Layers
  /\ \A i \in DOMAIN spans :
       /\ SlotsOf(spans[i]) # {}
       /\ (spans[i].span.slot % BlockSize) + TokenCount(spans[i]) <= BlockSize
       /\ spans[i].span.source.start - transfer.source.start
            = spans[i].span.target.start - transfer.target.start
  /\ \A l \in Layers :
       LET mine == SelectSeq(spans, LAMBDA s : s.layer = l)
       IN /\ mine[1].span.target.start = transfer.target.start
          /\ Last(mine).span.target.end = transfer.target.end
          /\ \A i \in 1 .. Len(mine) - 1 :
               mine[i].span.target.end = mine[i + 1].span.target.start
          /\ \A i, j \in DOMAIN mine : i # j => SlotsOf(mine[i]) \cap SlotsOf(mine[j]) = {}
=============================================================================
