--------------------------- MODULE RowTransferProofs ---------------------------
(***************************************************************************)
(* Theorems about RowTransfer, for any number of layers, block and chunk   *)
(* size, prompts and block tables.                                         *)
(***************************************************************************)
EXTENDS RowTransfer, LayoutProofs

-----------------------------------------------------------------------------
(* The slots and the spans of a prompt.                                     *)

\* What a request's block tables have passed.
TablesOk(tables) == tables \in Allocations /\ ValidKvCacheBlocks(tables)

\* vLLM allocates enough blocks for every prompt.
LEMMA TablesReachPrompt ==
  ASSUME NEW tables, TablesOk(tables), NEW prompt \in Prompts
  PROVE  Len(prompt) \in Nat /\ TablesReach(tables, Len(prompt))
<1>1. tables \in Seq(Seq(Nat)) /\ Len(tables) = 2
  BY AllocationAssumption DEF TablesOk, ValidKvCacheBlocks
<1>2. /\ ToSet(tables[1]) \cap ToSet(tables[2]) = {}
      /\ \A g \in {1, 2} : Len(prompt) <= Len(tables[g]) * BlockSize
  BY <1>1, AllocationAssumption DEF TablesOk
<1>3. Len(prompt) \in Nat
  BY PromptAssumption
<1> QED BY <1>1, <1>2, <1>3 DEF TablesOk, TablesReach

\* The slot of a row of the prompt is a slot of its block.
LEMMA SlotOfRow ==
  ASSUME NEW c, ConfigOk(c), NEW tables, TablesOk(tables), NEW prompt \in Prompts,
         NEW l \in Layers, NEW p \in 0 .. Len(prompt) - 1
  PROVE  /\ SlotIn(c, tables, l, p) \in Slots
         /\ SlotIn(c, tables, l, p) \div BlockSize
              = tables[GroupOf(c, l)][(p \div BlockSize) + 1]
         /\ SlotIn(c, tables, l, p) % BlockSize = p % BlockSize
         /\ SlotIn(c, tables, l, p) \div BlockSize \in ToSet(tables[1]) \cup ToSet(tables[2])
  BY TablesReachPrompt, SlotOfPosition DEF Slots

\* Two rows of a request, in whatever layers, have two places in memory.
LEMMA RowSlotsAreDistinct ==
  ASSUME NEW c, ConfigOk(c), NEW tables, TablesOk(tables), NEW prompt \in Prompts,
         NEW l1 \in Layers, NEW p1 \in 0 .. Len(prompt) - 1,
         NEW l2 \in Layers, NEW p2 \in 0 .. Len(prompt) - 1,
         Tensor(l1) = Tensor(l2),
         SlotIn(c, tables, l1, p1) = SlotIn(c, tables, l2, p2)
  PROVE  l1 = l2 /\ p1 = p2
  BY TablesReachPrompt, SlotsAreDistinct DEF Tensor

\* A span of a transfer within the prompt has the slots of its rows.
LEMMA PromptSpanOk ==
  ASSUME NEW c, ConfigOk(c), NEW tables, TablesOk(tables), NEW prompt \in Prompts,
         NEW source \in Nat, NEW target \in Nat, NEW n \in Nat \ {0},
         target + n <= Len(prompt), NEW l \in Layers,
         NEW k \in 1 .. BlocksTouched(TokenTransfer(source, target, n))
  PROVE  SpanOk(LayerSpan(c, tables, TokenTransfer(source, target, n), l, k),
                c, tables, source, target, n)
  BY TablesReachPrompt, LayerSpanOk

\* A transfer within the prompt is covered by its spans.
LEMMA PromptCovers ==
  ASSUME NEW c, ConfigOk(c), NEW tables, TablesOk(tables), NEW prompt \in Prompts,
         NEW source \in Nat, NEW target \in Nat, NEW n \in Nat \ {0},
         target + n <= Len(prompt)
  PROVE  SpansCover(PlanTokenScatter(c, tables, TokenTransfer(source, target, n)),
                    c, tables, source, target, n)
  BY TablesReachPrompt, PlanCovers

-----------------------------------------------------------------------------
(* Copies.                                                                  *)

\* A row has a key and a value, and memory consists of rows.
IsRow(row) == row = [k |-> row.k, v |-> row.v]
IsMemory(m, places, rows) ==
  /\ DOMAIN m = places
  /\ \A at \in places : DOMAIN m[at] = rows /\ \A s \in rows : IsRow(m[at][s])

\* A beginning of a sequence, where the copies break off.
LEMMA Beginning ==
  ASSUME NEW seq, Len(seq) \in Nat, DOMAIN seq = 1 .. Len(seq), NEW n \in 0 .. Len(seq)
  PROVE  /\ DOMAIN SubSeq(seq, 1, n) = 1 .. n
         /\ \A i \in 1 .. n : SubSeq(seq, 1, n)[i] = seq[i]
  OBVIOUS

\* Copies leave memory with the same rows.
LEMMA ApplyIsMemory ==
  ASSUME NEW m, NEW places, NEW rows, IsMemory(m, places, rows), NEW copies, NEW n
  PROVE  IsMemory(Apply(m, copies, n), places, rows)
  BY DEF IsMemory, IsRow, Apply

\* No copy writes to a row.
Untouched(copies, at, s) ==
  \A i \in 1 .. Len(copies), comp \in {"k", "v"} : ~Writes(copies[i], at, s, comp)

\* A row that no copy writes stays as it is, wherever the copies break off.
LEMMA ApplyKeeps ==
  ASSUME NEW m, NEW places, NEW rows, IsMemory(m, places, rows),
         NEW at \in places, NEW s \in rows,
         NEW copies, Len(copies) \in Nat, DOMAIN copies = 1 .. Len(copies),
         NEW n \in 0 .. Len(copies),
         Untouched(copies, at, s)
  PROVE  Apply(m, copies, n)[at][s] = m[at][s]
<1> DEFINE done == SubSeq(copies, 1, n)
<1>1. DOMAIN done = 1 .. n /\ \A i \in 1 .. n : done[i] = copies[i]
  BY Beginning
<1> HIDE DEF done
<1>2. \A comp \in {"k", "v"} : {i \in DOMAIN done : Writes(done[i], at, s, comp)} = {}
  BY <1>1 DEF Untouched
<1>3. Apply(m, copies, n)[at][s] = [k |-> m[at][s]["k"], v |-> m[at][s]["v"]]
  BY <1>2 DEF Apply, IsMemory, done
<1>4. IsRow(m[at][s])
  BY DEF IsMemory
<1> QED BY <1>3, <1>4 DEF IsRow

\* A component that one copy writes is what that copy holds for it.
LEMMA ApplyWrites ==
  ASSUME NEW m, NEW places, NEW rows, IsMemory(m, places, rows),
         NEW at \in places, NEW s \in rows, NEW comp \in {"k", "v"},
         NEW copies, Len(copies) \in Nat, DOMAIN copies = 1 .. Len(copies),
         NEW i \in 1 .. Len(copies), Writes(copies[i], at, s, comp),
         \A j \in 1 .. Len(copies) : Writes(copies[j], at, s, comp) => j = i
  PROVE  Apply(m, copies, Len(copies))[at][s][comp]
           = copies[i].rows[s - copies[i].start + 1]
<1> DEFINE done == SubSeq(copies, 1, Len(copies))
           writers == {j \in DOMAIN done : Writes(done[j], at, s, comp)}
<1>1. DOMAIN done = 1 .. Len(copies) /\ \A j \in 1 .. Len(copies) : done[j] = copies[j]
  BY Beginning
<1>2. writers = {i}
  BY <1>1
<1>3. Max(writers) = i
  BY <1>2 DEF Max
<1>4. Apply(m, copies, Len(copies))[at][s][comp]
        = done[Max(writers)].rows[s - done[Max(writers)].start + 1]
  <2> DEFINE Cell(c) ==
        LET w == {j \in DOMAIN done : Writes(done[j], at, s, c)}
        IN IF w = {} THEN m[at][s][c] ELSE done[Max(w)].rows[s - done[Max(w)].start + 1]
  <2>1. Apply(m, copies, Len(copies))[at][s] = [k |-> Cell("k"), v |-> Cell("v")]
    BY DEF Apply, IsMemory
  <2>2. Cell(comp) = done[Max(writers)].rows[s - done[Max(writers)].start + 1]
    BY <1>2
  <2> HIDE DEF Cell
  <2>3. Apply(m, copies, Len(copies))[at][s][comp] = Cell(comp)
    BY <2>1
  <2> QED BY <2>2, <2>3
<1> QED BY <1>1, <1>3, <1>4

\* Copies in order, of rows whose keys and values go to the same place.
Pairs(N, at, start, keys, vals) ==
  [i \in 1 .. N |-> <<PreparedCopy(at[i], start[i], "k", keys[i]),
                      PreparedCopy(at[i], start[i], "v", vals[i])>>]

\* The j-th copy is the key, or the value, of the pair half way.
PairOf(j) == (j + 1) \div 2
AlternateCopies(copies, N, at, start, keys, vals) ==
  /\ Len(copies) = 2 * N /\ DOMAIN copies = 1 .. 2 * N
  /\ \A j \in 1 .. 2 * N :
       /\ PairOf(j) \in 1 .. N
       /\ j % 2 = 1 => copies[j] = PreparedCopy(at[PairOf(j)], start[PairOf(j)], "k",
                                               keys[PairOf(j)])
       /\ j % 2 # 1 => copies[j] = PreparedCopy(at[PairOf(j)], start[PairOf(j)], "v",
                                               vals[PairOf(j)])

\* The prepared copies in the order in which they are carried out: a span's key,
\* then its value.
LEMMA OrderOfCopies ==
  ASSUME NEW N \in Nat, NEW at, NEW start, NEW keys, NEW vals
  PROVE  AlternateCopies(InOrder(Pairs(N, at, start, keys, vals)), N, at, start, keys, vals)
<1> DEFINE pairs == Pairs(N, at, start, keys, vals)
           copies == InOrder(pairs)
<1>1. Len(pairs) = N /\ DOMAIN pairs = 1 .. N
  BY DEF Pairs
<1>2. copies = [j \in 1 .. 2 * N |-> pairs[(j + 1) \div 2][2 - (j % 2)]]
  BY <1>1 DEF InOrder
<1>3. ASSUME NEW j \in 1 .. 2 * N
      PROVE  PairOf(j) \in 1 .. N /\ j % 2 \in {0, 1}
  BY DEF PairOf
<1>4. ASSUME NEW j \in 1 .. 2 * N
      PROVE  /\ j % 2 = 1 => copies[j] = PreparedCopy(at[PairOf(j)], start[PairOf(j)], "k",
                                                     keys[PairOf(j)])
             /\ j % 2 # 1 => copies[j] = PreparedCopy(at[PairOf(j)], start[PairOf(j)], "v",
                                                     vals[PairOf(j)])
  <2> DEFINE i == PairOf(j)
  <2>1. i \in 1 .. N /\ j % 2 \in {0, 1}
    BY <1>3
  <2>2. copies[j] = pairs[i][2 - (j % 2)]
    BY <1>2 DEF PairOf
  <2> HIDE DEF i, copies
  <2>3. pairs[i] = <<PreparedCopy(at[i], start[i], "k", keys[i]),
                     PreparedCopy(at[i], start[i], "v", vals[i])>>
    BY <2>1 DEF Pairs
  <2> HIDE DEF pairs
  <2> QED BY <2>1, <2>2, <2>3 DEF i
<1>5. Len(copies) = 2 * N /\ DOMAIN copies = 1 .. 2 * N
  <2> HIDE DEF pairs
  <2> QED BY <1>2
<1> HIDE DEF copies
<1>6. AlternateCopies(copies, N, at, start, keys, vals)
  BY <1>3, <1>4, <1>5 DEF AlternateCopies
<1> QED BY <1>6 DEF copies

\* A pair goes to rows of one place.
Hits(i, at, start, len, place, s) ==
  at[i] = place /\ s \in start[i] .. start[i] + len[i] - 1

\* The key and the value of a pair are as long as its span; none of the pairs,
\* or only one of them, goes to a row.
SameLengths(N, keys, vals, len) ==
  \A i \in 1 .. N : Len(keys[i]) = len[i] /\ Len(vals[i]) = len[i]
NoneHits(N, at, start, len, place, s) ==
  \A i \in 1 .. N : ~Hits(i, at, start, len, place, s)
OnlyHits(i, N, at, start, len, place, s) ==
  /\ i \in 1 .. N /\ Hits(i, at, start, len, place, s)
  /\ \A j \in 1 .. N : Hits(j, at, start, len, place, s) => j = i

\* No pair goes to a row of a memory, and n of the copies are carried out; the
\* row is then as it was.
Misses(m, places, rows, N, at, start, keys, vals, len, n, place, s) ==
  /\ IsMemory(m, places, rows) /\ place \in places /\ s \in rows
  /\ N \in Nat /\ SameLengths(N, keys, vals, len)
  /\ NoneHits(N, at, start, len, place, s)
  /\ n \in 0 .. Len(InOrder(Pairs(N, at, start, keys, vals)))
KeepsRow(m, N, at, start, keys, vals, n, place, s) ==
  Apply(m, InOrder(Pairs(N, at, start, keys, vals)), n)[place][s] = m[place][s]

\* Rows that no pair goes to stay as they are.
LEMMA PairsKeep ==
  ASSUME NEW m, NEW places, NEW rows, NEW place, NEW s, NEW n,
         NEW N, NEW at, NEW start, NEW keys, NEW vals, NEW len,
         Misses(m, places, rows, N, at, start, keys, vals, len, n, place, s)
  PROVE  KeepsRow(m, N, at, start, keys, vals, n, place, s)
<1> DEFINE copies == InOrder(Pairs(N, at, start, keys, vals))
<1>m. /\ IsMemory(m, places, rows) /\ place \in places /\ s \in rows
      /\ N \in Nat /\ SameLengths(N, keys, vals, len)
      /\ NoneHits(N, at, start, len, place, s)
      /\ n \in 0 .. Len(copies)
  BY DEF Misses
<1>1. AlternateCopies(copies, N, at, start, keys, vals)
  BY <1>m, OrderOfCopies
<1> HIDE DEF copies
<1>2. ASSUME NEW j \in 1 .. 2 * N, NEW comp \in {"k", "v"}, Writes(copies[j], place, s, comp)
      PROVE  FALSE
  <2> DEFINE i == PairOf(j)
  <2>1. /\ i \in 1 .. N
        /\ \/ copies[j] = PreparedCopy(at[i], start[i], "k", keys[i])
           \/ copies[j] = PreparedCopy(at[i], start[i], "v", vals[i])
    BY <1>1 DEF AlternateCopies
  <2> HIDE DEF i
  <2>2. Len(keys[i]) = len[i] /\ Len(vals[i]) = len[i]
    BY <1>m, <2>1 DEF SameLengths
  <2>3. CASE copies[j] = PreparedCopy(at[i], start[i], "k", keys[i])
    <3>1. Hits(i, at, start, len, place, s)
      BY <1>2, <2>2, <2>3 DEF Writes, Hits, PreparedCopy
    <3> QED BY <1>m, <2>1, <3>1 DEF NoneHits
  <2>4. CASE copies[j] = PreparedCopy(at[i], start[i], "v", vals[i])
    <3>1. Hits(i, at, start, len, place, s)
      BY <1>2, <2>2, <2>4 DEF Writes, Hits, PreparedCopy
    <3> QED BY <1>m, <2>1, <3>1 DEF NoneHits
  <2> QED BY <2>1, <2>3, <2>4
<1>3. Apply(m, copies, n)[place][s] = m[place][s]
  <2>1. Len(copies) \in Nat /\ DOMAIN copies = 1 .. Len(copies) /\ n \in 0 .. Len(copies)
    BY <1>1, <1>m DEF AlternateCopies
  <2>2. Untouched(copies, place, s)
    BY <1>1, <1>2 DEF AlternateCopies, Untouched
  <2> QED BY <1>m, <2>1, <2>2, ApplyKeeps
<1> QED BY <1>3 DEF copies, KeepsRow

\* A row that one pair goes to is what the pair holds for it.
LEMMA PairsWrite ==
  ASSUME NEW m, NEW places, NEW rows, IsMemory(m, places, rows),
         NEW place \in places, NEW s \in rows,
         NEW N \in Nat, NEW at, NEW start, NEW keys, NEW vals, NEW len,
         SameLengths(N, keys, vals, len), NEW i, OnlyHits(i, N, at, start, len, place, s)
  PROVE  LET copies == InOrder(Pairs(N, at, start, keys, vals))
         IN Apply(m, copies, Len(copies))[place][s]
              = [k |-> keys[i][s - start[i] + 1], v |-> vals[i][s - start[i] + 1]]
<1> DEFINE copies == InOrder(Pairs(N, at, start, keys, vals))
           new == Apply(m, copies, Len(copies))
<1>1. AlternateCopies(copies, N, at, start, keys, vals)
  BY OrderOfCopies
<1>0. /\ i \in 1 .. N /\ Hits(i, at, start, len, place, s)
      /\ \A j \in 1 .. N : Hits(j, at, start, len, place, s) => j = i
      /\ \A j \in 1 .. N : Len(keys[j]) = len[j] /\ Len(vals[j]) = len[j]
  BY DEF OnlyHits, SameLengths
<1> HIDE DEF copies
<1>2. ASSUME NEW j \in 1 .. 2 * N, NEW comp \in {"k", "v"}, Writes(copies[j], place, s, comp)
      PROVE  PairOf(j) = i /\ (comp = "k" <=> j % 2 = 1)
  <2> DEFINE h == PairOf(j)
  <2>1. /\ h \in 1 .. N
        /\ j % 2 = 1 => copies[j] = PreparedCopy(at[h], start[h], "k", keys[h])
        /\ j % 2 # 1 => copies[j] = PreparedCopy(at[h], start[h], "v", vals[h])
    BY <1>1 DEF AlternateCopies
  <2> HIDE DEF h
  <2>2. Hits(h, at, start, len, place, s) /\ (comp = "k" <=> j % 2 = 1)
    BY <1>0, <1>2, <2>1 DEF Writes, Hits, PreparedCopy
  <2> QED BY <1>0, <2>1, <2>2 DEF h
<1>3. ASSUME NEW comp \in {"k", "v"}, NEW values, NEW j \in 1 .. 2 * N,
             copies[j] = PreparedCopy(at[i], start[i], comp, values),
             Len(values) = len[i]
      PROVE  new[place][s][comp] = values[s - start[i] + 1]
  <2>1. Writes(copies[j], place, s, comp)
    BY <1>0, <1>3 DEF Writes, Hits, PreparedCopy
  <2>2. ASSUME NEW h \in 1 .. 2 * N, Writes(copies[h], place, s, comp)
        PROVE  h = j
    <3>1. PairOf(h) = PairOf(j) /\ (h % 2 = 1 <=> j % 2 = 1)
      BY <1>2, <2>1, <2>2
    <3> QED BY <3>1 DEF PairOf
  <2>3. /\ Len(copies) \in Nat /\ DOMAIN copies = 1 .. Len(copies)
        /\ j \in 1 .. Len(copies)
    BY <1>1 DEF AlternateCopies
  <2>4. \A h \in 1 .. Len(copies) : Writes(copies[h], place, s, comp) => h = j
    BY <1>1, <2>2 DEF AlternateCopies
  <2>5. new[place][s][comp] = copies[j].rows[s - copies[j].start + 1]
    BY <2>1, <2>3, <2>4, ApplyWrites
  <2> QED BY <1>3, <2>5 DEF PreparedCopy
<1>4. new[place][s]["k"] = keys[i][s - start[i] + 1]
  <2> DEFINE j == 2 * i - 1
  <2>1. j \in 1 .. 2 * N /\ PairOf(j) = i /\ j % 2 = 1
    BY <1>0 DEF PairOf
  <2> HIDE DEF j, new
  <2>2. copies[j] = PreparedCopy(at[i], start[i], "k", keys[i])
    BY <1>0, <1>1, <2>1 DEF AlternateCopies
  <2> QED BY <1>0, <1>3, <2>1, <2>2
<1>5. new[place][s]["v"] = vals[i][s - start[i] + 1]
  <2> DEFINE j == 2 * i
  <2>1. j \in 1 .. 2 * N /\ PairOf(j) = i /\ j % 2 = 0
    BY <1>0 DEF PairOf
  <2> HIDE DEF j, new
  <2>2. copies[j] = PreparedCopy(at[i], start[i], "v", vals[i])
    BY <1>0, <1>1, <2>1 DEF AlternateCopies
  <2> QED BY <1>0, <1>3, <2>1, <2>2
<1>6. IsRow(new[place][s])
  BY ApplyIsMemory DEF IsMemory
<1> HIDE DEF new
<1> QED BY <1>4, <1>5, <1>6 DEF IsRow, new, copies

-----------------------------------------------------------------------------
(* Scatter and gather.                                                      *)

\* The row of staging at a target position, as it is scattered there.
ScatteredRow(st, l, p, source, target) ==
  [k |-> CorrectKeyPositions(st[l][p].k, source + p - target, p), v |-> st[l][p].v]

\* The candidate's target lies in the prompt.
FitsPrompt(c, prompt) ==
  /\ c.record.source \in Nat /\ c.target \in Nat
  /\ c.target + ChunkSize <= Len(prompt)

\* The slots of the rows of a target.
TargetSlot(c, tables, target, n, t, s) ==
  \E l \in Layers, p \in target .. target + n - 1 :
    Tensor(l) = t /\ SlotIn(c, tables, l, p) = s

\* Every row of a candidate's target gets its row of staging, and no other row
\* changes even if the copies break off.
LEMMA ScatterEffect ==
  ASSUME ConfigOk(config), TablesOk(cur.tables), cur.prompt \in Prompts,
         IsMemory(mem, Tensors, Slots), NEW c, FitsPrompt(c, cur.prompt)
  PROVE  /\ Len(ScatterCopies(c)) \in Nat
         /\ \A n \in 0 .. Len(ScatterCopies(c)), t \in Tensors, s \in Slots :
              ~TargetSlot(config, cur.tables, c.target, ChunkSize, t, s)
                => Apply(mem, ScatterCopies(c), n)[t][s] = mem[t][s]
         /\ \A l \in Layers, p \in c.target .. c.target + ChunkSize - 1 :
              Apply(mem, ScatterCopies(c), Len(ScatterCopies(c)))
                   [Tensor(l)][SlotIn(config, cur.tables, l, p)]
                = ScatteredRow(staging, l, p, c.record.source, c.target)
<1> DEFINE source == c.record.source
           target == c.target
           tables == cur.tables
           spans == Spans(LoadTransfer(c))
           N == Len(spans)
           at == [i \in 1 .. N |-> Tensor(spans[i].layer)]
           start == [i \in 1 .. N |-> spans[i].span.slot]
           len == [i \in 1 .. N |-> TokenCount(spans[i])]
           keys == [i \in 1 .. N |-> [j \in 1 .. TokenCount(spans[i]) |->
                     CorrectKeyPositions(
                       staging[spans[i].layer]
                              [RetrievalBufferOffset + spans[i].span.target.start + j - 1].k,
                       spans[i].span.source.start + j - 1,
                       spans[i].span.target.start + j - 1)]]
           vals == [i \in 1 .. N |-> [j \in 1 .. TokenCount(spans[i]) |->
                     staging[spans[i].layer]
                            [RetrievalBufferOffset + spans[i].span.target.start + j - 1].v]]
           copies == ScatterCopies(c)
<1>1. /\ source \in Nat /\ target \in Nat /\ ChunkSize \in Nat \ {0}
      /\ target + ChunkSize <= Len(cur.prompt)
  BY RowAssumption DEF FitsPrompt
<1>2. SpansCover(spans, config, tables, source, target, ChunkSize)
  BY <1>1, PromptCovers DEF Spans, LoadTransfer
<1>3. N \in Nat /\ DOMAIN spans = 1 .. N
  BY <1>2 DEF SpansCover
<1>4. copies = InOrder(Pairs(N, at, start, keys, vals))
  <2>1. [i \in DOMAIN spans |-> PrepareScatterSpan(spans[i])] = Pairs(N, at, start, keys, vals)
    <3> HIDE DEF spans, N
    <3>1. \A i \in 1 .. N : PrepareScatterSpan(spans[i])
            = <<PreparedCopy(at[i], start[i], "k", keys[i]),
                PreparedCopy(at[i], start[i], "v", vals[i])>>
      BY DEF PrepareScatterSpan
    <3> HIDE DEF at, start, keys, vals
    <3> QED BY <1>3, <3>1 DEF Pairs
  <2> HIDE DEF spans, N, at, start, keys, vals
  <2> QED BY <2>1 DEF ScatterCopies, spans
<1>5. \A i \in 1 .. N : SpanOk(spans[i], config, tables, source, target, ChunkSize)
  BY <1>2, <1>3 DEF SpansCover
<1>6. SameLengths(N, keys, vals, len)
  <2> HIDE DEF spans, N
  <2>1. \A i \in 1 .. N : TokenCount(spans[i]) \in Nat
    BY <1>5 DEF SpanOk, TokenCount
  <2> QED BY <2>1 DEF SameLengths
<1>7. ASSUME NEW i \in 1 .. N, NEW t, NEW s, Hits(i, at, start, len, t, s)
      PROVE  \E p \in target .. target + ChunkSize - 1 :
               /\ RowIn(spans[i], spans[i].layer, p) /\ spans[i].layer \in Layers
               /\ Tensor(spans[i].layer) = t
               /\ SlotIn(config, tables, spans[i].layer, p) = s
               /\ s - start[i] = p - spans[i].span.target.start
  <2> DEFINE p == spans[i].span.target.start + (s - spans[i].span.slot)
  <2> HIDE DEF spans, N
  <2>1. SpanOk(spans[i], config, tables, source, target, ChunkSize)
    BY <1>5
  <2>2. /\ Tensor(spans[i].layer) = t
        /\ s \in spans[i].span.slot .. spans[i].span.slot + TokenCount(spans[i]) - 1
    BY <1>7 DEF Hits
  <2>3. /\ p \in spans[i].span.target.start .. spans[i].span.target.end - 1
        /\ spans[i].span.slot + (p - spans[i].span.target.start) = s
        /\ s - spans[i].span.slot = p - spans[i].span.target.start
    BY <2>1, <2>2 DEF SpanOk, TokenCount
  <2> HIDE DEF p
  <2>4. /\ p \in target .. target + ChunkSize - 1
        /\ SlotIn(config, tables, spans[i].layer, p) = s
    BY <2>1, <2>3 DEF SpanOk
  <2>5. start[i] = spans[i].span.slot /\ spans[i].layer \in Layers
    BY <2>1 DEF SpanOk
  <2> QED BY <2>2, <2>3, <2>4, <2>5 DEF RowIn
<1>8. ASSUME NEW n \in 0 .. Len(copies), NEW t \in Tensors, NEW s \in Slots,
             ~TargetSlot(config, tables, target, ChunkSize, t, s)
      PROVE  Apply(mem, copies, n)[t][s] = mem[t][s]
  <2>1. NoneHits(N, at, start, len, t, s)
    <3> HIDE DEF spans, N, at, start, len, keys, vals, copies
    <3>1. SUFFICES ASSUME NEW i \in 1 .. N, Hits(i, at, start, len, t, s) PROVE FALSE
      BY DEF NoneHits
    <3> QED BY <1>7, <1>8, <3>1 DEF TargetSlot, RowIn
  <2>2. n \in 0 .. Len(InOrder(Pairs(N, at, start, keys, vals)))
    BY <1>4
  <2> HIDE DEF spans, N, at, start, len, keys, vals, copies
  <2>3. Apply(mem, InOrder(Pairs(N, at, start, keys, vals)), n)[t][s] = mem[t][s]
    <3>1. Misses(mem, Tensors, Slots, N, at, start, keys, vals, len, n, t, s)
      BY <1>3, <1>6, <1>8, <2>1, <2>2 DEF Misses
    <3>2. KeepsRow(mem, N, at, start, keys, vals, n, t, s)
      BY <3>1, PairsKeep
    <3> QED BY <3>2 DEF KeepsRow
  <2> QED BY <1>4, <2>3
<1>9. ASSUME NEW l \in Layers, NEW p \in target .. target + ChunkSize - 1
      PROVE  Apply(mem, copies, Len(copies))[Tensor(l)][SlotIn(config, tables, l, p)]
               = ScatteredRow(staging, l, p, source, target)
  <2> DEFINE s == SlotIn(config, tables, l, p)
  <2>1. Len(cur.prompt) \in Nat
    BY PromptAssumption
  <2>2. p \in 0 .. Len(cur.prompt) - 1 /\ p \in Nat
    BY <1>1, <2>1
  <2>3. s \in Slots /\ Tensor(l) \in Tensors
    BY <2>2, SlotOfRow DEF Tensor, Tensors
  <2>4. PICK i \in 1 .. N : RowIn(spans[i], l, p)
    BY <1>2, <1>3 DEF SpansCover
  <2>5. SpanOk(spans[i], config, tables, source, target, ChunkSize)
    BY <1>5
  <2>6. /\ spans[i].layer = l
        /\ p \in spans[i].span.target.start .. spans[i].span.target.end - 1
        /\ s = spans[i].span.slot + (p - spans[i].span.target.start)
        /\ spans[i].span.slot \in Nat
        /\ spans[i].span.target.start \in Nat /\ spans[i].span.target.end \in Nat
        /\ spans[i].span.source.start = source + spans[i].span.target.start - target
    <3> HIDE DEF spans, N
    <3> QED BY <2>4, <2>5 DEF RowIn, SpanOk
  <2>7. Hits(i, at, start, len, Tensor(l), s)
    <3> HIDE DEF spans, N, s
    <3> QED BY <2>6 DEF Hits, TokenCount
  <2>8. ASSUME NEW j \in 1 .. N, Hits(j, at, start, len, Tensor(l), s)
        PROVE  j = i
    <3>1. PICK q \in target .. target + ChunkSize - 1 :
            /\ RowIn(spans[j], spans[j].layer, q) /\ spans[j].layer \in Layers
            /\ Tensor(spans[j].layer) = Tensor(l)
            /\ SlotIn(config, tables, spans[j].layer, q) = s
      BY <1>7, <2>8
    <3>2. q \in 0 .. Len(cur.prompt) - 1
      BY <1>1, <2>1
    <3>3. spans[j].layer = l /\ q = p
      <4> HIDE DEF spans
      <4> QED BY <2>2, <3>1, <3>2, RowSlotsAreDistinct
    <3>4. RowIn(spans[j], l, p)
      BY <3>1, <3>3
    <3> QED BY <1>2, <1>3, <2>4, <3>4 DEF SpansCover
  <2> DEFINE h == p - spans[i].span.target.start + 1
  <2>9. s - start[i] + 1 = h /\ h \in 1 .. TokenCount(spans[i])
    <3> HIDE DEF spans, N, s
    <3> QED BY <2>6 DEF TokenCount
  <2>10. Apply(mem, copies, Len(copies))[Tensor(l)][s]
           = [k |-> keys[i][s - start[i] + 1], v |-> vals[i][s - start[i] + 1]]
    <3> HIDE DEF spans, N, at, start, len, keys, vals, s
    <3> HIDE DEF copies
    <3>0. OnlyHits(i, N, at, start, len, Tensor(l), s)
      BY <2>4, <2>7, <2>8 DEF OnlyHits
    <3>1. Apply(mem, InOrder(Pairs(N, at, start, keys, vals)),
                Len(InOrder(Pairs(N, at, start, keys, vals))))[Tensor(l)][s]
            = [k |-> keys[i][s - start[i] + 1], v |-> vals[i][s - start[i] + 1]]
      BY <1>3, <1>6, <2>3, <3>0, PairsWrite
    <3> QED BY <1>4, <3>1
  <2>11. /\ RetrievalBufferOffset + spans[i].span.target.start + h - 1 = p
         /\ spans[i].span.target.start + h - 1 = p
         /\ spans[i].span.source.start + h - 1 = source + p - target
    <3> DEFINE a == spans[i].span.target.start
               b == spans[i].span.source.start
    <3>1. a \in Nat /\ b = source + a - target /\ h = p - a + 1
      BY <2>6
    <3>0. source \in Nat /\ target \in Nat /\ p \in Nat
      BY <1>1, <2>2
    <3> HIDE DEF a, b, h, source, target
    <3>2. 0 + a + h - 1 = p /\ a + h - 1 = p /\ b + h - 1 = source + p - target
      BY <3>0, <3>1
    <3> QED BY <3>2 DEF RetrievalBufferOffset, a, b
  <2>12. /\ keys[i][h] = CorrectKeyPositions(staging[l][p].k, source + p - target, p)
         /\ vals[i][h] = staging[l][p].v
    <3> HIDE DEF spans, N, s, h
    <3> QED BY <2>6, <2>9, <2>11
  <2> HIDE DEF keys, vals, start, spans, N, copies, h
  <2> QED BY <2>9, <2>10, <2>12 DEF ScatteredRow
<1>10. Len(copies) \in Nat
  <2> HIDE DEF spans, N, at, start, keys, vals, copies
  <2>1. AlternateCopies(InOrder(Pairs(N, at, start, keys, vals)), N, at, start, keys, vals)
    BY <1>3, OrderOfCopies
  <2> QED BY <1>3, <1>4, <2>1 DEF AlternateCopies
<1> HIDE DEF copies
<1> QED BY <1>10, <1>8, <1>9 DEF copies

\* A chunk of the prompt lies in it.
IsChunk(n, prompt) == n \in Nat \ {0} /\ n * ChunkSize <= Len(prompt)

\* The rows of a chunk, in numbers.
LEMMA ChunkRows ==
  ASSUME NEW n, NEW prompt \in Prompts, IsChunk(n, prompt)
  PROVE  /\ (n - 1) * ChunkSize \in Nat /\ n * ChunkSize \in Nat
         /\ n * ChunkSize = (n - 1) * ChunkSize + ChunkSize
         /\ (n - 1) * ChunkSize + ChunkSize <= Len(prompt)
         /\ Len(prompt) \in Nat
<1>1. n \in Nat \ {0} /\ ChunkSize \in Nat \ {0} /\ Len(prompt) \in Nat
  BY RowAssumption, PromptAssumption DEF IsChunk
<1>2. (n - 1) * ChunkSize \in Nat /\ n * ChunkSize \in Nat
  <2>1. n - 1 \in Nat
    BY <1>1
  <2> DEFINE a == n - 1
  <2> HIDE DEF a
  <2>2. a * ChunkSize \in Nat /\ n * ChunkSize \in Nat
    BY <1>1, <2>1, Z3 DEF a
  <2> QED BY <2>2 DEF a
<1>3. n * ChunkSize = (n - 1) * ChunkSize + ChunkSize
  BY <1>1, Z3
<1> QED BY <1>1, <1>2, <1>3 DEF IsChunk

\* The rows of staging.
Room == 0 .. Capacity - 1

\* A chunk is gathered to its place in staging, and no other row of staging
\* changes even if the copies break off.
LEMMA GatherEffect ==
  ASSUME ConfigOk(config), TablesOk(cur.tables), cur.prompt \in Prompts,
         IsMemory(mem, Tensors, Slots), IsMemory(staging, Layers, Room),
         NEW n, IsChunk(n, cur.prompt), n * ChunkSize <= Capacity
  PROVE  /\ Len(GatherCopies(n)) \in Nat
         /\ \A j \in 0 .. Len(GatherCopies(n)), l \in Layers, s \in Room :
              s \notin (n - 1) * ChunkSize .. (n - 1) * ChunkSize + ChunkSize - 1
                => Apply(staging, GatherCopies(n), j)[l][s] = staging[l][s]
         /\ \A l \in Layers, p \in (n - 1) * ChunkSize .. (n - 1) * ChunkSize + ChunkSize - 1 :
              Apply(staging, GatherCopies(n), Len(GatherCopies(n)))[l][p]
                = mem[Tensor(l)][SlotIn(config, cur.tables, l, p)]
<1> DEFINE target == (n - 1) * ChunkSize
           tables == cur.tables
           spans == Spans(StoreTransfer(n))
           N == Len(spans)
           at == [i \in 1 .. N |-> spans[i].layer]
           start == [i \in 1 .. N |-> spans[i].span.target.start]
           len == [i \in 1 .. N |-> TokenCount(spans[i])]
           keys == [i \in 1 .. N |-> [j \in 1 .. TokenCount(spans[i]) |->
                     mem[Tensor(spans[i].layer)][spans[i].span.slot + j - 1].k]]
           vals == [i \in 1 .. N |-> [j \in 1 .. TokenCount(spans[i]) |->
                     mem[Tensor(spans[i].layer)][spans[i].span.slot + j - 1].v]]
           copies == GatherCopies(n)
<1>1. /\ target \in Nat /\ ChunkSize \in Nat \ {0}
      /\ target + ChunkSize <= Len(cur.prompt) /\ Len(cur.prompt) \in Nat
      /\ target + ChunkSize <= Capacity /\ Capacity \in Nat
  BY ChunkRows, RowAssumption
<1>s. /\ StoreTransfer(n) = TokenTransfer(target, target, ChunkSize)
      /\ ChunkStoreOffset(n) = 0 + target /\ StoreTransfer(n).target.start = target
  BY DEF StoreTransfer, ChunkStoreOffset, StoreBufferOffset, TokenTransfer
<1> HIDE DEF target
<1>2. SpansCover(spans, config, tables, target, target, ChunkSize)
  BY <1>1, <1>s, PromptCovers DEF Spans
<1>3. N \in Nat /\ DOMAIN spans = 1 .. N
  BY <1>2 DEF SpansCover
<1>5. \A i \in 1 .. N : SpanOk(spans[i], config, tables, target, target, ChunkSize)
  BY <1>2, <1>3 DEF SpansCover
<1>4. copies = InOrder(Pairs(N, at, start, keys, vals))
  <2>1. [i \in DOMAIN spans |->
           PrepareGatherSpan(spans[i], ChunkStoreOffset(n), StoreTransfer(n).target)]
          = Pairs(N, at, start, keys, vals)
    <3> HIDE DEF spans, N
    <3>1. ASSUME NEW i \in 1 .. N
          PROVE  PrepareGatherSpan(spans[i], ChunkStoreOffset(n), StoreTransfer(n).target)
                   = <<PreparedCopy(at[i], start[i], "k", keys[i]),
                       PreparedCopy(at[i], start[i], "v", vals[i])>>
      <4>1. ChunkStoreOffset(n) + spans[i].span.target.start - StoreTransfer(n).target.start
              = start[i]
        <5> DEFINE a == spans[i].span.target.start
        <5>1. a \in Nat /\ start[i] = a
          BY <1>5 DEF SpanOk
        <5> HIDE DEF a, start
        <5>2. (0 + target) + a - target = a
          BY <1>1, <5>1
        <5> QED BY <1>s, <5>1, <5>2 DEF a
      <4> QED BY <4>1 DEF PrepareGatherSpan
    <3> HIDE DEF at, start, keys, vals
    <3> QED BY <1>3, <3>1 DEF Pairs
  <2> HIDE DEF spans, N, at, start, keys, vals
  <2> QED BY <2>1 DEF GatherCopies, spans
<1>6. SameLengths(N, keys, vals, len)
  <2> HIDE DEF spans, N
  <2>1. \A i \in 1 .. N : TokenCount(spans[i]) \in Nat
    BY <1>5 DEF SpanOk, TokenCount
  <2> QED BY <2>1 DEF SameLengths
<1>7. ASSUME NEW i \in 1 .. N, NEW l, NEW p, Hits(i, at, start, len, l, p)
      PROVE  RowIn(spans[i], l, p) /\ p \in target .. target + ChunkSize - 1
  <2> HIDE DEF spans, N
  <2>1. SpanOk(spans[i], config, tables, target, target, ChunkSize)
    BY <1>5
  <2>2. /\ spans[i].layer = l
        /\ p \in spans[i].span.target.start
                   .. spans[i].span.target.start + TokenCount(spans[i]) - 1
    BY <1>7 DEF Hits
  <2>3. p \in spans[i].span.target.start .. spans[i].span.target.end - 1
    BY <2>1, <2>2 DEF SpanOk, TokenCount
  <2> QED BY <2>1, <2>2, <2>3 DEF SpanOk, RowIn
<1>8. ASSUME NEW j \in 0 .. Len(copies), NEW l \in Layers, NEW s \in Room,
             s \notin target .. target + ChunkSize - 1
      PROVE  Apply(staging, copies, j)[l][s] = staging[l][s]
  <2>1. NoneHits(N, at, start, len, l, s)
    BY <1>7, <1>8 DEF NoneHits
  <2>2. j \in 0 .. Len(InOrder(Pairs(N, at, start, keys, vals)))
    BY <1>4
  <2> HIDE DEF spans, N, at, start, len, keys, vals, copies
  <2>3. Apply(staging, InOrder(Pairs(N, at, start, keys, vals)), j)[l][s] = staging[l][s]
    <3>1. Misses(staging, Layers, Room, N, at, start, keys, vals, len, j, l, s)
      BY <1>3, <1>6, <1>8, <2>1, <2>2 DEF Misses
    <3>2. KeepsRow(staging, N, at, start, keys, vals, j, l, s)
      BY <3>1, PairsKeep
    <3> QED BY <3>2 DEF KeepsRow
  <2> QED BY <1>4, <2>3
<1>9. ASSUME NEW l \in Layers, NEW p \in target .. target + ChunkSize - 1
      PROVE  Apply(staging, copies, Len(copies))[l][p]
               = mem[Tensor(l)][SlotIn(config, tables, l, p)]
  <2> DEFINE s == SlotIn(config, tables, l, p)
  <2>2. p \in 0 .. Len(cur.prompt) - 1 /\ p \in Nat /\ p \in Room
    BY <1>1 DEF Room
  <2>3. s \in Slots /\ Tensor(l) \in Tensors
    BY <2>2, SlotOfRow DEF Tensor, Tensors
  <2>4. PICK i \in 1 .. N : RowIn(spans[i], l, p)
    BY <1>2, <1>3 DEF SpansCover
  <2>5. SpanOk(spans[i], config, tables, target, target, ChunkSize)
    BY <1>5
  <2>6. /\ spans[i].layer = l
        /\ p \in spans[i].span.target.start .. spans[i].span.target.end - 1
        /\ s = spans[i].span.slot + (p - spans[i].span.target.start)
        /\ spans[i].span.slot \in Nat
        /\ spans[i].span.target.start \in Nat /\ spans[i].span.target.end \in Nat
    <3> HIDE DEF spans, N
    <3> QED BY <2>4, <2>5 DEF RowIn, SpanOk
  <2>7. Hits(i, at, start, len, l, p)
    <3> HIDE DEF spans, N, s
    <3> QED BY <2>6 DEF Hits, TokenCount
  <2>8. ASSUME NEW j \in 1 .. N, Hits(j, at, start, len, l, p)
        PROVE  j = i
    BY <1>2, <1>3, <1>7, <2>4, <2>8 DEF SpansCover
  <2> DEFINE h == p - spans[i].span.target.start + 1
  <2>9. p - start[i] + 1 = h /\ h \in 1 .. TokenCount(spans[i])
    <3> DEFINE a == spans[i].span.target.start
               b == spans[i].span.target.end
    <3>1. a \in Nat /\ b \in Nat /\ p \in a .. b - 1 /\ h = p - a + 1 /\ start[i] = a
      BY <2>4, <2>6
    <3>2. TokenCount(spans[i]) = b - a
      BY DEF TokenCount
    <3> HIDE DEF a, b, h, start, spans
    <3> QED BY <2>2, <3>1, <3>2
  <2>10. Apply(staging, copies, Len(copies))[l][p]
           = [k |-> keys[i][p - start[i] + 1], v |-> vals[i][p - start[i] + 1]]
    <3> HIDE DEF spans, N, at, start, len, keys, vals, s
    <3> HIDE DEF copies
    <3>0. OnlyHits(i, N, at, start, len, l, p)
      BY <2>4, <2>7, <2>8 DEF OnlyHits
    <3>1. Apply(staging, InOrder(Pairs(N, at, start, keys, vals)),
                Len(InOrder(Pairs(N, at, start, keys, vals))))[l][p]
            = [k |-> keys[i][p - start[i] + 1], v |-> vals[i][p - start[i] + 1]]
      BY <1>3, <1>6, <2>2, <3>0, PairsWrite
    <3> QED BY <1>4, <3>1
  <2>11. spans[i].span.slot + h - 1 = s
    <3> DEFINE a == spans[i].span.target.start
               b == spans[i].span.slot
    <3>1. a \in Nat /\ b \in Nat /\ h = p - a + 1 /\ s = b + (p - a)
      BY <2>6
    <3> HIDE DEF a, b, h, s
    <3>2. b + h - 1 = s
      BY <2>2, <3>1
    <3> QED BY <3>2 DEF b
  <2>12. keys[i][h] = mem[Tensor(l)][s].k /\ vals[i][h] = mem[Tensor(l)][s].v
    <3> HIDE DEF spans, N, s, h
    <3> QED BY <2>6, <2>9, <2>11
  <2>13. IsRow(mem[Tensor(l)][s])
    BY <2>3 DEF IsMemory
  <2> HIDE DEF keys, vals, start, spans, N, copies, h, s
  <2>14. Apply(staging, copies, Len(copies))[l][p] = mem[Tensor(l)][s]
    BY <2>9, <2>10, <2>12, <2>13 DEF IsRow
  <2> QED BY <2>14 DEF s
<1>10. Len(copies) \in Nat
  <2> HIDE DEF spans, N, at, start, keys, vals, copies
  <2>1. AlternateCopies(InOrder(Pairs(N, at, start, keys, vals)), N, at, start, keys, vals)
    BY <1>3, OrderOfCopies
  <2> QED BY <1>3, <1>4, <2>1 DEF AlternateCopies
<1> HIDE DEF copies
<1> QED BY <1>10, <1>8, <1>9 DEF copies, target

-----------------------------------------------------------------------------
(* The invariant.                                                           *)

\* The worker has a request in hand.
Busy(at) ==
  at \in {"before_forward", "retrieve", "scatter", "forward", "gather", "store", "publish",
          "finish"}

\* The request in hand has these fields, and a request its prompt and blocks.
IsCurrent(r) ==
  r = [f \in {"prompt", "tables", "candidates", "load", "store", "n"} |-> r[f]]

RequestOk(r) == r.prompt \in Prompts /\ TablesOk(r.tables)

\* A candidate is of a record that was published, and its target has its tokens.
CandidateOk(c, prompt, records) ==
  /\ c.record \in records /\ FitsPrompt(c, prompt)
  /\ c.record.tokens = Window(prompt, c.target)

CandidatesOk(q, prompt, records) ==
  /\ Len(q) \in Nat /\ DOMAIN q = 1 .. Len(q) /\ q = [i \in 1 .. Len(q) |-> q[i]]
  /\ \A i \in 1 .. Len(q) : CandidateOk(q[i], prompt, records)
  /\ \A i, j \in 1 .. Len(q) : i < j => q[i].target + ChunkSize <= q[j].target

\* The shape of the state.
ShapeInv ==
  /\ pc \in PCs /\ served \in 0 .. MaxRequests /\ ready \in BOOLEAN
  /\ IsMemory(mem, Tensors, Slots) /\ IsMemory(staging, Layers, Room)
  /\ pc = "start" => live = {}
  /\ (pc \notin {"start", "stopped"} \/ live # {}) => ConfigOk(config)

\* Requests hold blocks that are theirs alone.
RequestsInv ==
  /\ \A r \in live : RequestOk(r)
  /\ \A r, s \in live : r # s => BlocksHeld(r) \cap BlocksHeld(s) = {}
  /\ ~Busy(pc) => cur = <<>>
  /\ Busy(pc) =>
       /\ IsCurrent(cur) /\ RequestOk(cur)
       /\ cur.load \in Attempts /\ cur.store \in Attempts
       /\ CandidatesOk(cur.candidates, cur.prompt, sidecar)
       /\ \A r \in live : BlocksHeld(r) \cap BlocksHeld(cur) = {}

\* The rows of some layers of a request are those of an ordinary prefill.
RowsComputed(c, m, prompt, tables, ls) ==
  \A l \in ls, p \in 0 .. Len(prompt) - 1 :
    m[Tensor(l)][SlotIn(c, tables, l, p)] = Computed(prompt, l, p)

\* A request that is decoding still has the rows of its prefill.
LiveInv == \A r \in live : RowsComputed(config, mem, r.prompt, r.tables, Layers)

\* The forward pass overwrites what was loaded, a layer at a time.
ForwardInv ==
  /\ pc = "forward" =>
       /\ cur.n \in 0 .. NumLayers
       /\ RowsComputed(config, mem, cur.prompt, cur.tables, 0 .. cur.n - 1)
  /\ pc \in {"gather", "store", "publish", "finish"} =>
       RowsComputed(config, mem, cur.prompt, cur.tables, Layers)

\* The first rows of staging are those of the prompt.
Gathered(st, prompt, n) ==
  \A l \in Layers, p \in 0 .. n - 1 : st[l][p] = Computed(prompt, l, p)

\* What has been gathered, stored and published of the request in hand.
StoreInv ==
  /\ pc \in {"gather", "store"} => ChunkCount(cur.prompt) * ChunkSize <= Capacity
  /\ pc = "gather" =>
       /\ cur.n \in 1 .. ChunkCount(cur.prompt)
       /\ Gathered(staging, cur.prompt, (cur.n - 1) * ChunkSize)
  /\ pc = "store" => Gathered(staging, cur.prompt, ChunkCount(cur.prompt) * ChunkSize)
  /\ pc = "publish" => \A n \in 1 .. ChunkCount(cur.prompt) : Key(cur.prompt, n) \in DOMAIN objects
  /\ pc = "finish" /\ cur.store = "succeeded" => Records(cur.prompt) \subseteq sidecar

\* An object has the rows that a prefill of its key computes, and a record
\* describes the last chunk of an object.
ObjectOk(stored, key) ==
  /\ key \in Seq(Tokens) /\ ChunkSize <= Len(key)
  /\ \A l \in Layers, i \in 0 .. ChunkSize - 1 :
       stored[key][l][i] = Computed(key, l, Len(key) - ChunkSize + i)

RecordOk(stored, record) ==
  /\ record.key \in DOMAIN stored /\ record.source \in Nat
  /\ record.source + ChunkSize = Len(record.key)
  /\ record.tokens = Window(record.key, record.source)

\* What the server and the sidecar hold was computed for the keys it is under.
ServerInv ==
  /\ \A key \in DOMAIN objects : ObjectOk(objects, key)
  /\ \A record \in sidecar : RecordOk(objects, record)

\* The rows of a candidate: as they are stored, and as they are loaded.
Target(c) == c.target .. c.target + ChunkSize - 1
StoredRow(c, l, p) == Computed(c.record.key, l, c.record.source + (p - c.target))
LoadedRow(c, l, p) ==
  [k |-> [StoredRow(c, l, p).k EXCEPT !.pos = p], v |-> StoredRow(c, l, p).v]

Staged(st, c) == \A l \in Layers, p \in Target(c) : st[l][p] = StoredRow(c, l, p)
Loaded(cf, m, tables, c) ==
  \A l \in Layers, p \in Target(c) : m[Tensor(l)][SlotIn(cf, tables, l, p)] = LoadedRow(c, l, p)

\* What has been retrieved and scattered for the request in hand.
LoadInv ==
  /\ pc \in {"retrieve", "scatter"} => Len(cur.prompt) <= Capacity
  /\ pc \in {"before_forward", "retrieve"} => cur.n = 0
  /\ pc \in {"retrieve", "scatter"} => Len(cur.candidates) > 0
  /\ pc = "scatter" =>
       /\ cur.n \in 0 .. Len(cur.candidates)
       /\ \A i \in 1 .. Len(cur.candidates) : Staged(staging, cur.candidates[i])
       /\ \A i \in 1 .. Len(cur.candidates) :
            i < cur.n => Loaded(config, mem, cur.tables, cur.candidates[i])
  /\ pc = "forward" /\ cur.n = 0 /\ cur.load = "succeeded" =>
       \A i \in 1 .. Len(cur.candidates) : Loaded(config, mem, cur.tables, cur.candidates[i])

\* The spans the probe samples.
SpansOf(cf, tables, q, l) ==
  [i \in DOMAIN q |-> LayerSpans(cf, tables, LoadTransfer(q[i]), l)]

\* What the probe has to sample: of the rows loaded, and of those recomputed.
LoadedDigests(cf, tables, q, l) ==
  [i \in DOMAIN q |-> LET spans == LayerSpans(cf, tables, LoadTransfer(q[i]), l) IN
     [k \in DOMAIN spans |-> [j \in 1 .. TokenCount(spans[k]) |->
        LoadedRow(q[i], l, spans[k].span.target.start + (j - 1))]]]
PrefillDigests(cf, tables, q, prompt, l) ==
  [i \in DOMAIN q |-> LET spans == LayerSpans(cf, tables, LoadTransfer(q[i]), l) IN
     [k \in DOMAIN spans |-> [j \in 1 .. TokenCount(spans[k]) |->
        Computed(prompt, l, spans[k].span.target.start + (j - 1))]]]

\* The probe has sampled the spans of the candidates, and what it sampled is what
\* the rows have to be.
ProbeOk(sampled, at, cf, r) ==
  /\ sampled = [f \in {"spans", "source", "after_load", "prefill"} |-> sampled[f]]
  /\ sampled.spans = [l \in Layers |-> SpansOf(cf, r.tables, r.candidates, l)]
  /\ sampled.prefill = [l \in Layers |-> sampled.prefill[l]]
  /\ \A l \in Layers : sampled.source[l] = LoadedDigests(cf, r.tables, r.candidates, l)
  /\ at = "scatter" => r.n > 0
  /\ at # "scatter" => \A l \in Layers :
       sampled.after_load[l] = LoadedDigests(cf, r.tables, r.candidates, l)
  /\ at = "forward" => \A l \in Layers : l < r.n =>
       sampled.prefill[l] = PrefillDigests(cf, r.tables, r.candidates, r.prompt, l)
  /\ at \notin {"scatter", "forward"} => \A l \in Layers :
       sampled.prefill[l] = PrefillDigests(cf, r.tables, r.candidates, r.prompt, l)

\* The samples of a probe, once it has begun, are right.
ProbeInv ==
  probe # <<>> =>
    /\ pc \in {"scatter", "forward", "gather", "store", "publish", "finish", "stopped"}
    /\ pc # "stopped" => ProbeOk(probe, pc, config, cur)

\* What the evidence file says once it is written.
EvidenceOk(file, records) ==
  /\ file.recomputed_tokens = Len(file.target_prompt)
  /\ Len(file.source_prompt) = file.loaded_tokens
  /\ Records(file.target_prompt) \subseteq records
  /\ \A c \in file.segments : c.record \in records
  /\ \A l \in Layers : \A span \in UNION {ToSet(spans) : spans \in ToSet(file.prefill[l])} :
       ToSet(span) \subseteq {Computed(file.target_prompt, l, p) :
                               p \in 0 .. Len(file.target_prompt) - 1}

EvidenceInv == evidence # <<>> => EvidenceOk(evidence, sidecar)

\* The inductive invariant.
Inv ==
  /\ ShapeInv /\ RequestsInv /\ LiveInv /\ ForwardInv /\ StoreInv /\ ServerInv /\ LoadInv
  /\ ProbeInv /\ EvidenceInv

-----------------------------------------------------------------------------
(* What the invariant rests on.                                             *)

\* A row depends on the tokens up to its own only.
LEMMA PrefixRows ==
  ASSUME NEW prompt \in Seq(Tokens), NEW n \in 0 .. Len(prompt), NEW l, NEW p \in 0 .. n - 1
  PROVE  Computed(SubSeq(prompt, 1, n), l, p) = Computed(prompt, l, p)
<1> DEFINE key == SubSeq(prompt, 1, n)
<1>1. /\ key \in Seq(Tokens) /\ Len(key) = n
      /\ \A i \in 1 .. n : key[i] = prompt[i]
  OBVIOUS
<1>2. p + 1 \in 1 .. n /\ n \in Nat
  OBVIOUS
<1> HIDE DEF key
<1>3. key[p + 1] = prompt[p + 1]
  BY <1>1, <1>2
<1>4. SubSeq(key, 1, p + 1) = SubSeq(prompt, 1, p + 1)
  <2>1. SubSeq(key, 1, p + 1) = [i \in 1 .. p + 1 |-> key[i]]
    BY <1>1, <1>2
  <2>2. SubSeq(prompt, 1, p + 1) = [i \in 1 .. p + 1 |-> prompt[i]]
    BY <1>1, <1>2
  <2>3. \A i \in 1 .. p + 1 : key[i] = prompt[i]
    BY <1>1, <1>2
  <2> QED BY <2>1, <2>2, <2>3
<1>5. Computed(key, l, p) = Computed(prompt, l, p)
  BY <1>3, <1>4 DEF Computed, Context
<1> QED BY <1>5 DEF key

\* Requests that hold different blocks have different slots.
LEMMA ForeignSlots ==
  ASSUME NEW c, ConfigOk(c), NEW r, RequestOk(r), NEW s, RequestOk(s),
         BlocksHeld(r) \cap BlocksHeld(s) = {},
         NEW l1 \in Layers, NEW p1 \in 0 .. Len(r.prompt) - 1,
         NEW l2 \in Layers, NEW p2 \in 0 .. Len(s.prompt) - 1
  PROVE  SlotIn(c, r.tables, l1, p1) # SlotIn(c, s.tables, l2, p2)
<1>1. SlotIn(c, r.tables, l1, p1) \div BlockSize \in BlocksHeld(r)
  BY SlotOfRow DEF RequestOk, BlocksHeld
<1>2. SlotIn(c, s.tables, l2, p2) \div BlockSize \in BlocksHeld(s)
  BY SlotOfRow DEF RequestOk, BlocksHeld
<1> QED BY <1>1, <1>2

\* The memory after a layer of the forward pass.
AfterLayer(n) ==
  [mem EXCEPT ![Tensor(n)] = [s \in Slots |->
     LET here == {p \in 0 .. Len(cur.prompt) - 1 : SlotOf(cur, n, p) = s}
     IN IF here = {} THEN mem[Tensor(n)][s]
        ELSE Computed(cur.prompt, n, CHOOSE p \in here : TRUE)]]

\* A layer of the forward pass writes the rows of its layer and no others.
LEMMA ForwardEffect ==
  ASSUME ConfigOk(config), RequestOk(cur), IsMemory(mem, Tensors, Slots),
         NEW n \in Layers, NEW new, new = AfterLayer(n)
  PROVE  /\ IsMemory(new, Tensors, Slots)
         /\ \A p \in 0 .. Len(cur.prompt) - 1 :
              new[Tensor(n)][SlotIn(config, cur.tables, n, p)] = Computed(cur.prompt, n, p)
         /\ \A t \in Tensors, s \in Slots :
              (t # Tensor(n) \/ \A p \in 0 .. Len(cur.prompt) - 1 :
                                  SlotIn(config, cur.tables, n, p) # s)
                => new[t][s] = mem[t][s]
<1> DEFINE Here(s) == {p \in 0 .. Len(cur.prompt) - 1 : SlotIn(config, cur.tables, n, p) = s}
           row(s) == IF Here(s) = {} THEN mem[Tensor(n)][s]
                     ELSE Computed(cur.prompt, n, CHOOSE p \in Here(s) : TRUE)
<1>1. new = [mem EXCEPT ![Tensor(n)] = [s \in Slots |-> row(s)]]
  BY DEF AfterLayer, SlotOf, SlotIn
<1>2. Tensor(n) \in Tensors /\ DOMAIN mem = Tensors
  BY DEF Tensor, Tensors, IsMemory
<1>3. new[Tensor(n)] = [s \in Slots |-> row(s)] /\ DOMAIN new = Tensors
  <2> HIDE DEF row
  <2> QED BY <1>1, <1>2
<1>4. \A t \in Tensors : t # Tensor(n) => new[t] = mem[t]
  <2> HIDE DEF row
  <2> QED BY <1>1, <1>2
<1>5. \A s \in Slots : IsRow(row(s)) /\ (Here(s) = {} => row(s) = mem[Tensor(n)][s])
  BY <1>2 DEF IsRow, IsMemory, Computed
<1>6. IsMemory(new, Tensors, Slots)
  <2> HIDE DEF row
  <2> QED BY <1>3, <1>4, <1>5 DEF IsMemory
<1>7. ASSUME NEW p \in 0 .. Len(cur.prompt) - 1
      PROVE  new[Tensor(n)][SlotIn(config, cur.tables, n, p)] = Computed(cur.prompt, n, p)
  <2> DEFINE s == SlotIn(config, cur.tables, n, p)
  <2>1. s \in Slots
    BY SlotOfRow DEF RequestOk
  <2>2. \A q \in 0 .. Len(cur.prompt) - 1 : SlotIn(config, cur.tables, n, q) = s => q = p
    BY RowSlotsAreDistinct DEF RequestOk
  <2>3. Here(s) = {p}
    BY <2>2
  <2> HIDE DEF s, Here
  <2>4. row(s) = Computed(cur.prompt, n, p)
    BY <2>3
  <2> HIDE DEF row
  <2> QED BY <1>3, <2>1, <2>4 DEF s
<1>8. ASSUME NEW t \in Tensors, NEW s \in Slots,
             t # Tensor(n) \/ \A p \in 0 .. Len(cur.prompt) - 1 :
                                SlotIn(config, cur.tables, n, p) # s
      PROVE  new[t][s] = mem[t][s]
  <2>1. CASE t # Tensor(n)
    BY <1>4, <2>1
  <2>2. CASE t = Tensor(n)
    <3>1. Here(s) = {}
      BY <1>8, <2>2
    <3> HIDE DEF row, Here
    <3> QED BY <1>3, <1>5, <2>2, <3>1
  <2> QED BY <2>1, <2>2
<1> QED BY <1>6, <1>7, <1>8

\* The memory differs in the rows of one request only.
OnlyCurrent(c, tables, prompt, old, new) ==
  \A t \in Tensors, s \in Slots :
    (\A l \in Layers, p \in 0 .. Len(prompt) - 1 :
       ~(Tensor(l) = t /\ SlotIn(c, tables, l, p) = s)) => new[t][s] = old[t][s]

\* A write to the rows of one request keeps those of the others computed.
LEMMA OthersKeepRows ==
  ASSUME NEW c, ConfigOk(c), NEW r, RequestOk(r), NEW s, RequestOk(s),
         BlocksHeld(r) \cap BlocksHeld(s) = {},
         NEW old, NEW new, OnlyCurrent(c, s.tables, s.prompt, old, new),
         RowsComputed(c, old, r.prompt, r.tables, Layers)
  PROVE  RowsComputed(c, new, r.prompt, r.tables, Layers)
<1> SUFFICES ASSUME NEW l \in Layers, NEW p \in 0 .. Len(r.prompt) - 1
             PROVE  new[Tensor(l)][SlotIn(c, r.tables, l, p)] = Computed(r.prompt, l, p)
  BY DEF RowsComputed
<1> DEFINE slot == SlotIn(c, r.tables, l, p)
<1>1. Tensor(l) \in Tensors /\ slot \in Slots
  BY SlotOfRow DEF RequestOk, Tensor, Tensors
<1>2. \A l2 \in Layers, p2 \in 0 .. Len(s.prompt) - 1 : slot # SlotIn(c, s.tables, l2, p2)
  BY ForeignSlots
<1>3. old[Tensor(l)][slot] = Computed(r.prompt, l, p)
  BY DEF RowsComputed
<1> HIDE DEF slot
<1>4. new[Tensor(l)][slot] = old[Tensor(l)][slot]
  BY <1>1, <1>2 DEF OnlyCurrent
<1> QED BY <1>3, <1>4 DEF slot

\* What the probe samples of a candidate are the rows of its target.
LEMMA SampledRow ==
  ASSUME NEW c, ConfigOk(c), NEW tables, TablesOk(tables), NEW prompt \in Prompts,
         NEW d, FitsPrompt(d, prompt), NEW l \in Layers,
         NEW k \in DOMAIN LayerSpans(c, tables, LoadTransfer(d), l),
         NEW j \in 1 .. TokenCount(LayerSpans(c, tables, LoadTransfer(d), l)[k])
  PROVE  LET s == LayerSpans(c, tables, LoadTransfer(d), l)[k]
             p == s.span.target.start + (j - 1)
         IN /\ s.layer = l
            /\ p \in Target(d) /\ p \in Nat
            /\ s.span.slot + j - 1 = SlotIn(c, tables, l, p)
            /\ RetrievalBufferOffset + s.span.target.start + j - 1 = p
            /\ s.span.target.start + j - 1 = p
            /\ s.span.source.start + j - 1 = d.record.source + (p - d.target)
<1> DEFINE transfer == TokenTransfer(d.record.source, d.target, ChunkSize)
           s == LayerSpan(c, tables, transfer, l, k)
<1>1. /\ d.record.source \in Nat /\ d.target \in Nat /\ ChunkSize \in Nat \ {0}
      /\ d.target + ChunkSize <= Len(prompt)
  BY RowAssumption DEF FitsPrompt
<1>2. k \in 1 .. BlocksTouched(transfer)
  BY DEF LayerSpans, ScatterGroup, LoadTransfer
<1>3. LayerSpans(c, tables, LoadTransfer(d), l)[k] = s
  BY DEF LayerSpans, LayerSpan, LoadTransfer
<1>4. SpanOk(s, c, tables, d.record.source, d.target, ChunkSize)
  BY <1>1, <1>2, PromptSpanOk
<1>5. s.layer = l
  BY DEF LayerSpan
<1> HIDE DEF s
<1> DEFINE a == s.span.target.start
           b == s.span.target.end
           slot == s.span.slot
           from == s.span.source.start
           p == a + (j - 1)
<1>6. /\ a \in Nat /\ b \in Nat /\ slot \in Nat /\ from = d.record.source + a - d.target
      /\ j \in 1 .. b - a
      /\ \A q \in a .. b - 1 : /\ q \in d.target .. d.target + ChunkSize - 1
                               /\ slot + (q - a) = SlotIn(c, tables, s.layer, q)
  BY <1>3, <1>4 DEF SpanOk, TokenCount
<1> HIDE DEF a, b, slot, from
<1>7. p \in a .. b - 1 /\ p \in Nat
  BY <1>6
<1>8. /\ p \in Target(d) /\ slot + (p - a) = SlotIn(c, tables, l, p)
  BY <1>5, <1>6, <1>7 DEF Target
<1>9. /\ slot + j - 1 = slot + (p - a) /\ 0 + a + j - 1 = p /\ a + j - 1 = p
      /\ from + j - 1 = d.record.source + (p - d.target)
  <2> DEFINE src == d.record.source
             tgt == d.target
  <2>1. src \in Nat /\ tgt \in Nat /\ from = src + a - tgt /\ j \in Nat
    BY <1>1, <1>6
  <2> HIDE DEF src, tgt
  <2>2. /\ slot + j - 1 = slot + (p - a) /\ 0 + a + j - 1 = p /\ a + j - 1 = p
        /\ from + j - 1 = src + (p - tgt)
    BY <1>6, <2>1
  <2> QED BY <2>2 DEF src, tgt
<1> HIDE DEF p
<1> QED BY <1>3, <1>5, <1>7, <1>8, <1>9 DEF a, slot, from, p, RetrievalBufferOffset

\* A key that is stored for its source position is corrected to its target.
LEMMA CorrectedKey ==
  ASSUME NEW d, d.record.source \in Nat, d.target \in Nat, NEW l, NEW p \in Nat
  PROVE  CorrectKeyPositions(StoredRow(d, l, p).k, d.record.source + (p - d.target), p)
           = [StoredRow(d, l, p).k EXCEPT !.pos = p]
<1> DEFINE n == d.record.source + (p - d.target)
<1>1. n \in Int /\ p \in Int /\ (n + p) - n = p
  OBVIOUS
<1> HIDE DEF n
<1>2. StoredRow(d, l, p).k = [layer |-> l, ctx |-> Context(d.record.key, l, n), pos |-> n]
  BY DEF StoredRow, Computed, n
<1>3. CorrectKeyPositions(StoredRow(d, l, p).k, n, p)
        = [StoredRow(d, l, p).k EXCEPT !.pos = p]
  BY <1>1, <1>2 DEF CorrectKeyPositions
<1> QED BY <1>3 DEF n

\* The probe samples the rows that were staged, corrected as they are loaded.
LEMMA SampledSource ==
  ASSUME ConfigOk(config), RequestOk(cur), NEW records,
         CandidatesOk(cur.candidates, cur.prompt, records),
         \A i \in 1 .. Len(cur.candidates) : Staged(staging, cur.candidates[i]),
         NEW l \in Layers
  PROVE  StagingSourceDigests(CanonicalSpans(l))
           = LoadedDigests(config, cur.tables, cur.candidates, l)
<1> DEFINE q == cur.candidates
           LS(i) == LayerSpans(config, cur.tables, LoadTransfer(q[i]), l)
           Row(s, j) == [k |-> PrepareScatterSpan(s)[1].rows[j],
                         v |-> PrepareScatterSpan(s)[2].rows[j]]
           at(i, k, j) == LS(i)[k].span.target.start + (j - 1)
<1>1. ASSUME NEW i \in DOMAIN q, NEW k \in DOMAIN LS(i), NEW j \in 1 .. TokenCount(LS(i)[k])
      PROVE  Row(LS(i)[k], j) = LoadedRow(q[i], l, at(i, k, j))
  <2> DEFINE s == LS(i)[k]
             p == at(i, k, j)
             d == q[i]
  <2>1. FitsPrompt(d, cur.prompt) /\ Staged(staging, d)
    BY DEF CandidatesOk, CandidateOk
  <2>2. /\ s.layer = l
        /\ p \in Target(d) /\ p \in Nat
        /\ RetrievalBufferOffset + s.span.target.start + j - 1 = p
        /\ s.span.target.start + j - 1 = p
        /\ s.span.source.start + j - 1 = d.record.source + (p - d.target)
    BY <2>1, SampledRow DEF RequestOk
  <2>3. j \in 1 .. TokenCount(s)
    BY <1>1
  <2> HIDE DEF s, p, d, LS
  <2>4. /\ PrepareScatterSpan(s)[1].rows[j]
             = CorrectKeyPositions(staging[l][p].k, d.record.source + (p - d.target), p)
        /\ PrepareScatterSpan(s)[2].rows[j] = staging[l][p].v
    BY <2>2, <2>3 DEF PrepareScatterSpan, PreparedCopy
  <2>5. staging[l][p] = StoredRow(d, l, p)
    BY <2>1, <2>2 DEF Staged
  <2>6. d.record.source \in Nat /\ d.target \in Nat
    BY <2>1 DEF FitsPrompt
  <2>7. CorrectKeyPositions(StoredRow(d, l, p).k, d.record.source + (p - d.target), p)
          = [StoredRow(d, l, p).k EXCEPT !.pos = p]
    BY <2>2, <2>6, CorrectedKey
  <2>8. Row(s, j) = LoadedRow(d, l, p)
    BY <2>4, <2>5, <2>7 DEF LoadedRow
  <2> QED BY <2>8 DEF s, p, d
<1>2. CanonicalSpans(l) = [i \in DOMAIN q |-> LS(i)]
  BY DEF CanonicalSpans
<1>3. StagingSourceDigests(CanonicalSpans(l))
        = [i \in DOMAIN q |-> [k \in DOMAIN LS(i) |-> [j \in 1 .. TokenCount(LS(i)[k]) |->
             Row(LS(i)[k], j)]]]
  <2> HIDE DEF LS, Row
  <2> QED BY <1>2 DEF StagingSourceDigests, Digests, Row
<1>4. LoadedDigests(config, cur.tables, q, l)
        = [i \in DOMAIN q |-> [k \in DOMAIN LS(i) |-> [j \in 1 .. TokenCount(LS(i)[k]) |->
             LoadedRow(q[i], l, at(i, k, j))]]]
  BY DEF LoadedDigests
<1> HIDE DEF LS, Row, at, q
<1>5. \A i \in DOMAIN q : \A k \in DOMAIN LS(i) :
        [j \in 1 .. TokenCount(LS(i)[k]) |-> Row(LS(i)[k], j)]
          = [j \in 1 .. TokenCount(LS(i)[k]) |-> LoadedRow(q[i], l, at(i, k, j))]
  BY <1>1
<1> QED BY <1>3, <1>4, <1>5 DEF q

\* The probe samples the rows of the targets, loaded or recomputed.
LEMMA SampledPages ==
  ASSUME ConfigOk(config), RequestOk(cur), NEW records,
         CandidatesOk(cur.candidates, cur.prompt, records), NEW m, NEW l \in Layers
  PROVE  /\ (\A i \in 1 .. Len(cur.candidates) :
               Loaded(config, m, cur.tables, cur.candidates[i]))
              => PagedDigests(m, CanonicalSpans(l))
                   = LoadedDigests(config, cur.tables, cur.candidates, l)
         /\ RowsComputed(config, m, cur.prompt, cur.tables, {l})
              => PagedDigests(m, CanonicalSpans(l))
                   = PrefillDigests(config, cur.tables, cur.candidates, cur.prompt, l)
<1> DEFINE q == cur.candidates
           LS(i) == LayerSpans(config, cur.tables, LoadTransfer(q[i]), l)
           Row(s, j) == m[Tensor(s.layer)][s.span.slot + j - 1]
           at(i, k, j) == LS(i)[k].span.target.start + (j - 1)
<1>1. ASSUME NEW i \in DOMAIN q, NEW k \in DOMAIN LS(i), NEW j \in 1 .. TokenCount(LS(i)[k])
      PROVE  /\ Row(LS(i)[k], j) = m[Tensor(l)][SlotIn(config, cur.tables, l, at(i, k, j))]
             /\ at(i, k, j) \in Target(q[i])
             /\ at(i, k, j) \in 0 .. Len(cur.prompt) - 1
  <2> DEFINE s == LS(i)[k]
             p == at(i, k, j)
             d == q[i]
  <2>1. FitsPrompt(d, cur.prompt)
    BY DEF CandidatesOk, CandidateOk
  <2>2. /\ s.layer = l /\ p \in Target(d) /\ p \in Nat
        /\ s.span.slot + j - 1 = SlotIn(config, cur.tables, l, p)
    BY <2>1, SampledRow DEF RequestOk
  <2>3. p \in 0 .. Len(cur.prompt) - 1
    <3>1. Len(cur.prompt) \in Nat /\ ChunkSize \in Nat
      BY PromptAssumption, RowAssumption DEF RequestOk
    <3> HIDE DEF p, d
    <3> QED BY <2>1, <2>2, <3>1 DEF Target, FitsPrompt
  <2> HIDE DEF s, p, d
  <2>4. Row(s, j) = m[Tensor(l)][SlotIn(config, cur.tables, l, p)]
    BY <2>2
  <2> QED BY <2>2, <2>3, <2>4 DEF s, p, d
<1>2. CanonicalSpans(l) = [i \in DOMAIN q |-> LS(i)]
  BY DEF CanonicalSpans
<1>3. PagedDigests(m, CanonicalSpans(l))
        = [i \in DOMAIN q |-> [k \in DOMAIN LS(i) |-> [j \in 1 .. TokenCount(LS(i)[k]) |->
             Row(LS(i)[k], j)]]]
  <2> HIDE DEF LS
  <2> QED BY <1>2 DEF PagedDigests, Digests
<1>4. LoadedDigests(config, cur.tables, q, l)
        = [i \in DOMAIN q |-> [k \in DOMAIN LS(i) |-> [j \in 1 .. TokenCount(LS(i)[k]) |->
             LoadedRow(q[i], l, at(i, k, j))]]]
  BY DEF LoadedDigests
<1>5. PrefillDigests(config, cur.tables, q, cur.prompt, l)
        = [i \in DOMAIN q |-> [k \in DOMAIN LS(i) |-> [j \in 1 .. TokenCount(LS(i)[k]) |->
             Computed(cur.prompt, l, at(i, k, j))]]]
  BY DEF PrefillDigests
<1>d. DOMAIN q = 1 .. Len(q)
  BY DEF CandidatesOk
<1> HIDE DEF LS, Row, at, q
<1>6. ASSUME \A i \in 1 .. Len(q) : Loaded(config, m, cur.tables, q[i])
      PROVE  PagedDigests(m, CanonicalSpans(l)) = LoadedDigests(config, cur.tables, q, l)
  <2>1. \A i \in DOMAIN q : \A k \in DOMAIN LS(i) : \A j \in 1 .. TokenCount(LS(i)[k]) :
          Row(LS(i)[k], j) = LoadedRow(q[i], l, at(i, k, j))
    BY <1>1, <1>6, <1>d DEF Loaded
  <2>2. \A i \in DOMAIN q : \A k \in DOMAIN LS(i) :
          [j \in 1 .. TokenCount(LS(i)[k]) |-> Row(LS(i)[k], j)]
            = [j \in 1 .. TokenCount(LS(i)[k]) |-> LoadedRow(q[i], l, at(i, k, j))]
    BY <2>1
  <2> QED BY <1>3, <1>4, <2>2
<1>7. ASSUME RowsComputed(config, m, cur.prompt, cur.tables, {l})
      PROVE  PagedDigests(m, CanonicalSpans(l))
               = PrefillDigests(config, cur.tables, q, cur.prompt, l)
  <2>1. \A i \in DOMAIN q : \A k \in DOMAIN LS(i) : \A j \in 1 .. TokenCount(LS(i)[k]) :
          Row(LS(i)[k], j) = Computed(cur.prompt, l, at(i, k, j))
    BY <1>1, <1>7 DEF RowsComputed
  <2>2. \A i \in DOMAIN q : \A k \in DOMAIN LS(i) :
          [j \in 1 .. TokenCount(LS(i)[k]) |-> Row(LS(i)[k], j)]
            = [j \in 1 .. TokenCount(LS(i)[k]) |-> Computed(cur.prompt, l, at(i, k, j))]
    BY <2>1
  <2> QED BY <1>3, <1>5, <2>2
<1> QED BY <1>6, <1>7 DEF q

-----------------------------------------------------------------------------
(* The steps.                                                               *)

\* The request of the step stays the same request.
SameRequest(r, s) ==
  IsCurrent(s) /\ s.prompt = r.prompt /\ s.tables = r.tables /\ s.candidates = r.candidates

\* A step that goes on to the next candidate, layer or chunk.
LEMMA Counted ==
  ASSUME IsCurrent(cur), NEW x, cur' = [cur EXCEPT !.n = x]
  PROVE  SameRequest(cur, cur') /\ cur'.n = x /\ cur'.load = cur.load /\ cur'.store = cur.store
  BY DEF SameRequest, IsCurrent

\* The end of a load, as wait_for_layer_load reports it.
LEMMA LoadEnded ==
  ASSUME IsCurrent(cur), NEW state, LoadEnds(state)
  PROVE  /\ SameRequest(cur, cur') /\ cur'.n = 0 /\ cur'.load = state
         /\ cur'.store = cur.store /\ pc' = "forward"
  BY DEF SameRequest, IsCurrent, LoadEnds

\* The end of a store, as wait_for_save reports it.
LEMMA StoreEnded ==
  ASSUME IsCurrent(cur), NEW state, StoreEnds(state)
  PROVE  /\ SameRequest(cur, cur') /\ cur'.n = cur.n /\ cur'.load = cur.load
         /\ cur'.store = state /\ pc' = "finish"
  BY DEF SameRequest, IsCurrent, StoreEnds

\* A step of the worker on the request in hand leaves its blocks alone.
LEMMA RequestsStep ==
  ASSUME RequestsInv, Busy(pc), Busy(pc'), SameRequest(cur, cur'),
         cur'.load \in Attempts, cur'.store \in Attempts, live' = live,
         sidecar \subseteq sidecar'
  PROVE  RequestsInv'
<1>1. /\ RequestOk(cur) /\ CandidatesOk(cur.candidates, cur.prompt, sidecar)
      /\ \A r \in live : BlocksHeld(r) \cap BlocksHeld(cur) = {}
  BY DEF RequestsInv
<1>2. CandidatesOk(cur'.candidates, cur'.prompt, sidecar')
  BY <1>1 DEF SameRequest, CandidatesOk, CandidateOk
<1>3. RequestOk(cur') /\ BlocksHeld(cur') = BlocksHeld(cur) /\ IsCurrent(cur')
  BY <1>1 DEF SameRequest, RequestOk, BlocksHeld
<1> QED BY <1>1, <1>2, <1>3 DEF RequestsInv

\* Records are only added, so the file stays true.
LEMMA EvidenceStep ==
  ASSUME EvidenceInv, evidence' = evidence, sidecar \subseteq sidecar'
  PROVE  EvidenceInv'
  BY DEF EvidenceInv, EvidenceOk

\* Nothing is scheduled, stored or sampled to begin with.
LEMMA InitInv == Init => Inv
<1> SUFFICES ASSUME Init PROVE Inv
  OBVIOUS
<1>1. IsMemory(mem, Tensors, Slots) /\ IsMemory(staging, Layers, Room)
  BY DEF Init, IsMemory, IsRow, Blank, Room
<1>2. ShapeInv
  <2>1. 0 \in 0 .. MaxRequests
    BY RowAssumption
  <2> QED BY <1>1, <2>1 DEF Init, ShapeInv, PCs
<1>3. RequestsInv
  BY DEF Init, RequestsInv, Busy
<1>4. LiveInv /\ ForwardInv /\ StoreInv /\ LoadInv
  BY DEF Init, LiveInv, ForwardInv, StoreInv, LoadInv
<1>5. ServerInv
  <2>1. DOMAIN objects = {} /\ sidecar = {}
    BY DEF Init
  <2> QED BY <2>1 DEF ServerInv
<1>6. ProbeInv /\ EvidenceInv
  BY DEF Init, ProbeInv, EvidenceInv
<1> QED BY <1>2, <1>3, <1>4, <1>5, <1>6 DEF Inv

\* register_kv_caches keeps the invariant: no request has rows yet.
LEMMA RegisterStep ==
  ASSUME Inv, NEW c \in KvCacheConfigs, RegisterKvCaches(c)
  PROVE  Inv'
<1>1. pc = "start" /\ live = {} /\ cur = <<>>
  BY DEF RegisterKvCaches, Inv, ShapeInv, RequestsInv, Busy
<1>2. ShapeInv'
  BY <1>1, ConfigAssumption DEF Inv, ShapeInv, RegisterKvCaches, ConfigOk, PCs
<1>3. RequestsInv'
  BY <1>1 DEF Inv, RequestsInv, RegisterKvCaches, Busy
<1>4. LiveInv' /\ ForwardInv' /\ StoreInv' /\ LoadInv'
  BY <1>1 DEF RegisterKvCaches, LiveInv, ForwardInv, StoreInv, LoadInv
<1>5. ServerInv'
  BY DEF Inv, ServerInv, RegisterKvCaches
<1>6. ProbeInv'
  BY <1>1 DEF Inv, ProbeInv, RegisterKvCaches
<1>7. EvidenceInv'
  BY EvidenceStep DEF Inv, RegisterKvCaches
<1> QED BY <1>2, <1>3, <1>4, <1>5, <1>6, <1>7 DEF Inv

\* What a lookup selects.
LEMMA SelectedOk ==
  ASSUME NEW prompt \in Prompts, NEW q \in Selected(prompt), ServerInv
  PROVE  CandidatesOk(q, prompt, sidecar)
<1>1. PICK n \in 0 .. ChunkCount(prompt) : q \in [1 .. n -> Candidates(prompt)]
  BY DEF Selected
<1>2. \A i, j \in DOMAIN q : i < j => q[i].target + ChunkSize <= q[j].target
  BY DEF Selected
<1>3. Len(prompt) \in Nat /\ ChunkSize \in Nat \ {0}
  BY PromptAssumption, RowAssumption
<1>4. n \in Nat
  <2>1. ChunkCount(prompt) \in Nat
    BY <1>3, Division DEF ChunkCount
  <2> QED BY <2>1
<1>5. DOMAIN q = 1 .. n /\ Len(q) = n /\ q = [i \in 1 .. n |-> q[i]]
  BY <1>1, <1>4
<1>6. ASSUME NEW i \in 1 .. n
      PROVE  CandidateOk(q[i], prompt, sidecar)
  <2> DEFINE c == q[i]
  <2>1. /\ c \in [record : sidecar, target : 0 .. Len(prompt) - ChunkSize]
        /\ c.record.tokens = Window(prompt, c.target)
    BY <1>1 DEF Candidates
  <2> HIDE DEF c
  <2>2. /\ c.record \in sidecar /\ c.target \in 0 .. Len(prompt) - ChunkSize
    BY <2>1
  <2>3. c.record.source \in Nat
    BY <2>2 DEF ServerInv, RecordOk
  <2>4. FitsPrompt(c, prompt)
    BY <1>3, <2>2, <2>3 DEF FitsPrompt
  <2> QED BY <2>1, <2>2, <2>4 DEF CandidateOk, c
<1> QED BY <1>2, <1>4, <1>5, <1>6 DEF CandidatesOk

\* A request that is scheduled brings blocks of its own, and its candidates are
\* backed by records.
LEMMA ScheduleStep ==
  ASSUME Inv, NEW prompt \in Prompts, NEW tables \in Allocations,
         NEW candidates \in Selected(prompt), Schedule(prompt, tables, candidates)
  PROVE  Inv'
<1>1. /\ pc = "idle" /\ cur = <<>> /\ ConfigOk(config) /\ probe = <<>>
      /\ served' = served + 1 /\ served' \in 0 .. MaxRequests
      /\ UNCHANGED <<config, mem, staging, live, ready, objects, sidecar, probe, evidence>>
  <2>1. /\ pc = "idle" /\ served < MaxRequests /\ served' = served + 1
        /\ UNCHANGED <<config, mem, staging, live, ready, objects, sidecar, probe, evidence>>
    BY DEF Schedule
  <2>2. cur = <<>> /\ ConfigOk(config) /\ probe = <<>>
    BY <2>1 DEF Inv, ShapeInv, RequestsInv, Busy, ProbeInv
  <2>3. served' \in 0 .. MaxRequests
    BY <2>1, RowAssumption DEF Inv, ShapeInv
  <2> QED BY <2>1, <2>2, <2>3
<1>2. pc' \in {"before_forward", "stopped"}
  BY DEF Schedule
<1>3. ShapeInv'
  BY <1>1, <1>2 DEF Inv, ShapeInv, PCs
<1>4. LiveInv' /\ ServerInv'
  BY <1>1 DEF Inv, LiveInv, ServerInv
<1>5. ProbeInv'
  BY <1>1, <1>2 DEF ProbeInv
<1>6. EvidenceInv'
  BY <1>1, EvidenceStep DEF Inv
<1>7. ForwardInv' /\ StoreInv'
  BY <1>2 DEF ForwardInv, StoreInv
<1>8. CASE pc' = "stopped"
  <2>1. cur' = <<>>
    BY <1>1, <1>8 DEF Schedule
  <2>2. RequestsInv'
    BY <1>1, <1>8, <2>1 DEF Inv, RequestsInv, Busy
  <2>3. LoadInv'
    BY <1>8 DEF LoadInv
  <2> QED BY <1>3, <1>4, <1>5, <1>6, <1>7, <2>2, <2>3 DEF Inv
<1>9. CASE pc' = "before_forward"
  <2>1. /\ ValidKvCacheBlocks(tables)
        /\ cur' = [prompt |-> prompt, tables |-> tables, candidates |-> candidates,
                   load |-> "none", store |-> "none", n |-> 0]
        /\ \A r \in live : BlocksHeld(r) \cap (ToSet(tables[1]) \cup ToSet(tables[2])) = {}
    BY <1>9 DEF Schedule
  <2>2. /\ IsCurrent(cur') /\ cur'.prompt = prompt /\ cur'.tables = tables
        /\ cur'.candidates = candidates /\ cur'.load = "none" /\ cur'.store = "none"
        /\ cur'.n = 0
    BY <2>1 DEF IsCurrent
  <2>3. RequestOk(cur')
    BY <2>1, <2>2 DEF RequestOk, TablesOk
  <2>4. CandidatesOk(cur'.candidates, cur'.prompt, sidecar')
    BY <1>1, <2>2, SelectedOk DEF Inv
  <2>5. \A r \in live' : BlocksHeld(r) \cap BlocksHeld(cur') = {}
    BY <1>1, <2>1, <2>2 DEF BlocksHeld
  <2>6. RequestsInv'
    <3>1. cur'.load \in Attempts /\ cur'.store \in Attempts
      BY <2>2 DEF Attempts
    <3>2. /\ \A r \in live' : RequestOk(r)
          /\ \A r, s \in live' : r # s => BlocksHeld(r) \cap BlocksHeld(s) = {}
      BY <1>1 DEF Inv, RequestsInv
    <3> QED BY <1>9, <2>2, <2>3, <2>4, <2>5, <3>1, <3>2 DEF RequestsInv, Busy
  <2>7. LoadInv'
    BY <1>9, <2>2 DEF LoadInv
  <2> QED BY <1>3, <1>4, <1>5, <1>6, <1>7, <2>6, <2>7 DEF Inv
<1> QED BY <1>2, <1>8, <1>9

\* The facts of a step of the worker.
LEMMA WorkerFacts ==
  ASSUME Inv, Busy(pc)
  PROVE  /\ ConfigOk(config) /\ IsCurrent(cur) /\ RequestOk(cur)
         /\ cur.load \in Attempts /\ cur.store \in Attempts
         /\ CandidatesOk(cur.candidates, cur.prompt, sidecar)
         /\ IsMemory(mem, Tensors, Slots) /\ IsMemory(staging, Layers, Room)
         /\ cur.prompt \in Prompts /\ cur.prompt \in Seq(Tokens) /\ Len(cur.prompt) \in Nat
         /\ TablesOk(cur.tables)
<1>1. pc \notin {"start", "stopped"}
  BY DEF Busy
<1>2. ConfigOk(config)
  BY <1>1 DEF Inv, ShapeInv
<1>3. RequestOk(cur)
  BY DEF Inv, RequestsInv
<1>4. cur.prompt \in Seq(Tokens) /\ Len(cur.prompt) \in Nat
  BY <1>3, PromptAssumption DEF RequestOk
<1> QED BY <1>2, <1>3, <1>4 DEF Inv, ShapeInv, RequestsInv, RequestOk

\* start_load_kv keeps the invariant, whether it loads or not.
LEMMA BeforeForwardStep ==
  ASSUME Inv, BeforeForward
  PROVE  Inv'
<1>1. /\ pc = "before_forward" /\ Busy(pc) /\ cur.n = 0
      /\ UNCHANGED <<config, mem, staging, live, served, ready, objects, sidecar, probe,
                     evidence>>
  BY DEF BeforeForward, Inv, LoadInv, Busy
<1>2. /\ IsCurrent(cur) /\ cur.load \in Attempts /\ cur.store \in Attempts
      /\ Len(cur.prompt) \in Nat /\ CandidatesOk(cur.candidates, cur.prompt, sidecar)
  BY <1>1, WorkerFacts
<1>3. probe = <<>>
  BY <1>1 DEF Inv, ProbeInv
<1>4. /\ SameRequest(cur, cur') /\ cur'.n = 0 /\ pc' \in {"forward", "retrieve"}
      /\ cur'.load \in Attempts /\ cur'.store \in Attempts
      /\ pc' = "forward" => cur'.load \in {"not_eligible", "fallback"}
      /\ pc' = "retrieve" => cur' = cur /\ cur.candidates # <<>> /\ Len(cur.prompt) <= Capacity
  <2>1. CASE LoadEnds("not_eligible")
    BY <1>2, <2>1, LoadEnded DEF Attempts
  <2>2. CASE LoadEnds("fallback")
    BY <1>2, <2>2, LoadEnded DEF Attempts
  <2>3. CASE /\ pc' = "retrieve" /\ cur' = cur /\ cur.candidates # <<>>
             /\ Preflight({LoadTransfer(c) : c \in ToSet(cur.candidates)},
                          RetrievalBufferOffset, Len(cur.prompt))
    <3>1. 0 + Len(cur.prompt) <= Capacity
      BY <2>3 DEF Preflight, RetrievalBufferOffset
    <3> QED BY <1>1, <1>2, <2>3, <3>1 DEF SameRequest
  <2> QED BY <2>1, <2>2, <2>3 DEF BeforeForward
<1>5. ShapeInv'
  BY <1>1, <1>4 DEF Inv, ShapeInv, PCs
<1>6. RequestsInv'
  <2>1. Busy(pc')
    BY <1>4 DEF Busy
  <2> QED BY <1>1, <1>4, <2>1, RequestsStep DEF Inv
<1>7. LiveInv' /\ ServerInv'
  BY <1>1 DEF Inv, LiveInv, ServerInv
<1>8. ForwardInv'
  <2>1. 0 \in 0 .. NumLayers /\ 0 .. 0 - 1 = {}
    BY LayoutAssumption
  <2> QED BY <1>4, <2>1 DEF ForwardInv, RowsComputed
<1>9. StoreInv' /\ ProbeInv'
  BY <1>1, <1>3, <1>4 DEF StoreInv, ProbeInv
<1>10. LoadInv'
  <2>1. CASE pc' = "forward"
    BY <1>4, <2>1 DEF LoadInv
  <2>2. CASE pc' = "retrieve"
    <3>1. cur.candidates # <<>> => Len(cur.candidates) > 0
      BY <1>2 DEF CandidatesOk
    <3> QED BY <1>4, <2>2, <3>1 DEF LoadInv
  <2> QED BY <1>4, <2>1, <2>2
<1>11. EvidenceInv'
  BY <1>1, EvidenceStep DEF Inv
<1> QED BY <1>5, <1>6, <1>7, <1>8, <1>9, <1>10, <1>11 DEF Inv

\* What the server writes for a candidate are the rows of its record.
LEMMA RetrievedRows ==
  ASSUME NEW c, NEW prompt, CandidateOk(c, prompt, sidecar), ServerInv, NEW l \in Layers
  PROVE  /\ DOMAIN (Retrieved(c)[l]) = Target(c)
         /\ \A p \in Target(c) : Retrieved(c)[l][p] = StoredRow(c, l, p)
<1> DEFINE key == c.record.key
           tgt == c.target
           src == c.record.source
<1>1. /\ key \in DOMAIN objects /\ src \in Nat /\ src + ChunkSize = Len(key)
      /\ tgt \in Nat /\ ChunkSize \in Nat \ {0} /\ ObjectOk(objects, key)
  BY RowAssumption DEF CandidateOk, FitsPrompt, ServerInv, RecordOk
<1>2. Retrieved(c)[l] = [i \in 0 + tgt .. (0 + tgt) + ChunkSize - 1 |-> objects[key][l][i - (0 + tgt)]]
  BY DEF Retrieved, RetrievalBufferOffset
<1> HIDE DEF key, tgt, src
<1>3. /\ 0 + tgt = tgt /\ Retrieved(c)[l] = [i \in tgt .. tgt + ChunkSize - 1 |-> objects[key][l][i - tgt]]
  BY <1>1, <1>2
<1>4. DOMAIN (Retrieved(c)[l]) = Target(c)
  BY <1>3 DEF Target, tgt
<1>5. ASSUME NEW p \in Target(c)
      PROVE  Retrieved(c)[l][p] = StoredRow(c, l, p)
  <2>1. p \in tgt .. tgt + ChunkSize - 1
    BY DEF Target, tgt
  <2>2. p - tgt \in 0 .. ChunkSize - 1 /\ Len(key) - ChunkSize + (p - tgt) = src + (p - tgt)
    BY <1>1, <2>1
  <2>3. objects[key][l][p - tgt] = Computed(key, l, src + (p - tgt))
    BY <1>1, <2>2 DEF ObjectOk
  <2>4. Retrieved(c)[l][p] = Computed(key, l, src + (p - tgt))
    BY <1>3, <2>1, <2>3
  <2> QED BY <2>4 DEF StoredRow, key, src, tgt
<1> QED BY <1>4, <1>5

\* Targets of different candidates have no row in common.
LEMMA TargetsApart ==
  ASSUME NEW q, NEW prompt, NEW records, CandidatesOk(q, prompt, records),
         NEW i \in 1 .. Len(q), NEW j \in 1 .. Len(q), i # j,
         NEW p \in Target(q[i]), p \in Target(q[j])
  PROVE  FALSE
<1>1. /\ q[i].target \in Nat /\ q[j].target \in Nat /\ ChunkSize \in Nat /\ Len(q) \in Nat
      /\ i < j => q[i].target + ChunkSize <= q[j].target
      /\ j < i => q[j].target + ChunkSize <= q[i].target
  BY RowAssumption DEF CandidatesOk, CandidateOk, FitsPrompt
<1> QED BY <1>1 DEF Target

\* A retrieval writes the rows of every record to staging, or fails and writes
\* some of them.
LEMMA RetrieveStep ==
  ASSUME Inv, RetrieveVerified
  PROVE  Inv'
<1> DEFINE q == cur.candidates
<1>1. /\ pc = "retrieve" /\ Busy(pc)
      /\ UNCHANGED <<config, mem, live, served, objects, sidecar, probe, evidence>>
  BY DEF RetrieveVerified, Busy
<1>2. /\ IsCurrent(cur) /\ cur.load \in Attempts /\ cur.store \in Attempts
      /\ Len(cur.prompt) \in Nat /\ CandidatesOk(q, cur.prompt, sidecar)
      /\ IsMemory(staging, Layers, Room) /\ ServerInv
  BY <1>1, WorkerFacts DEF Inv
<1>3. probe = <<>> /\ cur.n = 0 /\ Len(cur.prompt) <= Capacity /\ Len(q) > 0
  BY <1>1 DEF Inv, ProbeInv, LoadInv
<1>4. PICK done \in SUBSET ToSet(q) :
        /\ staging' = [l \in Layers |-> [i \in Room |->
             LET here == {c \in done : i \in DOMAIN (Retrieved(c)[l])}
             IN IF here = {} THEN staging[l][i] ELSE Retrieved(CHOOSE c \in here : TRUE)[l][i]]]
        /\ \/ done = ToSet(q) /\ pc' = "scatter" /\ UNCHANGED <<cur, ready>>
           \/ LoadEnds("fallback") /\ ready' = FALSE
  BY DEF RetrieveVerified, Room
<1> DEFINE Here(l, i) == {c \in done : i \in DOMAIN (Retrieved(c)[l])}
<1>5. \A c \in done : \E i \in 1 .. Len(q) : c = q[i] /\ CandidateOk(c, cur.prompt, sidecar)
  BY <1>2 DEF ToSet, CandidatesOk
<1>6. ASSUME NEW l \in Layers, NEW i \in Room
      PROVE  /\ Here(l, i) = {} => staging'[l][i] = staging[l][i]
             /\ Here(l, i) # {} => \E c \in done : /\ i \in Target(c)
                                                   /\ staging'[l][i] = StoredRow(c, l, i)
  <2>1. staging'[l][i] = IF Here(l, i) = {} THEN staging[l][i]
                         ELSE Retrieved(CHOOSE c \in Here(l, i) : TRUE)[l][i]
    BY <1>4
  <2>2. CASE Here(l, i) # {}
    <3> DEFINE c == CHOOSE d \in Here(l, i) : TRUE
    <3>1. c \in Here(l, i)
      BY <2>2
    <3>2. staging'[l][i] = Retrieved(c)[l][i]
      BY <2>1, <2>2
    <3> HIDE DEF c
    <3>3. c \in done /\ i \in DOMAIN (Retrieved(c)[l]) /\ CandidateOk(c, cur.prompt, sidecar)
      BY <1>5, <3>1
    <3>4. i \in Target(c) /\ Retrieved(c)[l][i] = StoredRow(c, l, i)
      BY <1>2, <3>3, RetrievedRows
    <3> QED BY <2>2, <3>2, <3>3, <3>4
  <2> HIDE DEF Here
  <2> QED BY <2>1, <2>2
<1>7. IsMemory(staging', Layers, Room)
  <2>1. DOMAIN staging' = Layers /\ \A l \in Layers : DOMAIN staging'[l] = Room
    BY <1>4
  <2>2. ASSUME NEW l \in Layers, NEW i \in Room
        PROVE  IsRow(staging'[l][i])
    <3>1. IsRow(staging[l][i])
      BY <1>2 DEF IsMemory
    <3>2. \A c : IsRow(StoredRow(c, l, i))
      BY DEF IsRow, StoredRow, Computed
    <3> HIDE DEF Here
    <3> QED BY <1>6, <3>1, <3>2
  <2> QED BY <2>1, <2>2 DEF IsMemory
<1>8. /\ SameRequest(cur, cur') /\ cur'.n = 0 /\ pc' \in {"forward", "scatter"}
      /\ cur'.load \in Attempts /\ cur'.store \in Attempts /\ ready' \in BOOLEAN
      /\ pc' = "forward" => cur'.load = "fallback"
      /\ pc' = "scatter" => cur' = cur /\ done = ToSet(q)
  <2>1. CASE LoadEnds("fallback") /\ ready' = FALSE
    BY <1>2, <2>1, LoadEnded DEF Attempts
  <2>2. CASE done = ToSet(q) /\ pc' = "scatter" /\ UNCHANGED <<cur, ready>>
    BY <1>2, <1>3, <2>2 DEF SameRequest, Inv, ShapeInv
  <2> QED BY <1>4, <2>1, <2>2
<1>9. ShapeInv'
  BY <1>1, <1>7, <1>8 DEF Inv, ShapeInv, PCs
<1>10. RequestsInv'
  <2>1. Busy(pc')
    BY <1>8 DEF Busy
  <2> QED BY <1>1, <1>8, <2>1, RequestsStep DEF Inv
<1>11. LiveInv' /\ ServerInv'
  BY <1>1 DEF Inv, LiveInv, ServerInv
<1>12. ForwardInv'
  <2>1. 0 \in 0 .. NumLayers /\ 0 .. 0 - 1 = {}
    BY LayoutAssumption
  <2> QED BY <1>8, <2>1 DEF ForwardInv, RowsComputed
<1>13. StoreInv' /\ ProbeInv'
  BY <1>1, <1>3, <1>8 DEF StoreInv, ProbeInv
<1>14. LoadInv'
  <2>1. CASE pc' = "forward"
    BY <1>8, <2>1 DEF LoadInv
  <2>2. CASE pc' = "scatter"
    <3>1. ASSUME NEW i \in 1 .. Len(q)
          PROVE  Staged(staging', q[i])
      <4> SUFFICES ASSUME NEW l \in Layers, NEW p \in Target(q[i])
                   PROVE  staging'[l][p] = StoredRow(q[i], l, p)
        BY DEF Staged
      <4>1. CandidateOk(q[i], cur.prompt, sidecar) /\ q[i] \in done
        BY <1>2, <1>8, <2>2 DEF CandidatesOk, ToSet
      <4>2. p \in Room
        BY <1>2, <1>3, <4>1, RowAssumption DEF CandidateOk, FitsPrompt, Target, Room
      <4>3. q[i] \in Here(l, p)
        BY <1>2, <4>1, RetrievedRows
      <4>4. PICK c \in done : p \in Target(c) /\ staging'[l][p] = StoredRow(c, l, p)
        <5>1. Here(l, p) # {}
          BY <4>3
        <5> HIDE DEF Here
        <5> QED BY <1>6, <4>2, <5>1
      <4>5. c = q[i]
        <5>1. PICK j \in 1 .. Len(q) : c = q[j]
          BY <1>5
        <5>2. j = i
          BY <1>2, <4>4, <5>1, TargetsApart
        <5> QED BY <5>1, <5>2
      <4> QED BY <4>4, <4>5
    <3>2. 0 \in 0 .. Len(q) /\ \A i \in 1 .. Len(q) : ~(i < 0)
      BY <1>2 DEF CandidatesOk
    <3> QED BY <1>3, <1>8, <2>2, <3>1, <3>2 DEF LoadInv
  <2> QED BY <1>8, <2>1, <2>2
<1>15. EvidenceInv'
  BY <1>1, EvidenceStep DEF Inv
<1> QED BY <1>9, <1>10, <1>11, <1>12, <1>13, <1>14, <1>15 DEF Inv

\* The probe samples the sources before the first candidate is scattered.
LEMMA BeginScatterStep ==
  ASSUME Inv, BeginScatter
  PROVE  Inv'
<1> DEFINE q == cur.candidates
<1>1. /\ pc = "scatter" /\ cur.n = 0 /\ Busy(pc)
      /\ UNCHANGED <<config, mem, staging, live, served, ready, objects, sidecar, evidence>>
  BY DEF BeginScatter, Busy
<1>2. /\ ConfigOk(config) /\ IsCurrent(cur) /\ RequestOk(cur)
      /\ cur.load \in Attempts /\ cur.store \in Attempts
      /\ CandidatesOk(q, cur.prompt, sidecar)
  BY <1>1, WorkerFacts
<1>3. /\ Len(q) \in Nat /\ Len(q) > 0 /\ Len(cur.prompt) <= Capacity
      /\ \A i \in 1 .. Len(q) : Staged(staging, q[i])
  BY <1>1, <1>2 DEF Inv, LoadInv, CandidatesOk
<1>4. ServerInv' /\ LiveInv'
  BY <1>1 DEF Inv, LiveInv, ServerInv
<1>5. EvidenceInv'
  BY <1>1, EvidenceStep DEF Inv
<1>6. CASE probe' \in {<<>>, BeginLoad} /\ cur' = [cur EXCEPT !.n = 1] /\ pc' = pc
  <2>1. /\ SameRequest(cur, cur') /\ cur'.n = 1 /\ cur'.load = cur.load
        /\ cur'.store = cur.store
    BY <1>2, <1>6, Counted
  <2>2. ShapeInv'
    BY <1>1, <1>6 DEF Inv, ShapeInv
  <2>3. RequestsInv'
    BY <1>1, <1>2, <1>6, <2>1, RequestsStep DEF Inv
  <2>4. ForwardInv' /\ StoreInv'
    BY <1>1, <1>6 DEF ForwardInv, StoreInv
  <2>5. LoadInv'
    <3>1. 1 \in 0 .. Len(q) /\ \A i \in 1 .. Len(q) : ~(i < 1)
      BY <1>3
    <3> QED BY <1>1, <1>3, <1>6, <2>1, <3>1 DEF LoadInv, SameRequest
  <2>6. ASSUME probe' # <<>> PROVE ProbeInv'
    <3>1. /\ probe' = [f \in {"spans", "source", "after_load", "prefill"} |-> probe'[f]]
          /\ probe'.spans = [l \in Layers |-> CanonicalSpans(l)]
          /\ probe'.prefill = [l \in Layers |-> <<>>]
          /\ probe'.source = [l \in Layers |-> StagingSourceDigests(CanonicalSpans(l))]
      BY <1>6, <2>6 DEF BeginLoad
    <3>2. \A l \in Layers : probe'.source[l] = LoadedDigests(config, cur.tables, q, l)
      BY <1>2, <1>3, <3>1, SampledSource
    <3>3. \A l \in Layers : CanonicalSpans(l) = SpansOf(config, cur.tables, q, l)
      BY DEF CanonicalSpans, SpansOf
    <3>4. probe'.prefill = [l \in Layers |-> probe'.prefill[l]]
      BY <3>1
    <3>5. probe'.spans = [l \in Layers |-> SpansOf(config, cur.tables, q, l)]
      BY <3>1, <3>3
    <3>6. ProbeOk(probe', pc', config', cur')
      BY <1>1, <1>6, <2>1, <3>1, <3>2, <3>4, <3>5 DEF ProbeOk, SameRequest
    <3> QED BY <1>1, <1>6, <3>6 DEF ProbeInv
  <2>7. probe' = <<>> => ProbeInv'
    BY DEF ProbeInv
  <2> QED BY <1>4, <1>5, <2>2, <2>3, <2>4, <2>5, <2>6, <2>7 DEF Inv
<1>7. CASE probe' = <<>> /\ LoadEnds("fallback")
  <2>1. /\ SameRequest(cur, cur') /\ cur'.n = 0 /\ cur'.load = "fallback"
        /\ cur'.store = cur.store /\ pc' = "forward"
    BY <1>2, <1>7, LoadEnded
  <2>2. ShapeInv'
    BY <1>1, <2>1 DEF Inv, ShapeInv, PCs
  <2>3. RequestsInv'
    BY <1>1, <1>2, <2>1, RequestsStep DEF Inv, Busy, Attempts
  <2>4. ForwardInv' /\ StoreInv' /\ LoadInv'
    <3>1. 0 \in 0 .. NumLayers /\ 0 .. 0 - 1 = {}
      BY LayoutAssumption
    <3> QED BY <2>1, <3>1 DEF ForwardInv, StoreInv, LoadInv, RowsComputed
  <2>5. ProbeInv'
    BY <1>7, <2>1 DEF ProbeInv
  <2> QED BY <1>4, <1>5, <2>2, <2>3, <2>4, <2>5 DEF Inv
<1> QED BY <1>6, <1>7 DEF BeginScatter

\* Scattering a candidate touches rows of this request only, and loads the
\* candidate beside those that are loaded.
LEMMA Scattered ==
  ASSUME ConfigOk(config), RequestOk(cur), IsMemory(mem, Tensors, Slots), NEW records,
         CandidatesOk(cur.candidates, cur.prompt, records),
         NEW i \in 1 .. Len(cur.candidates), Staged(staging, cur.candidates[i])
  PROVE  LET copies == ScatterCopies(cur.candidates[i])
         IN /\ Len(copies) \in Nat
            /\ \A n \in 0 .. Len(copies) :
                 /\ IsMemory(Apply(mem, copies, n), Tensors, Slots)
                 /\ OnlyCurrent(config, cur.tables, cur.prompt, mem, Apply(mem, copies, n))
                 /\ \A j \in 1 .. Len(cur.candidates) :
                      j # i /\ Loaded(config, mem, cur.tables, cur.candidates[j])
                        => Loaded(config, Apply(mem, copies, n), cur.tables, cur.candidates[j])
            /\ Loaded(config, Apply(mem, copies, Len(copies)), cur.tables, cur.candidates[i])
<1> DEFINE q == cur.candidates
           c == q[i]
           copies == ScatterCopies(c)
<1>1. /\ FitsPrompt(c, cur.prompt) /\ TablesOk(cur.tables) /\ cur.prompt \in Prompts
      /\ Len(cur.prompt) \in Nat /\ ChunkSize \in Nat
      /\ c.record.source \in Nat /\ c.target \in Nat
      /\ c.target + ChunkSize <= Len(cur.prompt)
  BY PromptAssumption, RowAssumption DEF CandidatesOk, CandidateOk, RequestOk, FitsPrompt
<1>2. /\ Len(copies) \in Nat
      /\ \A n \in 0 .. Len(copies), t \in Tensors, s \in Slots :
           ~TargetSlot(config, cur.tables, c.target, ChunkSize, t, s)
             => Apply(mem, copies, n)[t][s] = mem[t][s]
      /\ \A l \in Layers, p \in c.target .. c.target + ChunkSize - 1 :
           Apply(mem, copies, Len(copies))[Tensor(l)][SlotIn(config, cur.tables, l, p)]
             = ScatteredRow(staging, l, p, c.record.source, c.target)
  BY <1>1, ScatterEffect
<1>3. \A l \in Layers, p \in Target(c) : Tensor(l) \in Tensors /\ p \in 0 .. Len(cur.prompt) - 1
  BY <1>1 DEF Target, Tensor, Tensors
<1> HIDE DEF copies
<1>4. ASSUME NEW n \in 0 .. Len(copies)
      PROVE  OnlyCurrent(config, cur.tables, cur.prompt, mem, Apply(mem, copies, n))
  <2> SUFFICES ASSUME NEW t \in Tensors, NEW s \in Slots,
                      \A l \in Layers, p \in 0 .. Len(cur.prompt) - 1 :
                        ~(Tensor(l) = t /\ SlotIn(config, cur.tables, l, p) = s)
               PROVE  Apply(mem, copies, n)[t][s] = mem[t][s]
    BY DEF OnlyCurrent
  <2>1. ~TargetSlot(config, cur.tables, c.target, ChunkSize, t, s)
    <3> HIDE DEF c
    <3> QED BY <1>3 DEF TargetSlot, Target
  <2> QED BY <1>2, <2>1
<1>5. ASSUME NEW n \in 0 .. Len(copies), NEW j \in 1 .. Len(q), j # i,
             Loaded(config, mem, cur.tables, q[j])
      PROVE  Loaded(config, Apply(mem, copies, n), cur.tables, q[j])
  <2> SUFFICES ASSUME NEW l \in Layers, NEW p \in Target(q[j])
               PROVE  Apply(mem, copies, n)[Tensor(l)][SlotIn(config, cur.tables, l, p)]
                        = LoadedRow(q[j], l, p)
    BY DEF Loaded
  <2> DEFINE slot == SlotIn(config, cur.tables, l, p)
  <2>1. p \in 0 .. Len(cur.prompt) - 1
    <3> DEFINE tgt == q[j].target
    <3>1. tgt \in Nat /\ tgt + ChunkSize <= Len(cur.prompt) /\ p \in tgt .. tgt + ChunkSize - 1
      BY DEF CandidatesOk, CandidateOk, FitsPrompt, Target
    <3> HIDE DEF tgt
    <3> QED BY <1>1, <3>1
  <2>2. slot \in Slots /\ Tensor(l) \in Tensors
    BY <1>1, <2>1, SlotOfRow DEF Tensor, Tensors
  <2>3. ~TargetSlot(config, cur.tables, c.target, ChunkSize, Tensor(l), slot)
    <3>1. SUFFICES ASSUME TargetSlot(config, cur.tables, c.target, ChunkSize, Tensor(l), slot)
                   PROVE  FALSE
      OBVIOUS
    <3>2. PICK l2 \in Layers, p2 \in c.target .. c.target + ChunkSize - 1 :
            Tensor(l2) = Tensor(l) /\ SlotIn(config, cur.tables, l2, p2) = slot
      BY <3>1 DEF TargetSlot
    <3>3. p2 \in 0 .. Len(cur.prompt) - 1 /\ p2 \in Target(q[i])
      BY <1>3 DEF Target
    <3>4. p2 = p
      <4>1. Tensor(l2) = Tensor(l) /\ SlotIn(config, cur.tables, l2, p2) = SlotIn(config, cur.tables, l, p)
        BY <3>2
      <4>2. TablesOk(cur.tables) /\ cur.prompt \in Prompts /\ p2 \in 0 .. Len(cur.prompt) - 1
        BY <1>1, <3>3
      <4> HIDE DEF slot, c, q
      <4> QED BY <2>1, <4>1, <4>2, RowSlotsAreDistinct
    <3> QED BY <1>5, <3>3, <3>4, TargetsApart
  <2>4. mem[Tensor(l)][slot] = LoadedRow(q[j], l, p)
    BY <1>5 DEF Loaded
  <2> HIDE DEF slot, c
  <2>5. Apply(mem, copies, n)[Tensor(l)][slot] = mem[Tensor(l)][slot]
    BY <1>2, <2>2, <2>3
  <2> QED BY <2>4, <2>5 DEF slot
<1>6. Loaded(config, Apply(mem, copies, Len(copies)), cur.tables, c)
  <2> SUFFICES ASSUME NEW l \in Layers, NEW p \in Target(c)
               PROVE  Apply(mem, copies, Len(copies))[Tensor(l)]
                           [SlotIn(config, cur.tables, l, p)] = LoadedRow(c, l, p)
    BY DEF Loaded
  <2>1. staging[l][p] = StoredRow(c, l, p) /\ p \in Nat
    BY <1>1, <1>3 DEF Staged
  <2>2. ScatteredRow(staging, l, p, c.record.source, c.target) = LoadedRow(c, l, p)
    <3> HIDE DEF c
    <3> QED BY <1>1, <2>1, CorrectedKey DEF ScatteredRow, LoadedRow
  <2>3. p \in c.target .. c.target + ChunkSize - 1
    BY DEF Target
  <2> HIDE DEF c
  <2> QED BY <1>2, <2>2, <2>3
<1>7. \A n \in 0 .. Len(copies) : IsMemory(Apply(mem, copies, n), Tensors, Slots)
  BY ApplyIsMemory
<1> QED BY <1>2, <1>4, <1>5, <1>6, <1>7 DEF copies

\* A write to the rows of the request in hand keeps those that decode.
LEMMA LiveKept ==
  ASSUME Inv, Busy(pc), config' = config, live' = live,
         OnlyCurrent(config, cur.tables, cur.prompt, mem, mem')
  PROVE  LiveInv'
<1>1. ConfigOk(config) /\ RequestOk(cur)
  BY WorkerFacts
<1>2. ASSUME NEW r \in live
      PROVE  RowsComputed(config, mem', r.prompt, r.tables, Layers)
  <2>1. /\ RequestOk(r) /\ BlocksHeld(r) \cap BlocksHeld(cur) = {}
        /\ RowsComputed(config, mem, r.prompt, r.tables, Layers)
    BY DEF Inv, RequestsInv, LiveInv
  <2> QED BY <1>1, <2>1, OthersKeepRows
<1> QED BY <1>2 DEF LiveInv

\* Scattering a candidate, whole or broken off, keeps the invariant.
LEMMA ScatterStep ==
  ASSUME Inv, ScatterRetrieved
  PROVE  Inv'
<1> DEFINE q == cur.candidates
           copies == ScatterCopies(q[cur.n])
<1>1. /\ pc = "scatter" /\ cur.n > 0 /\ Busy(pc)
      /\ UNCHANGED <<config, staging, live, served, ready, objects, sidecar, evidence>>
  BY DEF ScatterRetrieved, Busy
<1>2. /\ ConfigOk(config) /\ IsCurrent(cur) /\ RequestOk(cur)
      /\ cur.load \in Attempts /\ cur.store \in Attempts
      /\ CandidatesOk(q, cur.prompt, sidecar) /\ IsMemory(mem, Tensors, Slots)
  BY <1>1, WorkerFacts
<1>3. /\ Len(q) \in Nat /\ cur.n \in 1 .. Len(q)
      /\ Len(cur.prompt) <= Capacity /\ Len(q) > 0
      /\ \A i \in 1 .. Len(q) : Staged(staging, q[i])
      /\ \A i \in 1 .. Len(q) : i < cur.n => Loaded(config, mem, cur.tables, q[i])
  BY <1>1, <1>2 DEF Inv, LoadInv, CandidatesOk
<1>4. /\ Len(copies) \in Nat
      /\ \A n \in 0 .. Len(copies) :
           /\ IsMemory(Apply(mem, copies, n), Tensors, Slots)
           /\ OnlyCurrent(config, cur.tables, cur.prompt, mem, Apply(mem, copies, n))
           /\ \A j \in 1 .. Len(q) :
                j # cur.n /\ Loaded(config, mem, cur.tables, q[j])
                  => Loaded(config, Apply(mem, copies, n), cur.tables, q[j])
      /\ Loaded(config, Apply(mem, copies, Len(copies)), cur.tables, q[cur.n])
  BY <1>2, <1>3, Scattered
<1>5. probe # <<>> => ProbeOk(probe, "scatter", config, cur)
  BY <1>1 DEF Inv, ProbeInv
<1>6. PICK n \in 0 .. Len(copies) : mem' = Apply(mem, copies, n)
  BY <1>4 DEF ScatterRetrieved
<1>7. /\ IsMemory(mem', Tensors, Slots)
      /\ OnlyCurrent(config, cur.tables, cur.prompt, mem, mem')
  BY <1>4, <1>6
<1>8. LiveInv'
  BY <1>1, <1>7, LiveKept
<1>9. ServerInv' /\ EvidenceInv'
  BY <1>1, EvidenceStep DEF Inv, ServerInv
<1>10. pc' \in {"scatter", "forward"} => ShapeInv'
  BY <1>1, <1>7 DEF Inv, ShapeInv, PCs
<1> HIDE DEF copies
<1>11. ASSUME mem' = Apply(mem, copies, Len(copies)), NEW j \in 1 .. Len(q), j <= cur.n
       PROVE  Loaded(config, mem', cur.tables, q[j])
  <2>1. Len(copies) \in 0 .. Len(copies)
    BY <1>4
  <2>2. CASE j = cur.n
    BY <1>4, <1>11, <2>2
  <2>3. CASE j # cur.n
    <3>1. j < cur.n
      BY <1>3, <1>11, <2>3
    <3> QED BY <1>3, <1>4, <1>11, <2>1, <2>3, <3>1
  <2> QED BY <2>2, <2>3
<1>12. CASE /\ mem' = Apply(mem, copies, Len(copies))
            /\ cur.n < Len(q) /\ cur' = [cur EXCEPT !.n = @ + 1] /\ UNCHANGED <<pc, probe>>
  <2>1. /\ SameRequest(cur, cur') /\ cur'.n = cur.n + 1 /\ cur'.load = cur.load
        /\ cur'.store = cur.store
    <3>1. cur' = [cur EXCEPT !.n = cur.n + 1]
      BY <1>12
    <3> QED BY <1>2, <3>1, Counted
  <2>2. RequestsInv'
    BY <1>1, <1>2, <1>12, <2>1, RequestsStep DEF Inv
  <2>3. ForwardInv' /\ StoreInv'
    BY <1>1, <1>12 DEF ForwardInv, StoreInv
  <2>4. LoadInv'
    <3>1. cur'.n \in 0 .. Len(q) /\ \A i \in 1 .. Len(q) : i < cur'.n => i <= cur.n
      BY <1>3, <1>12, <2>1
    <3>2. \A i \in 1 .. Len(q) : i < cur'.n => Loaded(config, mem', cur.tables, q[i])
      BY <1>11, <1>12, <3>1
    <3> QED BY <1>1, <1>3, <1>12, <2>1, <3>1, <3>2 DEF LoadInv, SameRequest
  <2>5. ProbeInv'
    <3>1. cur'.n > 0
      BY <1>3, <2>1
    <3>2. probe # <<>> => ProbeOk(probe', pc', config', cur')
      BY <1>1, <1>5, <1>12, <2>1, <3>1 DEF ProbeOk, SameRequest
    <3> QED BY <1>1, <1>12, <3>2 DEF ProbeInv
  <2> QED BY <1>1, <1>8, <1>9, <1>10, <1>12, <2>2, <2>3, <2>4, <2>5 DEF Inv
<1>13. ASSUME NEW state \in Attempts, LoadEnds(state),
              probe' = <<>> \/ ProbeOk(probe', "forward", config', cur'),
              state = "succeeded" => \A i \in 1 .. Len(q) : Loaded(config, mem', cur.tables, q[i])
       PROVE  Inv'
  <2>1. /\ SameRequest(cur, cur') /\ cur'.n = 0 /\ cur'.load = state
        /\ cur'.store = cur.store /\ pc' = "forward"
    BY <1>2, <1>13, LoadEnded
  <2>2. RequestsInv'
    BY <1>1, <1>2, <1>13, <2>1, RequestsStep DEF Inv, Busy
  <2>3. ForwardInv' /\ StoreInv'
    <3>1. 0 \in 0 .. NumLayers /\ 0 .. 0 - 1 = {}
      BY LayoutAssumption
    <3> QED BY <2>1, <3>1 DEF ForwardInv, StoreInv, RowsComputed
  <2>4. LoadInv'
    BY <1>1, <1>13, <2>1 DEF LoadInv, SameRequest
  <2>5. ProbeInv'
    BY <1>13, <2>1 DEF ProbeInv
  <2> QED BY <1>8, <1>9, <1>10, <2>1, <2>2, <2>3, <2>4, <2>5 DEF Inv
<1>14. CASE /\ mem' = Apply(mem, copies, Len(copies))
            /\ cur.n = Len(q) /\ LoadEnds("succeeded") /\ probe' = MarkLoadComplete(mem')
  <2>1. \A i \in 1 .. Len(q) : Loaded(config, mem', cur.tables, q[i])
    BY <1>3, <1>11, <1>14
  <2>2. /\ SameRequest(cur, cur') /\ cur'.n = 0
    BY <1>2, <1>14, LoadEnded
  <2>3. \A l \in Layers : CanonicalSpans(l) = SpansOf(config, cur.tables, q, l)
    BY DEF CanonicalSpans, SpansOf
  <2>4. ASSUME probe # <<>>
        PROVE  ProbeOk(probe', "forward", config', cur')
    <3>1. /\ probe = [f \in {"spans", "source", "after_load", "prefill"} |-> probe[f]]
          /\ probe.spans = [l \in Layers |-> SpansOf(config, cur.tables, q, l)]
          /\ probe.prefill = [l \in Layers |-> probe.prefill[l]]
          /\ \A l \in Layers : probe.source[l] = LoadedDigests(config, cur.tables, q, l)
      BY <1>5, <2>4 DEF ProbeOk
    <3>2. \A l \in Layers : PagedDigests(mem', probe.spans[l]) = LoadedDigests(config, cur.tables, q, l)
      BY <1>2, <2>1, <2>3, <3>1, SampledPages
    <3>3. /\ probe' = [f \in {"spans", "source", "after_load", "prefill"} |-> probe'[f]]
          /\ probe'.spans = probe.spans /\ probe'.prefill = probe.prefill
          /\ probe'.source = probe.source
          /\ probe'.after_load = [l \in Layers |-> PagedDigests(mem', probe.spans[l])]
      <4> DEFINE sampled == [l \in Layers |-> PagedDigests(mem', probe.spans[l])]
      <4>1. probe' = [probe EXCEPT !.after_load = sampled]
        BY <1>14, <2>4 DEF MarkLoadComplete
      <4> HIDE DEF sampled
      <4>2. /\ probe' = [f \in {"spans", "source", "after_load", "prefill"} |-> probe'[f]]
            /\ probe'.spans = probe.spans /\ probe'.prefill = probe.prefill
            /\ probe'.source = probe.source /\ probe'.after_load = sampled
        BY <3>1, <4>1
      <4> QED BY <4>2 DEF sampled
    <3>4. \A l \in Layers : ~(l < 0)
      BY LayoutAssumption DEF Layers
    <3>5. ProbeOk(probe', "forward", config', cur')
      BY <1>1, <2>2, <3>1, <3>2, <3>3, <3>4 DEF ProbeOk, SameRequest
    <3> QED BY <3>5
  <2>5. probe = <<>> => probe' = <<>>
    BY <1>14 DEF MarkLoadComplete
  <2> QED BY <1>13, <1>14, <2>1, <2>4, <2>5 DEF Attempts
<1>15. CASE LoadEnds("fallback") /\ probe' = <<>>
  BY <1>13, <1>15 DEF Attempts
<1> QED BY <1>12, <1>14, <1>15 DEF ScatterRetrieved, copies

\* A layer of the forward pass keeps the invariant: it overwrites the rows that
\* were loaded, and the probe samples what it wrote.
LEMMA ForwardStep ==
  ASSUME Inv, ForwardLayer
  PROVE  Inv'
<1> DEFINE q == cur.candidates
           n == cur.n
<1>1. /\ pc = "forward" /\ n < NumLayers /\ pc' = pc /\ Busy(pc)
      /\ cur' = [cur EXCEPT !.n = n + 1] /\ probe' = SaveKvLayer(n, mem')
      /\ UNCHANGED <<config, staging, live, served, ready, objects, sidecar, evidence>>
  BY DEF ForwardLayer, Busy
<1>2. /\ ConfigOk(config) /\ IsCurrent(cur) /\ RequestOk(cur)
      /\ cur.load \in Attempts /\ cur.store \in Attempts
      /\ CandidatesOk(q, cur.prompt, sidecar) /\ IsMemory(mem, Tensors, Slots)
      /\ cur.prompt \in Prompts /\ TablesOk(cur.tables)
  BY <1>1, WorkerFacts
<1>3. /\ n \in 0 .. NumLayers /\ n \in Layers /\ n \in Nat
      /\ RowsComputed(config, mem, cur.prompt, cur.tables, 0 .. n - 1)
  BY <1>1, LayoutAssumption DEF Inv, ForwardInv, Layers
<1>4. /\ IsMemory(mem', Tensors, Slots)
      /\ \A p \in 0 .. Len(cur.prompt) - 1 :
           mem'[Tensor(n)][SlotIn(config, cur.tables, n, p)] = Computed(cur.prompt, n, p)
      /\ \A t \in Tensors, s \in Slots :
           (t # Tensor(n) \/ \A p \in 0 .. Len(cur.prompt) - 1 :
                               SlotIn(config, cur.tables, n, p) # s)
             => mem'[t][s] = mem[t][s]
  <2>1. mem' = AfterLayer(n)
    BY DEF ForwardLayer, AfterLayer
  <2> HIDE DEF n
  <2> QED BY <1>2, <1>3, <2>1, ForwardEffect
<1>5. SameRequest(cur, cur') /\ cur'.n = n + 1 /\ cur'.load = cur.load /\ cur'.store = cur.store
  BY <1>1, <1>2, Counted
<1>6. OnlyCurrent(config, cur.tables, cur.prompt, mem, mem')
  <2> HIDE DEF n
  <2> QED BY <1>3, <1>4 DEF OnlyCurrent
<1>7. LiveInv'
  BY <1>1, <1>6, LiveKept
<1>8. ServerInv' /\ EvidenceInv'
  BY <1>1, EvidenceStep DEF Inv, ServerInv
<1>9. ShapeInv'
  BY <1>1, <1>4 DEF Inv, ShapeInv
<1>10. RequestsInv'
  BY <1>1, <1>2, <1>5, RequestsStep DEF Inv
<1>11. ASSUME NEW l \in 0 .. n, NEW p \in 0 .. Len(cur.prompt) - 1
       PROVE  mem'[Tensor(l)][SlotIn(config, cur.tables, l, p)] = Computed(cur.prompt, l, p)
  <2> HIDE DEF n
  <2>1. CASE l = n
    BY <1>4, <2>1
  <2>2. CASE l # n
    <3>1. l \in 0 .. n - 1 /\ l \in Layers
      BY <1>1, <1>3, <2>2, LayoutAssumption DEF Layers
    <3>2. Tensor(l) \in Tensors /\ SlotIn(config, cur.tables, l, p) \in Slots
      BY <1>2, <3>1, SlotOfRow DEF Tensor, Tensors
    <3>3. Tensor(l) = Tensor(n) => \A s \in 0 .. Len(cur.prompt) - 1 :
            SlotIn(config, cur.tables, n, s) # SlotIn(config, cur.tables, l, p)
      BY <1>2, <1>3, <2>2, <3>1, RowSlotsAreDistinct
    <3>4. mem'[Tensor(l)][SlotIn(config, cur.tables, l, p)]
            = mem[Tensor(l)][SlotIn(config, cur.tables, l, p)]
      BY <1>4, <3>2, <3>3
    <3> QED BY <1>3, <3>1, <3>4 DEF RowsComputed
  <2> QED BY <2>1, <2>2
<1>12. ForwardInv'
  <2>1. n + 1 \in 0 .. NumLayers /\ 0 .. (n + 1) - 1 = 0 .. n
    BY <1>1, <1>3, LayoutAssumption
  <2>2. RowsComputed(config, mem', cur.prompt, cur.tables, 0 .. (n + 1) - 1)
    BY <1>11, <2>1 DEF RowsComputed
  <2> QED BY <1>1, <1>5, <2>1, <2>2 DEF ForwardInv, SameRequest
<1>13. StoreInv' /\ LoadInv'
  <2>1. n + 1 # 0
    BY <1>3
  <2> QED BY <1>1, <1>5, <2>1 DEF StoreInv, LoadInv
<1>14. ProbeInv'
  <2>1. CASE probe = <<>>
    BY <1>1, <2>1 DEF SaveKvLayer, ProbeInv
  <2>2. CASE probe # <<>>
    <3> DEFINE digests == PagedDigests(mem', probe.spans[n])
    <3>1. probe' = [probe EXCEPT !.prefill[n] = digests]
      BY <1>1, <2>2 DEF SaveKvLayer
    <3>2. ProbeOk(probe, "forward", config, cur)
      BY <1>1, <2>2 DEF Inv, ProbeInv
    <3>3. CanonicalSpans(n) = SpansOf(config, cur.tables, q, n)
      BY DEF CanonicalSpans, SpansOf
    <3>4. RowsComputed(config, mem', cur.prompt, cur.tables, {n})
      BY <1>3, <1>4 DEF RowsComputed
    <3>5. digests = PrefillDigests(config, cur.tables, q, cur.prompt, n)
      <4>1. probe.spans[n] = CanonicalSpans(n)
        BY <1>3, <3>2, <3>3 DEF ProbeOk
      <4>2. PagedDigests(mem', CanonicalSpans(n))
              = PrefillDigests(config, cur.tables, q, cur.prompt, n)
        <5> HIDE DEF n
        <5> QED BY <1>2, <1>3, <3>4, SampledPages
      <4> QED BY <4>1, <4>2
    <3>6. /\ probe = [f \in {"spans", "source", "after_load", "prefill"} |-> probe[f]]
          /\ probe.spans = [l \in Layers |-> SpansOf(config, cur.tables, q, l)]
          /\ probe.prefill = [l \in Layers |-> probe.prefill[l]]
          /\ \A l \in Layers : probe.source[l] = LoadedDigests(config, cur.tables, q, l)
          /\ \A l \in Layers : probe.after_load[l] = LoadedDigests(config, cur.tables, q, l)
          /\ \A l \in Layers : l < n =>
               probe.prefill[l] = PrefillDigests(config, cur.tables, q, cur.prompt, l)
      BY <3>2 DEF ProbeOk
    <3> HIDE DEF digests, n
    <3>7. /\ probe' = [f \in {"spans", "source", "after_load", "prefill"} |-> probe'[f]]
          /\ probe'.spans = probe.spans /\ probe'.source = probe.source
          /\ probe'.after_load = probe.after_load
          /\ probe'.prefill = [probe.prefill EXCEPT ![n] = digests]
      BY <3>1, <3>6
    <3>8. /\ probe'.prefill = [l \in Layers |-> probe'.prefill[l]]
          /\ probe'.prefill[n] = digests
          /\ \A l \in Layers : l # n => probe'.prefill[l] = probe.prefill[l]
      BY <1>3, <3>6, <3>7
    <3>9. \A l \in Layers : l < n + 1 =>
            probe'.prefill[l] = PrefillDigests(config, cur.tables, q, cur.prompt, l)
      <4>1. \A l \in Layers : l < n + 1 => l < n \/ l = n
        BY <1>3, LayoutAssumption DEF Layers
      <4> QED BY <3>5, <3>6, <3>8, <4>1
    <3>10. ProbeOk(probe', "forward", config', cur')
      BY <1>1, <1>5, <3>6, <3>7, <3>8, <3>9 DEF ProbeOk, SameRequest
    <3> QED BY <1>1, <3>10 DEF ProbeInv
  <2> QED BY <2>1, <2>2
<1> QED BY <1>7, <1>8, <1>9, <1>10, <1>12, <1>13, <1>14 DEF Inv

\* The chunks of a prompt lie in it, one after the other.
LEMMA ChunksOf ==
  ASSUME NEW prompt \in Prompts
  PROVE  /\ ChunkCount(prompt) \in Nat /\ ChunkCount(prompt) * ChunkSize \in Nat
         /\ \A n \in 1 .. ChunkCount(prompt) :
              /\ IsChunk(n, prompt) /\ n * ChunkSize \in Nat
              /\ n * ChunkSize <= ChunkCount(prompt) * ChunkSize
<1> DEFINE count == ChunkCount(prompt)
<1>1. Len(prompt) \in Nat /\ ChunkSize \in Nat \ {0}
  BY PromptAssumption, RowAssumption
<1>2. /\ count \in Nat
      /\ Len(prompt) = count * ChunkSize + (Len(prompt) % ChunkSize)
      /\ Len(prompt) % ChunkSize \in 0 .. ChunkSize - 1
  BY <1>1, Division DEF ChunkCount
<1> HIDE DEF count
<1>3. count * ChunkSize \in Nat /\ count * ChunkSize <= Len(prompt)
  <2>1. count * ChunkSize \in Nat
    BY <1>1, <1>2, Z3
  <2> QED BY <1>1, <1>2, <2>1
<1>4. ASSUME NEW n \in 1 .. count
      PROVE  n * ChunkSize \in Nat /\ n * ChunkSize <= count * ChunkSize
  <2>1. n \in Nat /\ n <= count
    BY <1>2
  <2> QED BY <1>1, <1>2, <2>1, Z3
<1>5. \A n \in 1 .. count : IsChunk(n, prompt)
  BY <1>1, <1>2, <1>3, <1>4 DEF IsChunk
<1> QED BY <1>2, <1>3, <1>4, <1>5 DEF count

\* After the forward pass the worker only reads what the pass has written.
LEMMA AfterPass ==
  ASSUME Inv, pc \in {"gather", "store", "publish"} \/ (pc = "forward" /\ cur.n = NumLayers),
         pc' \in {"gather", "store", "publish", "finish"},
         SameRequest(cur, cur'), cur'.load = cur.load, cur'.store \in Attempts,
         UNCHANGED <<config, mem, live, served, probe, evidence>>,
         sidecar \subseteq sidecar', ready' \in BOOLEAN, IsMemory(staging', Layers, Room)
  PROVE  /\ ShapeInv' /\ RequestsInv' /\ LiveInv' /\ ForwardInv' /\ LoadInv'
         /\ ProbeInv' /\ EvidenceInv'
<1>1. Busy(pc) /\ Busy(pc')
  BY DEF Busy
<1>2. cur.load \in Attempts
  BY <1>1, WorkerFacts
<1>3. ShapeInv'
  BY <1>1 DEF Inv, ShapeInv, PCs, Busy
<1>4. RequestsInv'
  BY <1>1, <1>2, RequestsStep DEF Inv
<1>5. LiveInv' /\ EvidenceInv'
  BY EvidenceStep DEF Inv, LiveInv
<1>6. ForwardInv'
  <2>1. 0 .. NumLayers - 1 = Layers
    BY DEF Layers
  <2>2. RowsComputed(config, mem, cur.prompt, cur.tables, Layers)
    BY <2>1 DEF Inv, ForwardInv
  <2> QED BY <2>2 DEF ForwardInv, SameRequest
<1>7. LoadInv'
  BY DEF LoadInv
<1>8. ProbeInv'
  <2>1. CASE probe = <<>>
    BY <2>1 DEF ProbeInv
  <2>2. CASE probe # <<>>
    <3>1. ProbeOk(probe, pc, config, cur)
      BY <2>2 DEF Inv, ProbeInv
    <3>2. \A l \in Layers : l < NumLayers
      BY LayoutAssumption DEF Layers
    <3>3. \A l \in Layers :
            probe.prefill[l] = PrefillDigests(config, cur.tables, cur.candidates, cur.prompt, l)
      BY <3>1, <3>2 DEF ProbeOk
    <3>4. ProbeOk(probe', pc', config', cur')
      BY <3>1, <3>3 DEF ProbeOk, SameRequest
    <3> QED BY <3>4 DEF ProbeInv
  <2> QED BY <2>1, <2>2
<1> QED BY <1>3, <1>4, <1>5, <1>6, <1>7, <1>8

\* The end of the forward pass: the store begins only if staging has the room.
LEMMA AfterForwardStep ==
  ASSUME Inv, AfterForward
  PROVE  Inv'
<1> DEFINE chunks == ChunkCount(cur.prompt)
<1>1. /\ pc = "forward" /\ cur.n = NumLayers /\ Busy(pc)
      /\ UNCHANGED <<config, mem, staging, live, served, ready, objects, sidecar, probe,
                     evidence>>
  BY DEF AfterForward, Busy
<1>2. /\ IsCurrent(cur) /\ cur.prompt \in Prompts /\ cur.store \in Attempts
      /\ IsMemory(staging, Layers, Room) /\ ready \in BOOLEAN
  BY <1>1, WorkerFacts DEF Inv, ShapeInv
<1>3. ServerInv'
  BY <1>1 DEF Inv, ServerInv
<1>4. ASSUME NEW state \in Attempts \ {"succeeded"}, StoreEnds(state)
      PROVE  Inv'
  <2>1. SameRequest(cur, cur') /\ cur'.load = cur.load /\ cur'.store = state /\ pc' = "finish"
    BY <1>2, <1>4, StoreEnded
  <2>2. /\ ShapeInv' /\ RequestsInv' /\ LiveInv' /\ ForwardInv' /\ LoadInv'
        /\ ProbeInv' /\ EvidenceInv'
    BY <1>1, <1>2, <2>1, AfterPass
  <2>3. StoreInv'
    BY <2>1 DEF StoreInv
  <2> QED BY <1>3, <2>2, <2>3 DEF Inv
<1>5. ASSUME chunks > 0, pc' = "gather", cur' = [cur EXCEPT !.n = 1],
             Preflight({StoreTransfer(n) : n \in 1 .. chunks}, StoreBufferOffset,
                       chunks * ChunkSize)
      PROVE  Inv'
  <2>1. /\ SameRequest(cur, cur') /\ cur'.n = 1 /\ cur'.load = cur.load
        /\ cur'.store = cur.store
    BY <1>2, <1>5, Counted
  <2>2. /\ ShapeInv' /\ RequestsInv' /\ LiveInv' /\ ForwardInv' /\ LoadInv'
        /\ ProbeInv' /\ EvidenceInv'
    BY <1>1, <1>2, <1>5, <2>1, AfterPass
  <2>3. chunks \in Nat /\ chunks * ChunkSize \in Nat
    BY <1>2, ChunksOf
  <2>4. chunks * ChunkSize <= Capacity
    <3>1. 0 + chunks * ChunkSize <= Capacity
      BY <1>5 DEF Preflight, StoreBufferOffset
    <3> DEFINE extent == chunks * ChunkSize
    <3>2. extent \in Nat /\ 0 + extent <= Capacity
      BY <2>3, <3>1
    <3> HIDE DEF extent
    <3>3. extent <= Capacity
      BY <3>2
    <3> QED BY <3>3 DEF extent
  <2>5. 1 \in 1 .. chunks
    BY <1>5, <2>3
  <2>6. Gathered(staging, cur.prompt, (1 - 1) * ChunkSize)
    <3>1. (1 - 1) * ChunkSize = 0
      BY RowAssumption
    <3>2. 0 .. 0 - 1 = {}
      OBVIOUS
    <3> QED BY <3>1, <3>2 DEF Gathered
  <2>7. StoreInv'
    BY <1>1, <1>5, <2>1, <2>4, <2>5, <2>6 DEF StoreInv, SameRequest
  <2> QED BY <1>3, <2>2, <2>7 DEF Inv
<1>6. CASE chunks = 0 /\ StoreEnds("not_eligible")
  BY <1>4, <1>6 DEF Attempts
<1>7. CASE StoreEnds("fallback")
  BY <1>4, <1>7 DEF Attempts
<1> QED BY <1>5, <1>6, <1>7 DEF AfterForward

\* Gathering a chunk keeps the invariant, whole or broken off.
LEMMA GatherStep ==
  ASSUME Inv, GatherRecomputed
  PROVE  Inv'
<1> DEFINE n == cur.n
           chunks == ChunkCount(cur.prompt)
           copies == GatherCopies(n)
           low == (n - 1) * ChunkSize
<1>1. /\ pc = "gather" /\ Busy(pc)
      /\ UNCHANGED <<config, mem, live, served, ready, objects, sidecar, probe, evidence>>
  BY DEF GatherRecomputed, Busy
<1>2. /\ ConfigOk(config) /\ IsCurrent(cur) /\ cur.prompt \in Prompts /\ cur.store \in Attempts
      /\ TablesOk(cur.tables) /\ IsMemory(mem, Tensors, Slots)
      /\ IsMemory(staging, Layers, Room) /\ ready \in BOOLEAN
  BY <1>1, WorkerFacts DEF Inv, ShapeInv
<1>3. /\ chunks * ChunkSize <= Capacity /\ n \in 1 .. chunks
      /\ Gathered(staging, cur.prompt, low)
      /\ RowsComputed(config, mem, cur.prompt, cur.tables, Layers)
  BY <1>1 DEF Inv, StoreInv, ForwardInv
<1>4. chunks \in Nat /\ chunks * ChunkSize \in Nat /\ IsChunk(n, cur.prompt)
      /\ n * ChunkSize \in Nat /\ n * ChunkSize <= chunks * ChunkSize
  BY <1>2, <1>3, ChunksOf
<1>5. /\ low \in Nat /\ n * ChunkSize = low + ChunkSize /\ low + ChunkSize <= Len(cur.prompt)
      /\ Len(cur.prompt) \in Nat /\ ChunkSize \in Nat \ {0} /\ n * ChunkSize <= Capacity
      /\ low + ChunkSize <= Capacity /\ Capacity \in Nat
  <2>1. /\ low \in Nat /\ n * ChunkSize = low + ChunkSize /\ low + ChunkSize <= Len(cur.prompt)
        /\ Len(cur.prompt) \in Nat /\ ChunkSize \in Nat \ {0} /\ Capacity \in Nat
    BY <1>2, <1>4, ChunkRows, RowAssumption
  <2> DEFINE a == n * ChunkSize
             b == chunks * ChunkSize
  <2>2. a \in Nat /\ b \in Nat /\ a <= b /\ b <= Capacity /\ a = low + ChunkSize
    BY <1>3, <1>4, <2>1
  <2> HIDE DEF a, b, low
  <2>3. a <= Capacity /\ low + ChunkSize <= Capacity
    BY <2>1, <2>2
  <2> QED BY <2>1, <2>3 DEF a
<1>6. /\ Len(copies) \in Nat
      /\ \A j \in 0 .. Len(copies), l \in Layers, s \in Room :
           s \notin low .. low + ChunkSize - 1
             => Apply(staging, copies, j)[l][s] = staging[l][s]
      /\ \A l \in Layers, p \in low .. low + ChunkSize - 1 :
           Apply(staging, copies, Len(copies))[l][p]
             = mem[Tensor(l)][SlotIn(config, cur.tables, l, p)]
  BY <1>2, <1>4, <1>5, GatherEffect
<1> HIDE DEF copies, low
<1>7. PICK j \in 0 .. Len(copies) : staging' = Apply(staging, copies, j)
  BY <1>6 DEF GatherRecomputed, copies
<1>8. IsMemory(staging', Layers, Room)
  BY <1>2, <1>7, ApplyIsMemory
<1>9. ServerInv'
  BY <1>1 DEF Inv, ServerInv
<1>10. ASSUME staging' = Apply(staging, copies, Len(copies))
       PROVE  Gathered(staging', cur.prompt, n * ChunkSize)
  <2> SUFFICES ASSUME NEW l \in Layers, NEW p \in 0 .. (low + ChunkSize) - 1
               PROVE  staging'[l][p] = Computed(cur.prompt, l, p)
    BY <1>5 DEF Gathered
  <2>1. p \in 0 .. Len(cur.prompt) - 1 /\ p \in Room
    BY <1>5 DEF Room
  <2>2. CASE p < low
    <3>1. p \notin low .. low + ChunkSize - 1 /\ p \in 0 .. low - 1
      BY <1>5, <2>2
    <3>2. Len(copies) \in 0 .. Len(copies)
      BY <1>6
    <3>3. staging'[l][p] = staging[l][p]
      BY <1>6, <1>10, <2>1, <3>1, <3>2
    <3> QED BY <1>3, <3>1, <3>3 DEF Gathered
  <2>3. CASE low <= p
    <3>1. p \in low .. low + ChunkSize - 1
      BY <1>5, <2>3
    <3>2. staging'[l][p] = mem[Tensor(l)][SlotIn(config, cur.tables, l, p)]
      BY <1>6, <1>10, <3>1
    <3> QED BY <1>3, <2>1, <3>2 DEF RowsComputed
  <2> QED BY <1>5, <2>2, <2>3
<1>11. CASE /\ staging' = Apply(staging, copies, Len(copies))
            /\ n < chunks /\ cur' = [cur EXCEPT !.n = n + 1] /\ pc' = pc
  <2>1. SameRequest(cur, cur') /\ cur'.n = n + 1 /\ cur'.load = cur.load /\ cur'.store = cur.store
    BY <1>2, <1>11, Counted
  <2>2. /\ ShapeInv' /\ RequestsInv' /\ LiveInv' /\ ForwardInv' /\ LoadInv'
        /\ ProbeInv' /\ EvidenceInv'
    BY <1>1, <1>2, <1>8, <1>11, <2>1, AfterPass
  <2>3. n + 1 \in 1 .. chunks /\ (n + 1) - 1 = n
    BY <1>3, <1>4, <1>11
  <2>4. Gathered(staging', cur.prompt, ((n + 1) - 1) * ChunkSize)
    BY <1>10, <1>11, <2>3
  <2>5. StoreInv'
    BY <1>1, <1>3, <1>11, <2>1, <2>3, <2>4 DEF StoreInv, SameRequest
  <2> QED BY <1>9, <2>2, <2>5 DEF Inv
<1>12. CASE /\ staging' = Apply(staging, copies, Len(copies))
            /\ n = chunks /\ cur' = cur /\ pc' = "store"
  <2>1. SameRequest(cur, cur')
    BY <1>2, <1>12 DEF SameRequest
  <2>2. /\ ShapeInv' /\ RequestsInv' /\ LiveInv' /\ ForwardInv' /\ LoadInv'
        /\ ProbeInv' /\ EvidenceInv'
    BY <1>1, <1>2, <1>8, <1>12, <2>1, AfterPass
  <2>3. Gathered(staging', cur.prompt, chunks * ChunkSize)
    BY <1>10, <1>12
  <2>4. StoreInv'
    BY <1>3, <1>12, <2>3 DEF StoreInv
  <2> QED BY <1>9, <2>2, <2>4 DEF Inv
<1>13. CASE StoreEnds("fallback")
  <2>1. /\ SameRequest(cur, cur') /\ cur'.load = cur.load /\ cur'.store = "fallback"
        /\ pc' = "finish"
    BY <1>2, <1>13, StoreEnded
  <2>2. /\ ShapeInv' /\ RequestsInv' /\ LiveInv' /\ ForwardInv' /\ LoadInv'
        /\ ProbeInv' /\ EvidenceInv'
    BY <1>1, <1>2, <1>8, <2>1, AfterPass DEF Attempts
  <2>3. StoreInv'
    BY <2>1 DEF StoreInv
  <2> QED BY <1>9, <2>2, <2>3 DEF Inv
<1> QED BY <1>11, <1>12, <1>13 DEF GatherRecomputed, copies

\* What the server stores of a prompt are objects with the rows of their keys.
LEMMA KeyOf ==
  ASSUME NEW prompt \in Prompts, NEW n \in 1 .. ChunkCount(prompt)
  PROVE  /\ Key(prompt, n) \in Seq(Tokens) /\ Len(Key(prompt, n)) = n * ChunkSize
         /\ (n - 1) * ChunkSize \in Nat
         /\ (n - 1) * ChunkSize + ChunkSize = Len(Key(prompt, n))
         /\ Len(Key(prompt, n)) \div ChunkSize = n
         /\ Window(prompt, (n - 1) * ChunkSize) = Window(Key(prompt, n), (n - 1) * ChunkSize)
         /\ \A l \in Layers, p \in 0 .. n * ChunkSize - 1 :
              Computed(Key(prompt, n), l, p) = Computed(prompt, l, p)
<1> DEFINE end == n * ChunkSize
           low == (n - 1) * ChunkSize
           key == Key(prompt, n)
<1>1. prompt \in Seq(Tokens) /\ Len(prompt) \in Nat /\ IsChunk(n, prompt)
  BY ChunksOf, PromptAssumption
<1>2. /\ n \in Nat \ {0} /\ ChunkSize \in Nat \ {0} /\ end \in Nat /\ low \in Nat
      /\ end = low + ChunkSize /\ end <= Len(prompt)
  BY <1>1, ChunkRows, RowAssumption DEF IsChunk
<1>3. key = SubSeq(prompt, 1, end)
  BY DEF Key
<1>4. end \div ChunkSize = n
  <2>1. 0 \in 0 .. ChunkSize - 1 /\ n \in Nat
    BY <1>2
  <2>2. (n * ChunkSize + 0) \div ChunkSize = n
    BY <1>2, <2>1, DivisionOf
  <2> DEFINE e == n * ChunkSize
  <2>3. e \in Nat /\ (e + 0) \div ChunkSize = n
    BY <1>2, <2>2
  <2> HIDE DEF e
  <2>4. e \div ChunkSize = n
    BY <2>3
  <2> QED BY <2>4 DEF e
<1> HIDE DEF end, low, key
<1>5. key \in Seq(Tokens) /\ Len(key) = end /\ \A i \in 1 .. end : key[i] = prompt[i]
  BY <1>1, <1>2, <1>3
<1>6. Window(prompt, low) = Window(key, low)
  <2>1. SubSeq(prompt, low + 1, low + ChunkSize)
          = [i \in 1 .. ChunkSize |-> prompt[low + i]]
    BY <1>1, <1>2
  <2>2. SubSeq(key, low + 1, low + ChunkSize) = [i \in 1 .. ChunkSize |-> key[low + i]]
    BY <1>2, <1>5
  <2>3. \A i \in 1 .. ChunkSize : key[low + i] = prompt[low + i]
    BY <1>2, <1>5
  <2> QED BY <2>1, <2>2, <2>3 DEF Window
<1>7. \A l \in Layers, p \in 0 .. end - 1 : Computed(key, l, p) = Computed(prompt, l, p)
  <2>1. end \in 0 .. Len(prompt)
    BY <1>1, <1>2
  <2> QED BY <1>1, <1>3, <2>1, PrefixRows
<1> QED BY <1>2, <1>4, <1>5, <1>6, <1>7 DEF end, low, key

\* The objects of a store have the rows that staging has.
LEMMA StoredObjects ==
  ASSUME cur.prompt \in Prompts,
         Gathered(staging, cur.prompt, ChunkCount(cur.prompt) * ChunkSize)
  PROVE  /\ DOMAIN Stored = {Key(cur.prompt, n) : n \in 1 .. ChunkCount(cur.prompt)}
         /\ \A key \in DOMAIN Stored : ObjectOk(Stored, key)
<1> DEFINE chunks == ChunkCount(cur.prompt)
           keys == {Key(cur.prompt, n) : n \in 1 .. chunks}
<1>1. Stored = [key \in keys |-> [l \in Layers |-> [i \in 0 .. ChunkSize - 1 |->
                 staging[l][(0 + ((Len(key) \div ChunkSize) - 1) * ChunkSize) + i]]]]
  BY DEF Stored, StoreBufferOffset
<1>2. ASSUME NEW n \in 1 .. chunks
      PROVE  ObjectOk(Stored, Key(cur.prompt, n))
  <2> DEFINE key == Key(cur.prompt, n)
             low == (n - 1) * ChunkSize
             end == n * ChunkSize
  <2>1. /\ key \in Seq(Tokens) /\ Len(key) = end /\ low \in Nat
        /\ low + ChunkSize = Len(key) /\ Len(key) \div ChunkSize = n
        /\ \A l \in Layers, p \in 0 .. end - 1 :
             Computed(key, l, p) = Computed(cur.prompt, l, p)
    BY KeyOf
  <2>2. /\ ChunkSize \in Nat \ {0} /\ end \in Nat /\ end <= chunks * ChunkSize
        /\ chunks * ChunkSize \in Nat
    BY ChunksOf, RowAssumption
  <2>3. \A l \in Layers, i \in 0 .. ChunkSize - 1 : Stored[key][l][i] = staging[l][(0 + low) + i]
    <3>1. key \in keys
      OBVIOUS
    <3>2. ((Len(key) \div ChunkSize) - 1) * ChunkSize = low
      BY <2>1
    <3> HIDE DEF key, keys, low
    <3> QED BY <1>1, <3>1, <3>2
  <2> HIDE DEF key, low, end
  <2>4. ASSUME NEW l \in Layers, NEW i \in 0 .. ChunkSize - 1
        PROVE  Stored[key][l][i] = Computed(key, l, Len(key) - ChunkSize + i)
    <3>1. /\ (0 + low) + i = low + i /\ Len(key) - ChunkSize + i = low + i
          /\ low + i \in 0 .. end - 1
      BY <2>1, <2>2
    <3>2. low + i \in 0 .. chunks * ChunkSize - 1
      <4> DEFINE all == chunks * ChunkSize
      <4>1. all \in Nat /\ end <= all
        BY <2>2
      <4> HIDE DEF all
      <4>2. low + i \in 0 .. all - 1
        BY <2>2, <3>1, <4>1
      <4> QED BY <4>2 DEF all
    <3>3. staging[l][low + i] = Computed(cur.prompt, l, low + i)
      BY <3>2 DEF Gathered
    <3> QED BY <2>1, <2>3, <3>1, <3>3
  <2>5. ChunkSize <= Len(key)
    BY <2>1, <2>2
  <2>6. ObjectOk(Stored, key)
    BY <2>1, <2>4, <2>5 DEF ObjectOk
  <2> QED BY <2>6 DEF key
<1>3. DOMAIN Stored = keys
  BY <1>1
<1> QED BY <1>2, <1>3

\* A store keeps the invariant, whether the server carries it out or not.
LEMMA StoreStep ==
  ASSUME Inv, StorePrecomputed
  PROVE  Inv'
<1>1. /\ pc = "store" /\ Busy(pc)
      /\ UNCHANGED <<config, mem, staging, live, served, sidecar, probe, evidence>>
      /\ objects' = objects \/ objects' = WithStored
  BY DEF StorePrecomputed, Busy
<1>2. /\ IsCurrent(cur) /\ cur.prompt \in Prompts /\ cur.store \in Attempts
      /\ IsMemory(staging, Layers, Room) /\ ready \in BOOLEAN /\ ServerInv
  BY <1>1, WorkerFacts DEF Inv, ShapeInv
<1>3. Gathered(staging, cur.prompt, ChunkCount(cur.prompt) * ChunkSize)
  BY <1>1 DEF Inv, StoreInv
<1>4. /\ DOMAIN Stored = {Key(cur.prompt, n) : n \in 1 .. ChunkCount(cur.prompt)}
      /\ \A key \in DOMAIN Stored : ObjectOk(Stored, key)
  BY <1>2, <1>3, StoredObjects
<1>5. ServerInv'
  <2>1. CASE objects' = objects
    BY <1>1, <1>2, <2>1 DEF ServerInv
  <2>2. CASE objects' = WithStored
    <3>1. /\ DOMAIN objects' = DOMAIN objects \cup DOMAIN Stored
          /\ \A key \in DOMAIN objects' :
               objects'[key] = IF key \in DOMAIN objects THEN objects[key] ELSE Stored[key]
      BY <2>2 DEF WithStored
    <3>2. ASSUME NEW key \in DOMAIN objects'
          PROVE  ObjectOk(objects', key)
      <4>1. CASE key \in DOMAIN objects
        <5>1. ObjectOk(objects, key) /\ objects'[key] = objects[key]
          BY <1>2, <3>1, <4>1 DEF ServerInv
        <5> QED BY <5>1 DEF ObjectOk
      <4>2. CASE key \notin DOMAIN objects
        <5>1. ObjectOk(Stored, key) /\ objects'[key] = Stored[key]
          BY <1>4, <3>1, <4>2
        <5> QED BY <5>1 DEF ObjectOk
      <4> QED BY <4>1, <4>2
    <3>3. \A record \in sidecar' : RecordOk(objects', record)
      BY <1>1, <1>2, <3>1 DEF ServerInv, RecordOk
    <3> QED BY <3>2, <3>3 DEF ServerInv
  <2> QED BY <1>1, <2>1, <2>2
<1>6. CASE objects' = WithStored /\ pc' = "publish" /\ UNCHANGED <<cur, ready>>
  <2>1. SameRequest(cur, cur')
    BY <1>2, <1>6 DEF SameRequest
  <2>2. /\ ShapeInv' /\ RequestsInv' /\ LiveInv' /\ ForwardInv' /\ LoadInv'
        /\ ProbeInv' /\ EvidenceInv'
    BY <1>1, <1>2, <1>6, <2>1, AfterPass
  <2>3. DOMAIN objects' = DOMAIN objects \cup DOMAIN Stored
    BY <1>6 DEF WithStored
  <2>4. StoreInv'
    BY <1>4, <1>6, <2>3 DEF StoreInv
  <2> QED BY <1>5, <2>2, <2>4 DEF Inv
<1>7. CASE StoreEnds("fallback") /\ ready' = FALSE
  <2>1. /\ SameRequest(cur, cur') /\ cur'.load = cur.load /\ cur'.store = "fallback"
        /\ pc' = "finish"
    BY <1>2, <1>7, StoreEnded
  <2>2. /\ ShapeInv' /\ RequestsInv' /\ LiveInv' /\ ForwardInv' /\ LoadInv'
        /\ ProbeInv' /\ EvidenceInv'
    BY <1>1, <1>2, <1>7, <2>1, AfterPass DEF Attempts
  <2>3. StoreInv'
    BY <2>1 DEF StoreInv
  <2> QED BY <1>5, <2>2, <2>3 DEF Inv
<1> QED BY <1>6, <1>7 DEF StorePrecomputed

\* Publication writes records only of objects that the server has.
LEMMA PublishStep ==
  ASSUME Inv, PublishSidecarRecords
  PROVE  Inv'
<1>1. /\ pc = "publish" /\ Busy(pc)
      /\ UNCHANGED <<config, mem, staging, live, served, ready, objects, probe, evidence>>
  BY DEF PublishSidecarRecords, Busy
<1>2. /\ IsCurrent(cur) /\ cur.prompt \in Prompts /\ cur.store \in Attempts
      /\ IsMemory(staging, Layers, Room) /\ ready \in BOOLEAN /\ ServerInv
  BY <1>1, WorkerFacts DEF Inv, ShapeInv
<1>3. \A n \in 1 .. ChunkCount(cur.prompt) : Key(cur.prompt, n) \in DOMAIN objects
  BY <1>1 DEF Inv, StoreInv
<1>4. ASSUME NEW record \in Records(cur.prompt)
      PROVE  RecordOk(objects, record)
  <2>1. PICK n \in 1 .. ChunkCount(cur.prompt) :
          record = [tokens |-> Window(cur.prompt, (n - 1) * ChunkSize),
                    source |-> (n - 1) * ChunkSize, key |-> Key(cur.prompt, n)]
    BY DEF Records
  <2>2. /\ (n - 1) * ChunkSize \in Nat
        /\ (n - 1) * ChunkSize + ChunkSize = Len(Key(cur.prompt, n))
        /\ Window(cur.prompt, (n - 1) * ChunkSize)
             = Window(Key(cur.prompt, n), (n - 1) * ChunkSize)
    BY <1>2, KeyOf
  <2>3. /\ record.key = Key(cur.prompt, n) /\ record.source = (n - 1) * ChunkSize
        /\ record.tokens = Window(cur.prompt, (n - 1) * ChunkSize)
    BY <2>1
  <2> QED BY <1>3, <2>2, <2>3 DEF RecordOk
<1>5. ASSUME NEW state \in Attempts, StoreEnds(state), sidecar \subseteq sidecar',
             sidecar' \subseteq sidecar \cup Records(cur.prompt),
             state = "succeeded" => Records(cur.prompt) \subseteq sidecar'
      PROVE  Inv'
  <2>1. SameRequest(cur, cur') /\ cur'.load = cur.load /\ cur'.store = state /\ pc' = "finish"
    BY <1>2, <1>5, StoreEnded
  <2>2. /\ ShapeInv' /\ RequestsInv' /\ LiveInv' /\ ForwardInv' /\ LoadInv'
        /\ ProbeInv' /\ EvidenceInv'
    BY <1>1, <1>2, <1>5, <2>1, AfterPass
  <2>3. ServerInv'
    BY <1>1, <1>2, <1>4, <1>5 DEF ServerInv
  <2>4. Records(cur.prompt)' = Records(cur.prompt)
    BY <2>1 DEF SameRequest, Records
  <2>5. StoreInv'
    BY <1>5, <2>1, <2>4 DEF StoreInv
  <2> QED BY <2>2, <2>3, <2>5 DEF Inv
<1>6. CASE sidecar' = sidecar \cup Records(cur.prompt) /\ StoreEnds("succeeded")
  BY <1>5, <1>6 DEF Attempts
<1>7. CASE sidecar' = sidecar /\ StoreEnds("fallback")
  BY <1>5, <1>7 DEF Attempts
<1> QED BY <1>6, <1>7 DEF PublishSidecarRecords

\* What the probe has sampled after the forward pass are rows of the prompt.
LEMMA SampledPrompt ==
  ASSUME NEW c, ConfigOk(c), NEW tables, TablesOk(tables), NEW prompt \in Prompts,
         NEW q, NEW records, CandidatesOk(q, prompt, records), NEW l \in Layers,
         NEW spans \in ToSet(PrefillDigests(c, tables, q, prompt, l)),
         NEW span \in ToSet(spans)
  PROVE  ToSet(span) \subseteq {Computed(prompt, l, p) : p \in 0 .. Len(prompt) - 1}
<1> DEFINE LS(i) == LayerSpans(c, tables, LoadTransfer(q[i]), l)
           at(i, k, j) == LS(i)[k].span.target.start + (j - 1)
           sample(i, k) == [j \in 1 .. TokenCount(LS(i)[k]) |-> Computed(prompt, l, at(i, k, j))]
<1>1. PrefillDigests(c, tables, q, prompt, l)
        = [i \in DOMAIN q |-> [k \in DOMAIN LS(i) |-> sample(i, k)]]
  BY DEF PrefillDigests
<1>2. ASSUME NEW i \in DOMAIN q, NEW k \in DOMAIN LS(i), NEW j \in 1 .. TokenCount(LS(i)[k])
      PROVE  at(i, k, j) \in 0 .. Len(prompt) - 1
  <2> DEFINE p == at(i, k, j)
             d == q[i]
  <2>1. FitsPrompt(d, prompt)
    BY DEF CandidatesOk, CandidateOk
  <2>2. p \in Target(d) /\ p \in Nat
    BY <2>1, SampledRow
  <2>3. Len(prompt) \in Nat /\ ChunkSize \in Nat
    BY PromptAssumption, RowAssumption
  <2> HIDE DEF p, d
  <2>4. p \in 0 .. Len(prompt) - 1
    BY <2>1, <2>2, <2>3 DEF Target, FitsPrompt
  <2> QED BY <2>4 DEF p
<1> HIDE DEF at, LS
<1>3. PICK i \in DOMAIN q : spans = [k \in DOMAIN LS(i) |-> sample(i, k)]
  BY <1>1 DEF ToSet
<1>4. PICK k \in DOMAIN LS(i) : span = sample(i, k)
  BY <1>3 DEF ToSet
<1>5. DOMAIN span = 1 .. TokenCount(LS(i)[k])
      /\ \A j \in DOMAIN span : span[j] = Computed(prompt, l, at(i, k, j))
  BY <1>4
<1> QED BY <1>2, <1>5 DEF ToSet

\* The end of the request: its rows decode on, and the probe writes its file.
LEMMA WaitForSaveStep ==
  ASSUME Inv, WaitForSave
  PROVE  Inv'
<1> DEFINE q == cur.candidates
           r == [prompt |-> cur.prompt, tables |-> cur.tables]
<1>1. /\ pc = "finish" /\ Busy(pc) /\ live' = live \cup {r} /\ cur' = <<>>
      /\ UNCHANGED <<config, mem, staging, served, ready, objects, sidecar>>
      /\ pc' \in {"idle", "stopped"}
  BY DEF WaitForSave, Busy
<1>2. /\ ConfigOk(config) /\ RequestOk(cur) /\ cur.prompt \in Prompts /\ TablesOk(cur.tables)
      /\ CandidatesOk(q, cur.prompt, sidecar)
      /\ RowsComputed(config, mem, cur.prompt, cur.tables, Layers)
  BY <1>1, WorkerFacts DEF Inv, ForwardInv
<1>3. ShapeInv'
  BY <1>1, <1>2 DEF Inv, ShapeInv, PCs
<1>4. RequestOk(r) /\ BlocksHeld(r) = BlocksHeld(cur) /\ r.prompt = cur.prompt
      /\ r.tables = cur.tables
  BY <1>2 DEF RequestOk, BlocksHeld
<1> HIDE DEF r
<1>5. RequestsInv'
  <2>1. \A s \in live' : RequestOk(s)
    BY <1>1, <1>4 DEF Inv, RequestsInv
  <2>2. ASSUME NEW s \in live', NEW t \in live', s # t
        PROVE  BlocksHeld(s) \cap BlocksHeld(t) = {}
    <3>1. \A u \in live : BlocksHeld(u) \cap BlocksHeld(r) = {}
      BY <1>1, <1>4 DEF Inv, RequestsInv
    <3>2. (s \in live \/ s = r) /\ (t \in live \/ t = r)
      BY <1>1
    <3>3. CASE s \in live /\ t \in live
      BY <2>2, <3>3 DEF Inv, RequestsInv
    <3>4. CASE s \in live /\ t = r
      BY <3>1, <3>4
    <3>5. CASE s = r /\ t \in live
      BY <3>1, <3>5
    <3> QED BY <2>2, <3>2, <3>3, <3>4, <3>5
  <2> QED BY <1>1, <2>1, <2>2 DEF RequestsInv, Busy
<1>6. LiveInv'
  <2>1. \A s \in live : RowsComputed(config, mem, s.prompt, s.tables, Layers)
    BY DEF Inv, LiveInv
  <2> QED BY <1>1, <1>2, <1>4, <2>1 DEF LiveInv
<1>7. ForwardInv' /\ StoreInv' /\ LoadInv'
  BY <1>1 DEF ForwardInv, StoreInv, LoadInv
<1>8. ServerInv'
  BY <1>1 DEF Inv, ServerInv
<1>9. ProbeInv'
  <2>1. pc' = "idle" => probe' = <<>>
    BY DEF WaitForSave
  <2> QED BY <1>1, <2>1 DEF ProbeInv
<1>10. EvidenceInv'
  <2>1. CASE evidence' = evidence
    BY <1>1, <2>1, EvidenceStep DEF Inv
  <2>2. CASE Concludes /\ probe # <<>> /\ evidence' = Evidence
    <3>1. /\ Records(cur.prompt) \subseteq sidecar
          /\ \A l \in Layers :
               probe.prefill[l] = PrefillDigests(config, cur.tables, q, cur.prompt, l)
      BY <1>1, <2>2 DEF Inv, StoreInv, ProbeInv, ProbeOk, Concludes
    <3>2. /\ Evidence.source_prompt = SourcePromptTokens
          /\ Evidence.target_prompt = cur.prompt
          /\ Evidence.loaded_tokens = Len(q) * ChunkSize
          /\ Evidence.recomputed_tokens = Len(cur.prompt)
          /\ Evidence.segments = ToSet(q) /\ Evidence.prefill = probe.prefill
      BY DEF Evidence
    <3>3. Len(SourcePromptTokens) = Len(q) * ChunkSize
      <4> DEFINE n == Len(q) * ChunkSize
      <4>1. n \in Nat
        <5>1. Len(q) \in Nat /\ ChunkSize \in Nat
          BY <1>2, RowAssumption DEF CandidatesOk
        <5> QED BY <5>1, Z3
      <4>2. SourcePromptTokens = [p \in 1 .. n |->
               SourceRecord((p - 1) \div ChunkSize).tokens[((p - 1) % ChunkSize) + 1]]
        BY DEF SourcePromptTokens
      <4> HIDE DEF n
      <4>3. Len(SourcePromptTokens) = n
        BY <4>1, <4>2
      <4> QED BY <4>3 DEF n
    <3>4. \A c \in ToSet(q) : c.record \in sidecar
      BY <1>2 DEF CandidatesOk, CandidateOk, ToSet
    <3>5. ASSUME NEW l \in Layers,
                 NEW span \in UNION {ToSet(spans) : spans \in ToSet(probe.prefill[l])}
          PROVE  ToSet(span) \subseteq {Computed(cur.prompt, l, p) : p \in 0 .. Len(cur.prompt) - 1}
      <4>1. PICK spans \in ToSet(PrefillDigests(config, cur.tables, q, cur.prompt, l)) :
              span \in ToSet(spans)
        BY <3>1
      <4> QED BY <1>2, <4>1, SampledPrompt
    <3> DEFINE file == Evidence
    <3> HIDE DEF file
    <3>6. EvidenceOk(file, sidecar)
      BY <3>1, <3>2, <3>3, <3>4, <3>5 DEF EvidenceOk, file
    <3> QED BY <1>1, <2>2, <3>6 DEF EvidenceInv, file
  <2> QED BY <2>1, <2>2 DEF WaitForSave
<1> QED BY <1>3, <1>5, <1>6, <1>7, <1>8, <1>9, <1>10 DEF Inv

\* A request that ends gives its blocks back and takes no rows along.
LEMMA ReleaseStep ==
  ASSUME Inv, NEW r \in live, Release(r)
  PROVE  Inv'
<1>1. /\ pc = "idle" /\ live' = live \ {r}
      /\ UNCHANGED <<pc, config, mem, staging, cur, served, ready, objects, sidecar,
                     probe, evidence>>
  BY DEF Release
<1>2. ShapeInv'
  BY <1>1 DEF Inv, ShapeInv
<1>3. RequestsInv'
  BY <1>1 DEF Inv, RequestsInv, Busy
<1>4. LiveInv'
  BY <1>1 DEF Inv, LiveInv
<1>5. ForwardInv' /\ StoreInv' /\ LoadInv'
  BY <1>1 DEF ForwardInv, StoreInv, LoadInv
<1>6. ServerInv'
  BY <1>1 DEF Inv, ServerInv
<1>7. ProbeInv'
  BY <1>1 DEF Inv, ProbeInv
<1>8. EvidenceInv'
  BY <1>1, EvidenceStep DEF Inv
<1> QED BY <1>2, <1>3, <1>4, <1>5, <1>6, <1>7, <1>8 DEF Inv

\* A step of something else keeps the invariant.
LEMMA StutterStep ==
  ASSUME Inv, UNCHANGED vars
  PROVE  Inv'
<1>1. UNCHANGED <<pc, config, mem, staging, cur, live, served, ready, objects, sidecar,
                  probe, evidence>>
  BY DEF vars
<1>2. ShapeInv' /\ RequestsInv' /\ LiveInv' /\ ForwardInv'
  BY <1>1 DEF Inv, ShapeInv, RequestsInv, LiveInv, ForwardInv
<1>3. StoreInv'
  BY <1>1 DEF Inv, StoreInv, Records
<1>4. ServerInv' /\ LoadInv' /\ ProbeInv' /\ EvidenceInv'
  BY <1>1 DEF Inv, ServerInv, LoadInv, ProbeInv, EvidenceInv
<1> QED BY <1>2, <1>3, <1>4 DEF Inv

\* Every step keeps the invariant.
LEMMA NextInv == Inv /\ [Next]_vars => Inv'
<1> SUFFICES ASSUME Inv, [Next]_vars PROVE Inv'
  OBVIOUS
<1>1. ASSUME NEW c \in KvCacheConfigs, RegisterKvCaches(c) PROVE Inv'
  BY <1>1, RegisterStep
<1>2. ASSUME NEW prompt \in Prompts, NEW tables \in Allocations,
             NEW candidates \in Selected(prompt), Schedule(prompt, tables, candidates)
      PROVE  Inv'
  BY <1>2, ScheduleStep
<1>3. CASE WorkerStep
  BY <1>3, BeforeForwardStep, RetrieveStep, BeginScatterStep, ScatterStep, ForwardStep,
     AfterForwardStep, GatherStep, StoreStep, PublishStep, WaitForSaveStep DEF WorkerStep
<1>4. ASSUME NEW r \in live, Release(r) PROVE Inv'
  BY <1>4, ReleaseStep
<1>5. CASE Stopped
  BY <1>5, StutterStep DEF Stopped
<1>6. CASE UNCHANGED vars
  BY <1>6, StutterStep
<1> QED BY <1>1, <1>2, <1>3, <1>4, <1>5, <1>6 DEF Next, EngineStep

-----------------------------------------------------------------------------
(* The properties.                                                          *)

\* In every reachable state the rows of vLLM's memory, of staging and of the
\* server are what the position of the worker in its step says they are.
THEOREM Invariance == Spec => []Inv
<1>1. Init => Inv
  BY InitInv
<1>2. Inv /\ [Next]_vars => Inv'
  BY NextInv
<1> QED BY <1>1, <1>2, PTL DEF Spec

\* Whether a probe is configured is settled before the engine starts.
LEMMA ProbingStays == Spec => [](probing \in BOOLEAN)
<1>1. Init => probing \in BOOLEAN
  BY DEF Init
<1>2. probing \in BOOLEAN /\ [Next]_vars => (probing \in BOOLEAN)'
  BY DEF Next, vars
<1> QED BY <1>1, <1>2, PTL DEF Spec

\* When execute_load reports success, with a probe or without one, every row of a candidate's record is at the
\* slot vLLM gives its target position, its value as stored and its key rotated
\* from the source to the target, and the tokens of both positions are equal.
THEOREM LoadsAreCorrected == Spec => []LoadedRowsAreCorrected
<1>1. ASSUME Inv PROVE LoadedRowsAreCorrected
  <2> SUFFICES ASSUME pc = "forward", cur.n = 0, cur.load = "succeeded",
                      NEW c \in ToSet(cur.candidates), NEW l \in Layers,
                      NEW i \in 0 .. ChunkSize - 1
               PROVE  LET row == mem[Tensor(l)][SlotOf(cur, l, c.target + i)]
                          stored == Computed(c.record.key, l, c.record.source + i)
                      IN /\ row.v = stored.v
                         /\ row.k = [stored.k EXCEPT !.pos = c.target + i]
                         /\ c.record.key[c.record.source + i + 1]
                              = cur.prompt[c.target + i + 1]
    BY DEF LoadedRowsAreCorrected
  <2> DEFINE tgt == c.target
             src == c.record.source
             key == c.record.key
             p == tgt + i
  <2>1. Busy(pc)
    BY DEF Busy
  <2>2. CandidatesOk(cur.candidates, cur.prompt, sidecar) /\ cur.prompt \in Seq(Tokens)
    BY <1>1, <2>1, WorkerFacts
  <2>3. PICK j \in 1 .. Len(cur.candidates) : c = cur.candidates[j]
    BY <2>2 DEF ToSet, CandidatesOk
  <2>4. CandidateOk(c, cur.prompt, sidecar) /\ Loaded(config, mem, cur.tables, c)
    BY <1>1, <2>2, <2>3 DEF Inv, LoadInv, CandidatesOk
  <2>5. /\ tgt \in Nat /\ src \in Nat /\ ChunkSize \in Nat \ {0}
        /\ tgt + ChunkSize <= Len(cur.prompt)
        /\ RecordOk(objects, c.record) /\ ObjectOk(objects, key)
        /\ c.record.tokens = Window(cur.prompt, tgt)
    BY <1>1, <2>4, RowAssumption DEF CandidateOk, FitsPrompt, Inv, ServerInv, RecordOk
  <2>6. /\ key \in Seq(Tokens) /\ src + ChunkSize = Len(key)
        /\ Window(key, src) = Window(cur.prompt, tgt)
    BY <2>5 DEF RecordOk, ObjectOk
  <2>7. p \in Target(c) /\ src + (p - tgt) = src + i
    BY <2>5 DEF Target
  <2>8. mem[Tensor(l)][SlotOf(cur, l, p)] = LoadedRow(c, l, p)
    <3>1. SlotOf(cur, l, p) = SlotIn(config, cur.tables, l, p)
      BY DEF SlotOf, SlotIn
    <3> QED BY <2>4, <2>7, <3>1 DEF Loaded
  <2>9. LoadedRow(c, l, p) = [k |-> [Computed(key, l, src + i).k EXCEPT !.pos = p],
                              v |-> Computed(key, l, src + i).v]
    BY <2>7 DEF LoadedRow, StoredRow
  <2>10. key[src + i + 1] = cur.prompt[tgt + i + 1]
    <3> HIDE DEF key, src, tgt
    <3>1. SubSeq(key, src + 1, src + ChunkSize)[i + 1] = key[src + (i + 1)]
      BY <2>5, <2>6
    <3>2. Len(cur.prompt) \in Nat
      BY <2>2
    <3>3. SubSeq(cur.prompt, tgt + 1, tgt + ChunkSize)[i + 1] = cur.prompt[tgt + (i + 1)]
      BY <2>2, <2>5, <3>2
    <3> QED BY <2>5, <2>6, <3>1, <3>3 DEF Window
  <2> QED BY <2>8, <2>9, <2>10
<1> QED BY <1>1, Invariance, PTL

\* No scatter of the worker, whole or broken off by an error, and no layer of the
\* forward pass writes to the rows of a request that is still decoding.
THEOREM ForeignRowsStay == Spec => []ForeignRowsUntouched
<1>1. ASSUME Inv, probing \in BOOLEAN PROVE ForeignRowsUntouched
  <2>1. TypeOK
    BY <1>1 DEF Inv, ShapeInv, RequestsInv, TypeOK, IsMemory, Room
  <2>2. ASSUME NEW r \in live, NEW l \in Layers, NEW p \in 0 .. Len(r.prompt) - 1
        PROVE  mem[Tensor(l)][SlotOf(r, l, p)] = Computed(r.prompt, l, p)
    <3>1. SlotOf(r, l, p) = SlotIn(config, r.tables, l, p)
      BY DEF SlotOf, SlotIn
    <3> QED BY <1>1, <3>1 DEF Inv, LiveInv, RowsComputed
  <2> QED BY <2>1, <2>2 DEF ForeignRowsUntouched
<1> QED BY <1>1, Invariance, ProbingStays, PTL

\* What execute_store hands to the server are the rows of an ordinary prefill of
\* the chunk's key, whatever was loaded, recomputed or overwritten before.
THEOREM StoresAreComputed == Spec => []StoredRowsAreComputed
<1>1. Inv => StoredRowsAreComputed
  BY DEF Inv, ServerInv, ObjectOk, StoredRowsAreComputed
<1> QED BY <1>1, Invariance, PTL

\* The evidence probe confirms every transfer that went right: its digests agree
\* in each layer, and the file it writes says of prompts, records and rows only
\* what is so.
THEOREM EvidenceHolds == Spec => []EvidenceIsTrue
<1>1. ASSUME Inv PROVE EvidenceIsTrue
  <2>1. ASSUME pc = "finish", Concludes, probe # <<>>
        PROVE  LayersAgree
    <3> DEFINE q == cur.candidates
    <3>1. Busy(pc)
      BY <2>1 DEF Busy
    <3>2. /\ ConfigOk(config) /\ RequestOk(cur) /\ CandidatesOk(q, cur.prompt, sidecar)
          /\ RowsComputed(config, mem, cur.prompt, cur.tables, Layers)
      BY <1>1, <2>1, <3>1, WorkerFacts DEF Inv, ForwardInv
    <3>3. ProbeOk(probe, "finish", config, cur)
      BY <1>1, <2>1 DEF Inv, ProbeInv
    <3>4. ASSUME NEW l \in Layers
          PROVE  /\ probe.after_load[l] = probe.source[l]
                 /\ PagedDigests(mem, probe.spans[l]) = probe.prefill[l]
      <4>1. /\ probe.source[l] = LoadedDigests(config, cur.tables, q, l)
            /\ probe.after_load[l] = LoadedDigests(config, cur.tables, q, l)
            /\ probe.prefill[l] = PrefillDigests(config, cur.tables, q, cur.prompt, l)
            /\ probe.spans[l] = SpansOf(config, cur.tables, q, l)
        BY <3>3 DEF ProbeOk
      <4>2. probe.spans[l] = CanonicalSpans(l)
        BY <4>1 DEF CanonicalSpans, SpansOf
      <4>3. RowsComputed(config, mem, cur.prompt, cur.tables, {l})
        BY <3>2 DEF RowsComputed
      <4>4. PagedDigests(mem, CanonicalSpans(l))
              = PrefillDigests(config, cur.tables, q, cur.prompt, l)
        BY <3>2, <4>3, SampledPages
      <4> QED BY <4>1, <4>2, <4>4
    <3> QED BY <3>4 DEF LayersAgree
  <2>2. evidence # <<>> => EvidenceOk(evidence, sidecar)
    BY <1>1 DEF Inv, EvidenceInv
  <2> QED BY <2>1, <2>2 DEF EvidenceIsTrue, EvidenceOk
<1> QED BY <1>1, Invariance, PTL
=============================================================================
