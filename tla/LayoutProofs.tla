----------------------------- MODULE LayoutProofs -----------------------------
(***************************************************************************)
(* Lemmas about Layout that the proofs of both data planes rest on, the    *)
(* loads and stores of RowTransfer and the partial writes of Selective:    *)
(* the arithmetic of blocks, the spans of a plan, the slots of a request.  *)
(***************************************************************************)
EXTENDS Layout, Integers, SequenceTheorems, TLAPS

-----------------------------------------------------------------------------
(* Arithmetic of blocks.                                                    *)

\* A number is its quotient and remainder.
LEMMA Division ==
  ASSUME NEW a \in Nat, NEW b \in Nat \ {0}
  PROVE  /\ a \div b \in Nat /\ a % b \in 0 .. b - 1
         /\ a = (a \div b) * b + (a % b)
  BY Z3

\* Quotient and remainder are determined.
LEMMA DivisionUnique ==
  ASSUME NEW b \in Nat \ {0}, NEW q1 \in Nat, NEW q2 \in Nat,
         NEW r1 \in 0 .. b - 1, NEW r2 \in 0 .. b - 1,
         q1 * b + r1 = q2 * b + r2
  PROVE  q1 = q2 /\ r1 = r2
<1>1. CASE q1 < q2
  <2>1. q1 + 1 <= q2
    BY <1>1
  <2>2. (q1 + 1) * b <= q2 * b
    BY <2>1, Z3
  <2>3. q1 * b + b <= q2 * b
    BY <2>2, Z3
  <2> QED BY <2>3, Z3
<1>2. CASE q2 < q1
  <2>1. q2 + 1 <= q1
    BY <1>2
  <2>2. (q2 + 1) * b <= q1 * b
    BY <2>1, Z3
  <2>3. q2 * b + b <= q1 * b
    BY <2>2, Z3
  <2> QED BY <2>3, Z3
<1> QED BY <1>1, <1>2

\* The quotient and the remainder of a number that is given by them.
LEMMA DivisionOf ==
  ASSUME NEW b \in Nat \ {0}, NEW q \in Nat, NEW r \in 0 .. b - 1
  PROVE  (q * b + r) \div b = q /\ (q * b + r) % b = r
<1>1. q * b + r \in Nat
  BY Z3
<1> DEFINE a == q * b + r
<1>2. /\ a \div b \in Nat /\ a % b \in 0 .. b - 1
      /\ a = (a \div b) * b + (a % b)
  BY <1>1, Division
<1> QED BY <1>2, DivisionUnique

\* A later position is in no earlier block.
LEMMA DivisionMonotone ==
  ASSUME NEW b \in Nat \ {0}, NEW a \in Nat, NEW c \in Nat, a <= c
  PROVE  a \div b <= c \div b
<1>1. /\ a \div b \in Nat /\ a % b \in 0 .. b - 1 /\ a = (a \div b) * b + (a % b)
      /\ c \div b \in Nat /\ c % b \in 0 .. b - 1 /\ c = (c \div b) * b + (c % b)
  BY Division
<1> DEFINE q == a \div b
           p == c \div b
<1>2. SUFFICES ASSUME p < q PROVE FALSE
  BY <1>1
<1>3. (p + 1) * b <= q * b
  BY <1>1, <1>2, Z3
<1>4. p * b + b <= q * b
  BY <1>1, <1>3, Z3
<1> QED BY <1>1, <1>4, Z3

\* The larger and the smaller of two numbers, as plan_token_scatter takes them.
LEMMA MaxMin ==
  ASSUME NEW a \in Int, NEW b \in Int
  PROVE  /\ Max({a, b}) = IF a >= b THEN a ELSE b
         /\ Min({a, b}) = IF a <= b THEN a ELSE b
  BY DEF Max, Min

-----------------------------------------------------------------------------
(* The spans of a transfer.                                                 *)

\* The part of the target in one block, at the slot of its first row.
IsPartIn(span, table, source, target, n, block) ==
  /\ block \in Nat
  /\ span.target.start \in Nat /\ span.target.end \in Nat
  /\ target <= span.target.start
  /\ span.target.start < span.target.end
  /\ span.target.end <= target + n
  /\ block * BlockSize <= span.target.start
  /\ span.target.end <= (block + 1) * BlockSize
  /\ span.source.start = source + span.target.start - target
  /\ span.slot = table[block + 1] * BlockSize + (span.target.start - block * BlockSize)

\* A span is the part of the target in one block.
LEMMA SpanShape ==
  ASSUME NEW table, NEW source \in Nat, NEW target \in Nat, NEW n \in Nat \ {0},
         NEW k \in 1 .. BlocksTouched(TokenTransfer(source, target, n))
  PROVE  IsPartIn(ScatterGroup(table, TokenTransfer(source, target, n))[k],
                  table, source, target, n,
                  FirstBlock(TokenTransfer(source, target, n)) + k - 1)
<1> DEFINE transfer == TokenTransfer(source, target, n)
           span == ScatterGroup(table, transfer)[k]
           block == FirstBlock(transfer) + k - 1
           lower == block * BlockSize
           upper == (block + 1) * BlockSize
           start == Max({target, lower})
           end == Min({target + n, upper})
<1>1. BlockSize \in Nat \ {0}
  BY LayoutAssumption
<1>2. /\ FirstBlock(transfer) = target \div BlockSize
      /\ LastBlock(transfer) = (target + n - 1) \div BlockSize
      /\ transfer.target.start = target /\ transfer.target.end = target + n
      /\ transfer.source.start = source
  BY DEF FirstBlock, LastBlock, TokenTransfer
<1>3. /\ target \div BlockSize \in Nat
      /\ target < (target \div BlockSize) * BlockSize + BlockSize
      /\ (target \div BlockSize) * BlockSize <= target
      /\ (target + n - 1) \div BlockSize \in Nat
      /\ ((target + n - 1) \div BlockSize) * BlockSize <= target + n - 1
  <2>1. target + n - 1 \in Nat
    OBVIOUS
  <2>2. /\ target \div BlockSize \in Nat /\ target % BlockSize \in 0 .. BlockSize - 1
        /\ target = (target \div BlockSize) * BlockSize + (target % BlockSize)
    BY <1>1, Division
  <2> DEFINE z == target + n - 1
  <2> HIDE DEF z
  <2>3. /\ z \div BlockSize \in Nat /\ z % BlockSize \in 0 .. BlockSize - 1
        /\ z = (z \div BlockSize) * BlockSize + (z % BlockSize)
    BY <1>1, <2>1, Division DEF z
  <2>4. (target \div BlockSize) * BlockSize \in Nat /\ (z \div BlockSize) * BlockSize \in Nat
    BY <1>1, <2>2, <2>3, Z3
  <2>5. (z \div BlockSize) * BlockSize <= z
    BY <1>1, <2>3, <2>4
  <2> QED BY <1>1, <2>1, <2>2, <2>3, <2>4, <2>5 DEF z
<1>4. /\ block \in Nat
      /\ target \div BlockSize <= block
      /\ block <= (target + n - 1) \div BlockSize
  BY <1>2, <1>3 DEF BlocksTouched
<1>5. /\ block * BlockSize \in Nat /\ (block + 1) * BlockSize \in Nat
      /\ (block + 1) * BlockSize = block * BlockSize + BlockSize
  BY <1>1, <1>4, Z3
<1>6. /\ (target \div BlockSize) * BlockSize <= block * BlockSize
      /\ block * BlockSize <= ((target + n - 1) \div BlockSize) * BlockSize
  BY <1>1, <1>3, <1>4, Z3
<1>7. target < block * BlockSize + BlockSize /\ block * BlockSize < target + n
  BY <1>1, <1>3, <1>5, <1>6
<1>8. /\ start = IF target >= lower THEN target ELSE lower
      /\ end = IF target + n <= upper THEN target + n ELSE upper
  <2>1. lower \in Int /\ upper \in Int /\ target \in Int /\ target + n \in Int
    BY <1>5
  <2> HIDE DEF lower, upper
  <2>2. start = IF target >= lower THEN target ELSE lower
    BY <2>1, MaxMin, Zenon
  <2>3. end = IF target + n <= upper THEN target + n ELSE upper
    BY <2>1, MaxMin, Zenon
  <2> QED BY <2>2, <2>3
<1>9. /\ start \in Nat /\ end \in Nat /\ target <= start /\ start < end /\ end <= target + n
      /\ block * BlockSize <= start /\ end <= (block + 1) * BlockSize
  BY <1>1, <1>5, <1>7, <1>8
<1>10. span = [source |-> [start |-> source + start - target,
                           end |-> source + start - target + end - start],
               target |-> [start |-> start, end |-> end],
               slot |-> table[block + 1] * BlockSize + (start % BlockSize)]
  BY <1>2 DEF ScatterGroup
<1>11. start % BlockSize = start - block * BlockSize
  <2>1. /\ start - block * BlockSize \in 0 .. BlockSize - 1
        /\ start = block * BlockSize + (start - block * BlockSize)
    BY <1>1, <1>5, <1>9
  <2> HIDE DEF start, end
  <2> QED BY <1>1, <1>4, <2>1, DivisionOf
<1>12. IsPartIn(span, table, source, target, n, block)
  <2> HIDE DEF start, end, lower, upper, transfer, span, block
  <2> QED BY <1>4, <1>9, <1>10, <1>11 DEF lower, upper, IsPartIn
<1> QED BY <1>12

\* A row of a span lies in its block, at the slot vLLM gives its position.
LEMMA RowOfSpan ==
  ASSUME NEW table, NEW source \in Nat, NEW target \in Nat, NEW n \in Nat \ {0},
         NEW span, NEW block, IsPartIn(span, table, source, target, n, block),
         NEW p \in span.target.start .. span.target.end - 1,
         table[(p \div BlockSize) + 1] \in Nat
  PROVE  /\ p \in target .. target + n - 1
         /\ p \div BlockSize = block
         /\ span.slot \in Nat
         /\ span.slot + (p - span.target.start)
              = table[(p \div BlockSize) + 1] * BlockSize + (p % BlockSize)
<1> DEFINE base == table[(p \div BlockSize) + 1] * BlockSize
           low == block * BlockSize
           r == p - low
<1>1. BlockSize \in Nat \ {0}
  BY LayoutAssumption
<1>2. /\ block \in Nat
      /\ span.target.start \in Nat /\ span.target.end \in Nat
      /\ target <= span.target.start /\ span.target.end <= target + n
      /\ low <= span.target.start
      /\ span.target.end <= (block + 1) * BlockSize
      /\ span.slot = table[block + 1] * BlockSize + (span.target.start - low)
  BY DEF IsPartIn
<1>3. low \in Nat /\ (block + 1) * BlockSize = low + BlockSize
  BY <1>1, <1>2, Z3
<1>4. p \in Nat /\ p \in target .. target + n - 1
  BY <1>2
<1>5. r \in 0 .. BlockSize - 1
  BY <1>1, <1>2, <1>3, <1>4
<1>6. p = block * BlockSize + r
  BY <1>3, <1>4
<1>7. p \div BlockSize = block /\ p % BlockSize = r
  <2> HIDE DEF r
  <2> QED BY <1>1, <1>2, <1>5, <1>6, DivisionOf
<1>8. base \in Nat /\ span.slot = base + (span.target.start - low)
  <2>1. base \in Nat
    <3> DEFINE e == table[(p \div BlockSize) + 1]
    <3>1. e \in Nat
      OBVIOUS
    <3> HIDE DEF e
    <3>2. e * BlockSize \in Nat
      BY <1>1, <3>1, Z3
    <3> QED BY <3>2 DEF e
  <2>2. span.slot = base + (span.target.start - low)
    BY <1>2, <1>7
  <2> QED BY <2>1, <2>2
<1>9. span.slot \in Nat /\ span.slot + (p - span.target.start) = base + r
  <2> HIDE DEF base, low
  <2> QED BY <1>2, <1>3, <1>4, <1>8
<1> QED BY <1>4, <1>7, <1>9

\* Every row of the target is in a span.
LEMMA SpanOfRow ==
  ASSUME NEW table, NEW source \in Nat, NEW target \in Nat, NEW n \in Nat \ {0},
         NEW p \in target .. target + n - 1
  PROVE  \E k \in 1 .. BlocksTouched(TokenTransfer(source, target, n)) :
           LET span == ScatterGroup(table, TokenTransfer(source, target, n))[k]
           IN p \in span.target.start .. span.target.end - 1
<1> DEFINE transfer == TokenTransfer(source, target, n)
           block == p \div BlockSize
           k == block - FirstBlock(transfer) + 1
           lower == block * BlockSize
           upper == (block + 1) * BlockSize
           start == Max({target, lower})
           end == Min({target + n, upper})
<1>1. BlockSize \in Nat \ {0} /\ p \in Nat /\ target + n - 1 \in Nat
  BY LayoutAssumption
<1>2. /\ FirstBlock(transfer) = target \div BlockSize
      /\ LastBlock(transfer) = (target + n - 1) \div BlockSize
      /\ transfer.target.start = target /\ transfer.target.end = target + n
  BY DEF FirstBlock, LastBlock, TokenTransfer
<1>3. /\ target \div BlockSize \in Nat /\ block \in Nat
      /\ (target + n - 1) \div BlockSize \in Nat
  BY <1>1, Division
<1>4. target \div BlockSize <= block /\ block <= (target + n - 1) \div BlockSize
  BY <1>1, DivisionMonotone
<1>5. k \in 1 .. BlocksTouched(transfer)
  BY <1>2, <1>3, <1>4 DEF BlocksTouched
<1>6. /\ block * BlockSize \in Nat /\ block * BlockSize <= p
      /\ (block + 1) * BlockSize = block * BlockSize + BlockSize
      /\ p < (block + 1) * BlockSize
  BY <1>1, <1>3, Division, Z3
<1>7. /\ start = IF target >= lower THEN target ELSE lower
      /\ end = IF target + n <= upper THEN target + n ELSE upper
  <2>1. lower \in Int /\ upper \in Int /\ target \in Int /\ target + n \in Int
    BY <1>1, <1>6
  <2> HIDE DEF lower, upper
  <2>2. start = IF target >= lower THEN target ELSE lower
    BY <2>1, MaxMin, Zenon
  <2>3. end = IF target + n <= upper THEN target + n ELSE upper
    BY <2>1, MaxMin, Zenon
  <2> QED BY <2>2, <2>3
<1>8. start \in Int /\ end \in Int /\ start <= p /\ p < end
  BY <1>1, <1>6, <1>7
<1>9. ScatterGroup(table, transfer)[k].target = [start |-> start, end |-> end]
  <2>1. FirstBlock(transfer) + k - 1 = block
    BY <1>2, <1>3
  <2> HIDE DEF k, block
  <2> QED BY <1>2, <1>5, <2>1 DEF ScatterGroup
<1>10. p \in ScatterGroup(table, transfer)[k].target.start .. ScatterGroup(table, transfer)[k].target.end - 1
  <2> HIDE DEF start, end, k, block, transfer
  <2> QED BY <1>1, <1>8, <1>9
<1> HIDE DEF k
<1> QED BY <1>5, <1>10

-----------------------------------------------------------------------------
(* The slots of a request.                                                  *)

\* A configuration that registration has passed.
ConfigOk(c) ==
  /\ c \in Seq([kind : {"sliding", "full"}, layers : Seq(Nat), block_size : Nat])
  /\ ValidKvCacheConfig(c)

\* The block tables of a request of so many rows: vLLM's pool gives a block to one
\* group of one request.
TablesReach(tables, rows) ==
  /\ tables \in Seq(Seq(Nat)) /\ ValidKvCacheBlocks(tables)
  /\ ToSet(tables[1]) \cap ToSet(tables[2]) = {}
  /\ \A g \in {1, 2} : rows <= Len(tables[g]) * BlockSize

\* vLLM's slot mapping, for a given configuration.
SlotIn(c, tables, l, p) ==
  tables[GroupOf(c, l)][(p \div BlockSize) + 1] * BlockSize + (p % BlockSize)

\* Every layer has its group.
LEMMA LayerHasGroup ==
  ASSUME NEW c, ConfigOk(c), NEW l \in Layers
  PROVE  /\ GroupOf(c, l) \in {1, 2}
         /\ c[GroupOf(c, l)].kind = AttentionKind(l)
<1>1. DOMAIN c = {1, 2}
  <2>1. c \in Seq([kind : {"sliding", "full"}, layers : Seq(Nat), block_size : Nat])
    BY DEF ConfigOk
  <2>2. Len(c) = 2
    BY DEF ConfigOk, ValidKvCacheConfig, ValidLayout
  <2> QED BY <2>1, <2>2
<1>2. \E g \in DOMAIN c : l \in ToSet(c[g].layers)
  BY DEF ConfigOk, ValidKvCacheConfig, ValidLayout
<1>3. GroupOf(c, l) \in DOMAIN c /\ l \in ToSet(c[GroupOf(c, l)].layers)
  BY <1>2 DEF GroupOf
<1>4. c[GroupOf(c, l)].kind = AttentionKind(l)
  BY <1>3 DEF ConfigOk, ValidKvCacheConfig, ValidLayout
<1> QED BY <1>1, <1>3, <1>4

\* Two layers that share a tensor are in different groups.
LEMMA SharedTensor ==
  ASSUME NEW c, ConfigOk(c), NEW l1 \in Layers, NEW l2 \in Layers,
         l1 \div 2 = l2 \div 2, GroupOf(c, l1) = GroupOf(c, l2)
  PROVE  l1 = l2
<1>1. AttentionKind(l1) = AttentionKind(l2)
  BY LayerHasGroup
<1>2. l1 \in Nat /\ l2 \in Nat
  BY LayoutAssumption DEF Layers
<1>3. (l1 % 2 = 0) <=> (l2 % 2 = 0)
  BY <1>1 DEF AttentionKind
<1> QED BY <1>2, <1>3

\* The block of a position.
LEMMA BlockOfPosition ==
  ASSUME NEW tables, NEW rows \in Nat, TablesReach(tables, rows), NEW g \in {1, 2},
         NEW p \in 0 .. rows - 1
  PROVE  /\ p \in Nat /\ (p \div BlockSize) + 1 \in DOMAIN tables[g]
         /\ tables[g][(p \div BlockSize) + 1] \in 0 .. NumBlocks - 1
         /\ tables[g][(p \div BlockSize) + 1] \in ToSet(tables[g])
<1>1. /\ tables \in Seq(Seq(Nat)) /\ Len(tables) = 2
      /\ rows <= Len(tables[g]) * BlockSize
  BY DEF TablesReach, ValidKvCacheBlocks
<1>2. g \in DOMAIN tables /\ tables[g] \in Seq(Nat) /\ Len(tables[g]) \in Nat
  <2>1. DOMAIN tables = 1 .. 2
    BY <1>1, LenProperties
  <2>2. g \in DOMAIN tables
    BY <2>1
  <2>3. tables[g] \in Seq(Nat)
    <3> DEFINE S == Seq(Nat)
    <3>1. tables \in Seq(S) /\ g \in 1 .. Len(tables)
      BY <1>1
    <3> HIDE DEF S
    <3>2. tables[g] \in S
      BY <3>1, ElementOfSeq
    <3> QED BY <3>2 DEF S
  <2> QED BY <2>2, <2>3, LenProperties
<1>3. p \in Nat
  OBVIOUS
<1>4. /\ BlockSize \in Nat \ {0}
      /\ p \div BlockSize \in Nat /\ p % BlockSize \in 0 .. BlockSize - 1
      /\ p = (p \div BlockSize) * BlockSize + (p % BlockSize)
  BY <1>3, LayoutAssumption, Division
<1>5. p \div BlockSize < Len(tables[g])
  <2> DEFINE q == p \div BlockSize
             n == Len(tables[g])
  <2>1. q \in Nat /\ n \in Nat /\ q * BlockSize < n * BlockSize
    <3>1. q * BlockSize \in Nat /\ n * BlockSize \in Nat
      BY <1>2, <1>4, Z3
    <3> QED BY <1>1, <1>2, <1>3, <1>4, <3>1
  <2> HIDE DEF q, n
  <2>2. SUFFICES ASSUME n <= q PROVE FALSE
    BY <2>1 DEF q, n
  <2>3. n * BlockSize <= q * BlockSize
    BY <1>4, <2>1, <2>2, Z3
  <2>4. n * BlockSize \in Nat /\ q * BlockSize \in Nat
    BY <1>4, <2>1, Z3
  <2> QED BY <2>1, <2>3, <2>4
<1>6. (p \div BlockSize) + 1 \in DOMAIN tables[g]
  BY <1>2, <1>4, <1>5
<1>7. tables[g][(p \div BlockSize) + 1] \in ToSet(tables[g])
  BY <1>6 DEF ToSet
<1>8. tables[g][(p \div BlockSize) + 1] \in Nat
  BY <1>2, <1>6
<1>9. \A b \in ToSet(tables[g]) : b < NumBlocks
  BY <1>2 DEF TablesReach, ValidKvCacheBlocks
<1> QED BY <1>3, <1>6, <1>7, <1>8, <1>9, LayoutAssumption

\* The slot of a position is a slot of its block.
LEMMA SlotOfPosition ==
  ASSUME NEW c, ConfigOk(c), NEW tables, NEW rows \in Nat, TablesReach(tables, rows),
         NEW l \in Layers, NEW p \in 0 .. rows - 1
  PROVE  /\ SlotIn(c, tables, l, p) \in 0 .. NumBlocks * BlockSize - 1
         /\ SlotIn(c, tables, l, p) \div BlockSize
              = tables[GroupOf(c, l)][(p \div BlockSize) + 1]
         /\ SlotIn(c, tables, l, p) % BlockSize = p % BlockSize
         /\ SlotIn(c, tables, l, p) \div BlockSize \in ToSet(tables[1]) \cup ToSet(tables[2])
<1> DEFINE g == GroupOf(c, l)
           b == tables[g][(p \div BlockSize) + 1]
           r == p % BlockSize
<1>1. g \in {1, 2}
  BY LayerHasGroup
<1> HIDE DEF g
<1>2. p \in Nat /\ b \in 0 .. NumBlocks - 1 /\ b \in ToSet(tables[g])
  BY <1>1, BlockOfPosition
<1>3. BlockSize \in Nat \ {0} /\ NumBlocks \in Nat
  BY LayoutAssumption
<1>4. r \in 0 .. BlockSize - 1
  BY <1>2, <1>3, Division
<1>5. SlotIn(c, tables, l, p) = b * BlockSize + r
  BY DEF SlotIn, g
<1> HIDE DEF b, r
<1>6. (b * BlockSize + r) \div BlockSize = b /\ (b * BlockSize + r) % BlockSize = r
  <2>1. b \in Nat
    BY <1>2, <1>3
  <2> QED BY <1>3, <1>4, <2>1, DivisionOf
<1>7. b * BlockSize + r \in 0 .. NumBlocks * BlockSize - 1
  <2>1. b + 1 <= NumBlocks /\ b \in Nat
    BY <1>2, <1>3
  <2>2. (b + 1) * BlockSize <= NumBlocks * BlockSize
    BY <1>3, <2>1, Z3
  <2>3. /\ (b + 1) * BlockSize = b * BlockSize + BlockSize
        /\ b * BlockSize \in Nat /\ NumBlocks * BlockSize \in Nat
    BY <1>3, <2>1, Z3
  <2> QED BY <1>3, <1>4, <2>2, <2>3
<1>8. b \in ToSet(tables[1]) \cup ToSet(tables[2])
  BY <1>1, <1>2
<1> QED BY <1>5, <1>6, <1>7, <1>8 DEF b, r, g

\* Positions of a request have slots of their own, in every layer.
LEMMA SlotsAreDistinct ==
  ASSUME NEW c, ConfigOk(c), NEW tables, NEW rows \in Nat, TablesReach(tables, rows),
         NEW l1 \in Layers, NEW p1 \in 0 .. rows - 1,
         NEW l2 \in Layers, NEW p2 \in 0 .. rows - 1,
         l1 \div 2 = l2 \div 2,
         SlotIn(c, tables, l1, p1) = SlotIn(c, tables, l2, p2)
  PROVE  l1 = l2 /\ p1 = p2
<1> DEFINE g1 == GroupOf(c, l1)
           g2 == GroupOf(c, l2)
           b1 == (p1 \div BlockSize) + 1
           b2 == (p2 \div BlockSize) + 1
<1>1. g1 \in {1, 2} /\ g2 \in {1, 2}
  BY LayerHasGroup
<1>2. /\ p1 \in Nat /\ b1 \in DOMAIN tables[g1] /\ tables[g1][b1] \in ToSet(tables[g1])
      /\ p2 \in Nat /\ b2 \in DOMAIN tables[g2] /\ tables[g2][b2] \in ToSet(tables[g2])
  BY <1>1, BlockOfPosition
<1>3. tables[g1][b1] = tables[g2][b2] /\ p1 % BlockSize = p2 % BlockSize
  BY SlotOfPosition
<1>4. /\ Len(tables) = 2 /\ tables \in Seq(Seq(Nat))
      /\ \A g \in DOMAIN tables : IsInjective(tables[g])
  BY DEF TablesReach, ValidKvCacheBlocks
<1>5. ToSet(tables[1]) \cap ToSet(tables[2]) = {}
  BY DEF TablesReach
<1>6. g1 = g2
  <2> HIDE DEF g1, g2, b1, b2
  <2> QED BY <1>1, <1>2, <1>3, <1>5
<1>7. b1 = b2
  <2>1. g1 \in DOMAIN tables
    BY <1>1, <1>4
  <2>2. IsInjective(tables[g1])
    BY <1>4, <2>1
  <2> HIDE DEF g1, g2, b1, b2
  <2> QED BY <1>2, <1>3, <1>6, <2>2 DEF IsInjective
<1>8. p1 = p2
  <2>1. BlockSize \in Nat \ {0}
    BY LayoutAssumption
  <2>2. p1 \div BlockSize = p2 \div BlockSize
    BY <1>2, <1>7, <2>1, Division
  <2>3. /\ p1 = (p1 \div BlockSize) * BlockSize + (p1 % BlockSize)
        /\ p2 = (p2 \div BlockSize) * BlockSize + (p2 % BlockSize)
    BY <1>2, <2>1, Division
  <2> QED BY <1>3, <2>2, <2>3
<1> QED BY <1>6, <1>8, SharedTensor

-----------------------------------------------------------------------------
(* The plan of a transfer.                                                  *)

\* A plan has as many spans for every layer, one layer after the other.
LEMMA PlanIndex ==
  ASSUME NEW m \in Nat \ {0}, NEW i \in 1 .. NumLayers * m
  PROVE  /\ (i - 1) \div m \in Layers
         /\ ((i - 1) % m) + 1 \in 1 .. m
         /\ i = ((i - 1) \div m) * m + ((i - 1) % m) + 1
<1> DEFINE a == i - 1
<1>1. NumLayers \in Nat \ {0} /\ NumLayers * m \in Nat
  <2>1. NumLayers \in Nat \ {0}
    BY LayoutAssumption
  <2> QED BY <2>1, Z3
<1>2. a \in Nat /\ a < NumLayers * m /\ i = a + 1
  BY <1>1
<1> HIDE DEF a
<1>3. /\ a \div m \in Nat /\ a % m \in 0 .. m - 1
      /\ a = (a \div m) * m + (a % m)
  BY <1>2, Division
<1> DEFINE q == a \div m
<1>4. q < NumLayers
  <2>1. SUFFICES ASSUME NumLayers <= q PROVE FALSE
    BY <1>1, <1>3
  <2>2. q \in Nat /\ a = q * m + (a % m)
    BY <1>3
  <2> HIDE DEF q
  <2>3. NumLayers * m <= q * m /\ q * m \in Nat
    BY <1>1, <2>1, <2>2, Z3
  <2> QED BY <1>1, <1>2, <1>3, <2>2, <2>3
<1> QED BY <1>1, <1>2, <1>3, <1>4 DEF Layers, a

\* The place of a layer's k-th span in a plan of m spans for every layer.
LEMMA PlanPosition ==
  ASSUME NEW m \in Nat \ {0}, NEW l \in Layers, NEW k \in 1 .. m
  PROVE  /\ l * m + k \in 1 .. NumLayers * m
         /\ ((l * m + k) - 1) \div m = l
         /\ (((l * m + k) - 1) % m) + 1 = k
<1>1. NumLayers \in Nat \ {0} /\ l \in Nat /\ l + 1 <= NumLayers
  BY LayoutAssumption DEF Layers
<1>2. (l + 1) * m <= NumLayers * m
  BY <1>1, Z3
<1>3. (l + 1) * m = l * m + m /\ l * m \in Nat /\ NumLayers * m \in Nat
  BY <1>1, Z3
<1>4. l * m + k \in 1 .. NumLayers * m
  BY <1>2, <1>3
<1> DEFINE r == k - 1
<1>5. r \in 0 .. m - 1
  OBVIOUS
<1>6. (l * m + k) - 1 = l * m + r
  BY <1>3
<1> HIDE DEF r
<1>7. (l * m + r) \div m = l /\ (l * m + r) % m = r
  BY <1>1, <1>5, DivisionOf
<1> QED BY <1>4, <1>6, <1>7 DEF r

\* The span of a layer: its rows are rows of the target, at the slots vLLM
\* gives their positions, with the source that is theirs.
SpanOk(s, c, tables, source, target, n) ==
  /\ s.layer \in Layers
  /\ s.span.target.start \in Nat /\ s.span.target.end \in Nat
  /\ s.span.target.start < s.span.target.end
  /\ s.span.slot \in Nat
  /\ s.span.source.start = source + s.span.target.start - target
  /\ \A p \in s.span.target.start .. s.span.target.end - 1 :
       /\ p \in target .. target + n - 1
       /\ s.span.slot + (p - s.span.target.start) = SlotIn(c, tables, s.layer, p)

\* A row of the target and the span of a layer.
RowIn(s, l, p) == s.layer = l /\ p \in s.span.target.start .. s.span.target.end - 1

\* The spans hold every row of the target once in every layer.
SpansCover(spans, c, tables, source, target, n) ==
  /\ Len(spans) \in Nat /\ DOMAIN spans = 1 .. Len(spans)
  /\ \A i \in DOMAIN spans : SpanOk(spans[i], c, tables, source, target, n)
  /\ \A l \in Layers, p \in target .. target + n - 1 :
       \E i \in DOMAIN spans : RowIn(spans[i], l, p)
  /\ \A l \in Layers, p \in target .. target + n - 1 : \A i, j \in DOMAIN spans :
       RowIn(spans[i], l, p) /\ RowIn(spans[j], l, p) => i = j

\* The span of a layer in the k-th block that the target touches.
LayerSpan(c, tables, transfer, l, k) ==
  [layer |-> l, span |-> ScatterGroup(tables[GroupOf(c, l)], transfer)[k]]

\* A target that is not empty touches a block.
LEMMA TouchesBlocks ==
  ASSUME NEW source \in Nat, NEW target \in Nat, NEW n \in Nat \ {0}
  PROVE  BlocksTouched(TokenTransfer(source, target, n)) \in Nat \ {0}
<1>1. BlockSize \in Nat \ {0} /\ target + n - 1 \in Nat /\ target <= target + n - 1
  BY LayoutAssumption
<1>2. /\ target \div BlockSize \in Nat /\ (target + n - 1) \div BlockSize \in Nat
      /\ target \div BlockSize <= (target + n - 1) \div BlockSize
  BY <1>1, Division, DivisionMonotone
<1>3. BlocksTouched(TokenTransfer(source, target, n))
        = ((target + n - 1) \div BlockSize) - (target \div BlockSize) + 1
  BY DEF BlocksTouched, FirstBlock, LastBlock, TokenTransfer
<1> QED BY <1>2, <1>3

\* Every span that plan_token_scatter makes has the slots of its rows.
LEMMA LayerSpanOk ==
  ASSUME NEW c, ConfigOk(c), NEW tables, NEW rows \in Nat, TablesReach(tables, rows),
         NEW source \in Nat, NEW target \in Nat, NEW n \in Nat \ {0},
         target + n <= rows, NEW l \in Layers,
         NEW k \in 1 .. BlocksTouched(TokenTransfer(source, target, n))
  PROVE  SpanOk(LayerSpan(c, tables, TokenTransfer(source, target, n), l, k),
                c, tables, source, target, n)
<1> DEFINE transfer == TokenTransfer(source, target, n)
           g == GroupOf(c, l)
           span == ScatterGroup(tables[g], transfer)[k]
           block == FirstBlock(transfer) + k - 1
<1>1. IsPartIn(span, tables[g], source, target, n, block)
  BY SpanShape
<1>2. g \in {1, 2}
  BY LayerHasGroup
<1>3. rows \in Nat
  OBVIOUS
<1>4. /\ span.target.start \in Nat /\ span.target.end \in Nat
      /\ span.target.start < span.target.end
      /\ target <= span.target.start /\ span.target.end <= target + n
      /\ span.source.start = source + span.target.start - target
  <2> HIDE DEF span, block, g
  <2> QED BY <1>1 DEF IsPartIn
<1>5. ASSUME NEW p \in span.target.start .. span.target.end - 1
      PROVE  /\ p \in target .. target + n - 1
             /\ span.slot \in Nat
             /\ span.slot + (p - span.target.start) = SlotIn(c, tables, l, p)
  <2>1. p \in 0 .. rows - 1
    <3> HIDE DEF span
    <3> QED BY <1>3, <1>4
  <2>2. tables[g][(p \div BlockSize) + 1] \in Nat
    <3> HIDE DEF g
    <3>1. tables[g][(p \div BlockSize) + 1] \in 0 .. NumBlocks - 1
      BY <1>2, <2>1, BlockOfPosition
    <3> QED BY <3>1, LayoutAssumption
  <2>3. /\ p \in target .. target + n - 1 /\ span.slot \in Nat
        /\ span.slot + (p - span.target.start)
             = tables[g][(p \div BlockSize) + 1] * BlockSize + (p % BlockSize)
    <3> DEFINE table == tables[g]
    <3>1. IsPartIn(span, table, source, target, n, block)
      BY <1>1
    <3>2. table[(p \div BlockSize) + 1] \in Nat
      BY <2>2
    <3> HIDE DEF span, table, block
    <3> QED BY <3>1, <3>2, RowOfSpan DEF table
  <2> QED BY <2>3 DEF SlotIn
<1>6. span.slot \in Nat
  <2>1. span.target.start \in span.target.start .. span.target.end - 1
    <3> HIDE DEF span
    <3> QED BY <1>4
  <2> QED BY <1>5, <2>1
<1> HIDE DEF span
<1>7. LayerSpan(c, tables, transfer, l, k) = [layer |-> l, span |-> span]
  BY DEF LayerSpan, span
<1> DEFINE s == LayerSpan(c, tables, transfer, l, k)
<1>8. s.layer = l /\ s.span = span
  BY <1>7
<1> HIDE DEF s
<1>9. SpanOk(s, c, tables, source, target, n)
  BY <1>4, <1>5, <1>6, <1>8 DEF SpanOk
<1> QED BY <1>9 DEF s

\* A row of the target is in one of the spans of a layer.
LEMMA RowInOneSpan ==
  ASSUME NEW c, ConfigOk(c), NEW tables, NEW rows \in Nat, TablesReach(tables, rows),
         NEW source \in Nat, NEW target \in Nat, NEW n \in Nat \ {0},
         target + n <= rows, NEW l \in Layers,
         NEW k \in 1 .. BlocksTouched(TokenTransfer(source, target, n)), NEW p,
         RowIn(LayerSpan(c, tables, TokenTransfer(source, target, n), l, k), l, p)
  PROVE  k = (p \div BlockSize) - FirstBlock(TokenTransfer(source, target, n)) + 1
<1> DEFINE transfer == TokenTransfer(source, target, n)
           g == GroupOf(c, l)
           span == ScatterGroup(tables[g], transfer)[k]
           block == FirstBlock(transfer) + k - 1
<1>1. IsPartIn(span, tables[g], source, target, n, block)
  BY SpanShape
<1>2. g \in {1, 2}
  BY LayerHasGroup
<1>3. rows \in Nat
  OBVIOUS
<1>4. p \in span.target.start .. span.target.end - 1
  <2> HIDE DEF span
  <2>1. LayerSpan(c, tables, transfer, l, k).span = span
    BY DEF LayerSpan, span
  <2> HIDE DEF transfer
  <2> QED BY <2>1 DEF RowIn, transfer
<1>5. p \in 0 .. rows - 1
  <2> HIDE DEF span, block, g
  <2> QED BY <1>1, <1>3, <1>4 DEF IsPartIn
<1>6. p \div BlockSize = block
  <2>1. tables[g][(p \div BlockSize) + 1] \in 0 .. NumBlocks - 1
    <3> HIDE DEF g
    <3> QED BY <1>2, <1>5, BlockOfPosition
  <2> DEFINE table == tables[g]
  <2>2. IsPartIn(span, table, source, target, n, block)
    BY <1>1
  <2>3. table[(p \div BlockSize) + 1] \in Nat
    BY <2>1, LayoutAssumption
  <2> HIDE DEF span, table, block
  <2> QED BY <1>4, <2>2, <2>3, RowOfSpan
<1>7. FirstBlock(transfer) \in Nat
  <2>1. FirstBlock(transfer) = target \div BlockSize
    BY DEF FirstBlock, TokenTransfer
  <2> QED BY <2>1, LayoutAssumption, Division
<1>8. BlocksTouched(transfer) \in Nat \ {0}
  BY TouchesBlocks
<1> DEFINE first == FirstBlock(transfer)
           m == BlocksTouched(transfer)
<1>9. first \in Nat /\ m \in Nat /\ k \in 1 .. m /\ p \div BlockSize = first + k - 1
  BY <1>6, <1>7, <1>8
<1> HIDE DEF transfer
<1>10. k = (p \div BlockSize) - first + 1
  <2> HIDE DEF first, m
  <2> QED BY <1>9
<1> QED BY <1>10 DEF transfer

\* The i-th span of a plan.
LEMMA PlanSpan ==
  ASSUME NEW c, NEW tables, NEW transfer, BlocksTouched(transfer) \in Nat \ {0}
  PROVE  /\ Len(PlanTokenScatter(c, tables, transfer)) = NumLayers * BlocksTouched(transfer)
         /\ NumLayers * BlocksTouched(transfer) \in Nat
         /\ DOMAIN PlanTokenScatter(c, tables, transfer)
              = 1 .. NumLayers * BlocksTouched(transfer)
         /\ \A i \in DOMAIN PlanTokenScatter(c, tables, transfer) :
              PlanTokenScatter(c, tables, transfer)[i]
                = LayerSpan(c, tables, transfer, (i - 1) \div BlocksTouched(transfer),
                            ((i - 1) % BlocksTouched(transfer)) + 1)
<1> DEFINE m == BlocksTouched(transfer)
           N == NumLayers * m
           plan == PlanTokenScatter(c, tables, transfer)
<1>1. N \in Nat
  <2> HIDE DEF m
  <2> QED BY LayoutAssumption, Z3 DEF m
<1>2. plan = [i \in 1 .. N |->
        LayerSpans(c, tables, transfer, (i - 1) \div m)[((i - 1) % m) + 1]]
  BY DEF PlanTokenScatter
<1>3. ASSUME NEW i \in 1 .. N
      PROVE  plan[i] = LayerSpan(c, tables, transfer, (i - 1) \div m, ((i - 1) % m) + 1)
  <2> DEFINE k == ((i - 1) % m) + 1
             l == (i - 1) \div m
  <2>1. k \in 1 .. m
    BY PlanIndex
  <2>2. plan[i] = LayerSpans(c, tables, transfer, l)[k]
    BY <1>2
  <2> HIDE DEF k, l, plan
  <2>3. DOMAIN ScatterGroup(tables[GroupOf(c, l)], transfer) = 1 .. m
    BY DEF ScatterGroup
  <2> HIDE DEF m
  <2>4. LayerSpans(c, tables, transfer, l)[k] = LayerSpan(c, tables, transfer, l, k)
    BY <2>1, <2>3 DEF LayerSpans, LayerSpan
  <2> QED BY <2>2, <2>4 DEF k, l
<1>4. Len(plan) = N /\ DOMAIN plan = 1 .. N
  <2> HIDE DEF N
  <2> QED BY <1>1, <1>2
<1> HIDE DEF plan, m
<1> QED BY <1>1, <1>3, <1>4 DEF plan, m

\* plan_token_scatter covers its target, in every layer.
LEMMA PlanCovers ==
  ASSUME NEW c, ConfigOk(c), NEW tables, NEW rows \in Nat, TablesReach(tables, rows),
         NEW source \in Nat, NEW target \in Nat, NEW n \in Nat \ {0},
         target + n <= rows
  PROVE  SpansCover(PlanTokenScatter(c, tables, TokenTransfer(source, target, n)),
                    c, tables, source, target, n)
<1> DEFINE transfer == TokenTransfer(source, target, n)
           m == BlocksTouched(transfer)
           spans == PlanTokenScatter(c, tables, transfer)
           L(i) == (i - 1) \div m
           K(i) == ((i - 1) % m) + 1
<1>1. m \in Nat \ {0}
  BY TouchesBlocks
<1>2. /\ Len(spans) = NumLayers * m /\ NumLayers * m \in Nat
      /\ DOMAIN spans = 1 .. NumLayers * m
      /\ \A i \in DOMAIN spans : spans[i] = LayerSpan(c, tables, transfer, L(i), K(i))
  BY <1>1, PlanSpan
<1>3. \A i \in DOMAIN spans :
        /\ L(i) \in Layers /\ K(i) \in 1 .. m /\ i = L(i) * m + K(i)
        /\ spans[i].layer = L(i)
  <2> SUFFICES ASSUME NEW i \in DOMAIN spans
               PROVE  /\ L(i) \in Layers /\ K(i) \in 1 .. m /\ i = L(i) * m + K(i)
                      /\ spans[i].layer = L(i)
    OBVIOUS
  <2>1. i \in 1 .. NumLayers * m
    BY <1>2
  <2>2. spans[i].layer = L(i)
    BY <1>2 DEF LayerSpan
  <2> HIDE DEF m, spans
  <2>3. L(i) \in Layers /\ K(i) \in 1 .. m /\ i = L(i) * m + ((i - 1) % m) + 1
    BY <1>1, <2>1, PlanIndex
  <2>4. L(i) * m \in Nat /\ (i - 1) % m \in Int
    <3>1. L(i) \in Nat
      BY <2>3, LayoutAssumption DEF Layers
    <3> HIDE DEF L
    <3> QED BY <1>1, <2>1, <2>3, <3>1, Z3
  <2> QED BY <2>2, <2>3, <2>4
<1>4. \A i \in DOMAIN spans : SpanOk(spans[i], c, tables, source, target, n)
  <2> SUFFICES ASSUME NEW i \in DOMAIN spans
               PROVE  SpanOk(spans[i], c, tables, source, target, n)
    OBVIOUS
  <2>1. L(i) \in Layers /\ K(i) \in 1 .. BlocksTouched(TokenTransfer(source, target, n))
    BY <1>3
  <2>2. spans[i] = LayerSpan(c, tables, TokenTransfer(source, target, n), L(i), K(i))
    BY <1>2
  <2> HIDE DEF spans, L, K
  <2> QED BY <2>1, <2>2, LayerSpanOk
<1>5. ASSUME NEW l \in Layers, NEW p \in target .. target + n - 1
      PROVE  \E i \in DOMAIN spans : RowIn(spans[i], l, p)
  <2>1. PICK k \in 1 .. m :
          LET span == ScatterGroup(tables[GroupOf(c, l)], transfer)[k]
          IN p \in span.target.start .. span.target.end - 1
    BY SpanOfRow
  <2> DEFINE i == l * m + k
  <2>2. i \in DOMAIN spans /\ L(i) = l /\ K(i) = k
    <3>1. i \in 1 .. NumLayers * m /\ (i - 1) \div m = l /\ ((i - 1) % m) + 1 = k
      <4> HIDE DEF m
      <4> QED BY <1>1, PlanPosition
    <3> QED BY <1>2, <3>1
  <2>3. spans[i] = LayerSpan(c, tables, transfer, l, k)
    BY <1>2, <2>2
  <2> HIDE DEF i, spans, transfer
  <2>4. RowIn(spans[i], l, p)
    BY <2>1, <2>3 DEF RowIn, LayerSpan
  <2> QED BY <2>2, <2>4
<1>6. ASSUME NEW l \in Layers, NEW p \in target .. target + n - 1,
             NEW i \in DOMAIN spans, NEW j \in DOMAIN spans,
             RowIn(spans[i], l, p), RowIn(spans[j], l, p)
      PROVE  i = j
  <2>1. L(i) = l /\ L(j) = l
    BY <1>3, <1>6 DEF RowIn
  <2>2. /\ RowIn(LayerSpan(c, tables, TokenTransfer(source, target, n), l, K(i)), l, p)
        /\ RowIn(LayerSpan(c, tables, TokenTransfer(source, target, n), l, K(j)), l, p)
    BY <1>2, <1>6, <2>1
  <2>3. /\ K(i) \in 1 .. BlocksTouched(TokenTransfer(source, target, n))
        /\ K(j) \in 1 .. BlocksTouched(TokenTransfer(source, target, n))
    BY <1>3
  <2>4. K(i) = K(j)
    <3> HIDE DEF K, spans
    <3> QED BY <2>2, <2>3, RowInOneSpan
  <2> QED BY <1>3, <2>1, <2>4
<1> HIDE DEF spans
<1> QED BY <1>2, <1>4, <1>5, <1>6 DEF SpansCover, spans
=============================================================================
