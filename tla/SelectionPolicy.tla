--------------------------- MODULE SelectionPolicy ---------------------------
(***************************************************************************)
(* Which rows of a prompt are computed again and which are taken from the  *)
(* cache: the row plans of gpt_oss/selective.py, the check-layer policy of *)
(* selective_policy.py and the second opinion of selective_policy_io.py,   *)
(* which works a published sweep out again before it accepts it.           *)
(*                                                                         *)
(* A ratio is a fraction [num, den]; scores are naturals.  The code's      *)
(* ratios are floats, and both sides round them down the same way.         *)
(***************************************************************************)
EXTENDS Layout

CONSTANT MaxContextTokens   \* GPT_OSS_MAX_CONTEXT_TOKENS

ASSUME ContextAssumption == MaxContextTokens \in Nat

TokenRange(a, b) == [start |-> a, end |-> b]
RowsOf(ranges) == UNION {r.start .. r.end - 1 : r \in ToSet(ranges)}

\* _normalize_ranges, _validate_cache_ranges and _ranges: not empty, in order,
\* apart, within the prompt.
CanonicalRanges(n, ranges) ==
  /\ n <= MaxContextTokens
  /\ \A r \in ToSet(ranges) : r.start < r.end /\ r.end <= n
  /\ \A i \in 1 .. Len(ranges) - 1 : ranges[i].end <= ranges[i + 1].start

\* What is left of a sequence of ranges without the empty ones.
NonEmpty(ranges) ==
  LET kept[i \in 0 .. Len(ranges)] ==
        IF i = 0 THEN <<>>
        ELSE IF ranges[i].start < ranges[i].end THEN Append(kept[i - 1], ranges[i])
        ELSE kept[i - 1]
  IN kept[Len(ranges)]

\* _complement: what lies before, between and after canonical ranges.
Complement(n, ranges) ==
  NonEmpty([i \in 1 .. Len(ranges) + 1 |->
    TokenRange(IF i = 1 THEN 0 ELSE ranges[i - 1].end,
               IF i = Len(ranges) + 1 THEN n ELSE ranges[i].start)])

\* The order in which ranges are merged; one that occurs twice merges with itself.
InOrder(r, s) == r.start < s.start \/ (r.start = s.start /\ r.end < s.end)
Ordered(ranges) ==
  [k \in 1 .. Cardinality(ranges) |->
    CHOOSE r \in ranges : Cardinality({q \in ranges : InOrder(q, r)}) = k - 1]

\* Mutant of Merge: a range inside the one before it cuts it short.
MergeShrinking(merged, r) ==
  IF merged = <<>> \/ r.start > merged[Len(merged)].end THEN Append(merged, r)
  ELSE [merged EXCEPT ![Len(merged)] = TokenRange(@.start, r.end)]

\* One more range beside the ones merged so far: apart from the last, or an
\* extension of it.
Merge(merged, r) ==
  IF merged = <<>> \/ r.start > merged[Len(merged)].end THEN Append(merged, r)
  ELSE IF r.end > merged[Len(merged)].end
         THEN [merged EXCEPT ![Len(merged)] = TokenRange(@.start, r.end)]
         ELSE merged

\* _merge_ranges: ranges that overlap or touch become one.
MergeRanges(ranges) ==
  LET ordered == Ordered(ranges)
      merged[i \in 0 .. Len(ordered)] ==
        IF i = 0 THEN <<>> ELSE Merge(merged[i - 1], ordered[i])
  IN merged[Len(ordered)]

ForcedSuffix(n, suffix) == IF suffix = 0 THEN <<>> ELSE <<TokenRange(n - suffix, n)>>
Singles(rows) == {TokenRange(p, p + 1) : p \in rows}

\* ForwardRowPlan: the ranges computed again in each layer; the rest of the
\* prompt is what LayerRowSelection.cached_ranges makes of it.
RowPlan(n, ranges) == [n |-> n, layers |-> [l \in Layers |-> ranges]]
ValidRowPlan(plan) == \A l \in Layers : CanonicalRanges(plan.n, plan.layers[l])
FullRecompute(n) == RowPlan(n, IF n = 0 THEN <<>> ELSE <<TokenRange(0, n)>>)
CachedRanges(plan, l) == Complement(plan.n, plan.layers[l])
RecomputeTokens(plan) ==
  LET below[l \in 0 .. NumLayers] ==
        IF l = 0 THEN 0 ELSE below[l - 1] + Cardinality(RowsOf(plan.layers[l - 1]))
  IN below[NumLayers]

-----------------------------------------------------------------------------
(* CacheBlendSelectionPolicy.                                               *)

\* What select accepts: a prompt's length, the ranges with verified rows, one
\* score per row, a ratio and a suffix.
ValidSelection(in, ratio) ==
  /\ ratio.num <= ratio.den
  /\ in.suffix <= in.n
  /\ DOMAIN in.scores = 0 .. in.n - 1
  /\ CanonicalRanges(in.n, in.cached)

Eligible(in) == RowsOf(in.cached) \ RowsOf(ForcedSuffix(in.n, in.suffix))
Budget(in, ratio) == (Cardinality(Eligible(in)) * ratio.num) \div ratio.den

\* The order of the candidates: highest score first, then lowest position.
Ahead(in, p, q) == in.scores[p] > in.scores[q] \/ (in.scores[p] = in.scores[q] /\ p < q)

SelectionPoint(in, ratio, selected) ==
  LET recompute == MergeRanges(ToSet(Complement(in.n, in.cached))
                               \cup ToSet(ForcedSuffix(in.n, in.suffix)) \cup Singles(selected))
  IN [n |-> in.n, suffix |-> in.suffix, cached |-> in.cached, ratio |-> ratio,
      selected |-> selected, recompute |-> recompute, plan |-> RowPlan(in.n, recompute),
      measured |-> FALSE]

\* The first rows of the candidates in their order, one after the other.
Best(in, left) == CHOOSE p \in left : \A q \in left \ {p} : Ahead(in, p, q)
Ranked(in, count) ==
  LET first[i \in 0 .. count] ==
        IF i = 0 THEN {} ELSE first[i - 1] \cup {Best(in, Eligible(in) \ first[i - 1])}
  IN first[count]

\* Mutant of Select: the budget is rounded up.
SelectRoundedUp(in, ratio) ==
  SelectionPoint(in, ratio, Ranked(in, Min({Cardinality(Eligible(in)), Budget(in, ratio) + 1})))

Select(in, ratio) == SelectionPoint(in, ratio, Ranked(in, Budget(in, ratio)))

Smaller(r, s) == r.num * s.den < s.num * r.den

\* SelectionSweep: ratios that fall, everything else the same.
ValidSweep(points) ==
  /\ points # <<>>
  /\ \A i \in 1 .. Len(points) - 1 : Smaller(points[i + 1].ratio, points[i].ratio)
  /\ \A i \in DOMAIN points : /\ points[i].n = points[1].n
                              /\ points[i].suffix = points[1].suffix
                              /\ points[i].cached = points[1].cached

Sweep(in, ratios) == [i \in DOMAIN ratios |-> Select(in, ratios[i])]

\* with_measurements; SelectionSweep itself takes points of which only some have one.
WithMeasurements(points) == [i \in DOMAIN points |-> [points[i] EXCEPT !.measured = TRUE]]

-----------------------------------------------------------------------------
(* selection_sweep_from_dict: a point is worked out again from its          *)
(* candidates and its selected rows.                                        *)

ValidPoint(point) ==
  /\ point.suffix <= point.n
  /\ CanonicalRanges(point.n, point.cached) /\ CanonicalRanges(point.n, point.recompute)
  /\ \A l \in Layers : point.plan.layers[l] = point.recompute
  /\ point.selected \subseteq Eligible(point)
  /\ Cardinality(point.selected) = Budget(point, point.ratio)
  /\ point.recompute = SelectionPoint(point, point.ratio, point.selected).recompute

AcceptsSweep(points) ==
  /\ ValidSweep(points) /\ \A i \in DOMAIN points : ValidPoint(points[i])
  /\ \A i, j \in DOMAIN points : points[i].measured = points[j].measured
=============================================================================
