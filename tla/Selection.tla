------------------------------ MODULE Selection ------------------------------
(***************************************************************************)
(* The choice of non-overlapping matches that storage/lookup.py and        *)
(* planner/matching.py make among verified candidates: a weighted interval *)
(* schedule over half-open target ranges with deterministic ties.          *)
(*                                                                         *)
(* A candidate is a record with its target range (start, end), its cache   *)
(* key and the source position of its record, all natural numbers; the     *)
(* other fields of the sort keys are the same for all candidates of one    *)
(* lookup.  Candidates come as a sequence, the order of the raw response.  *)
(***************************************************************************)
EXTENDS Naturals, Sequences, FiniteSets, FiniteSetsExt

Overlap(a, b) == a.start < b.end /\ b.start < a.end

Tokens(c) == c.end - c.start

\* Python's order of tuples: the first difference decides, a prefix is less.
Lexicographic(s, t, Less(_, _)) ==
  \E i \in 1..Len(t) :
    /\ \A j \in 1..(i - 1) : j <= Len(s) /\ s[j] = t[j]
    /\ i > Len(s) \/ Less(s[i], t[i])

LessNat(a, b) == a < b
LessKey(s, t) == Lexicographic(s, t, LessNat)
LessTie(s, t) == Lexicographic(s, t, LessKey)

\* _candidate_sort_key of one candidate.
CandidateKey(c) == <<c.start, c.end, c.key, c.source>>

\* Mutant of PotentialKey: the order of the response decides.
PotentialKeyByIndex(cs, i) == <<i>>

\* _potential_sort_key: the raw index tells exact duplicates apart.
PotentialKey(cs, i) == CandidateKey(cs[i]) \o <<i>>

\* The order of the scan: by the end of the target range, then by the key.
ScansBefore(cs, i, j) ==
  LessKey(<<cs[i].end>> \o PotentialKey(cs, i), <<cs[j].end>> \o PotentialKey(cs, j))

\* The elements of a finite set of indexes in the order of Before.
Sorted(S, Before(_, _)) ==
  [k \in 1..Cardinality(S) |->
     CHOOSE i \in S : Cardinality({j \in S : Before(j, i)}) = k - 1]

ScanOrder(cs, S) ==
  LET Before(i, j) == ScansBefore(cs, i, j) IN Sorted(S, Before)

\* The last scanned candidate that ends before the k-th begins, or 0.
Predecessor(cs, order, k) ==
  Max({0} \cup {j \in 1..(k - 1) : cs[order[j]].end <= cs[order[k]].start})

NoSolution == [tokens |-> 0, chosen |-> <<>>, ties |-> <<>>]

\* A solution with one more candidate.
Including(cs, base, i) ==
  [tokens |-> base.tokens + Tokens(cs[i]), chosen |-> Append(base.chosen, i),
   ties   |-> Append(base.ties, PotentialKey(cs, i))]

\* _better_solution: more tokens, then the smaller key.
BetterSolution(new, old) ==
  IF new.tokens # old.tokens
    THEN IF new.tokens > old.tokens THEN new ELSE old
    ELSE IF LessTie(old.ties, new.ties) THEN old ELSE new

\* _select_non_overlapping among the candidates S: the best solution over every
\* prefix of the scan, one after the other.
Solutions(cs, S) ==
  LET order == ScanOrder(cs, S)
      solutions[k \in 0..Cardinality(S)] ==
        IF k = 0 THEN <<NoSolution>>
        ELSE LET done == solutions[k - 1]
                 base == done[Predecessor(cs, order, k) + 1]
             IN Append(done, BetterSolution(Including(cs, base, order[k]), done[k]))
  IN solutions[Cardinality(S)]

SelectNonOverlapping(cs, S) ==
  LET best == Solutions(cs, S)[Cardinality(S) + 1].chosen
  IN {best[k] : k \in DOMAIN best}

\* Mutant of Extended: the later range replaces the end of the current one.
ExtendedByLater(run, range) == [run EXCEPT !.end = range.end]

\* A range that begins within or at the end of the current run extends it.
Extended(run, range) == [run EXCEPT !.end = Max({@, range.end})]

RangeOrder(rs, S) ==
  LET Before(i, j) == LessKey(<<rs[i].start, rs[i].end, i>>, <<rs[j].start, rs[j].end, j>>)
  IN Sorted(S, Before)

\* _covered_token_count of the ranges S: merge them in order and add up the runs.
CoveredTokenCount(rs, S) ==
  LET order == RangeOrder(rs, S)
      scan[k \in 0..Cardinality(S) - 1] ==
        LET range == rs[order[k + 1]] IN
        IF k = 0
          THEN [covered |-> 0, start |-> range.start, end |-> range.end]
        ELSE IF range.start <= scan[k - 1].end
          THEN Extended(scan[k - 1], range)
          ELSE [covered |-> scan[k - 1].covered + Tokens(scan[k - 1]),
                start |-> range.start, end |-> range.end]
      last == scan[Cardinality(S) - 1]
  IN IF S = {} THEN 0 ELSE last.covered + Tokens(last)

\* What an LmcacheCandidate is compared by; the record is not part of it.
SameCandidate(a, b) == a.start = b.start /\ a.end = b.end /\ a.key = b.key

\* Why a verified candidate was not selected.
Rejection(cs, selected, i) ==
  IF \E j \in selected : SameCandidate(cs[j], cs[i])
    THEN "duplicate_candidate" ELSE "overlaps_selected_candidate"

\* The candidates that had a record under their key: they count as found even
\* when the record fails verification or is ambiguous.
Found(raw) == {i \in DOMAIN raw : raw[i].verdict # "unbound"}

\* The lengths of the candidates S, added up.
TokensOf(raw, S) ==
  LET sum[i \in 0..Len(raw)] ==
        IF i = 0 THEN 0 ELSE sum[i - 1] + (IF i \in S THEN Tokens(raw[i]) ELSE 0)
  IN sum[Len(raw)]

\* LmcacheLookupCounters of a plan that selected these candidates.
Counters(raw, selected) ==
  LET rejected == DOMAIN raw \ selected
  IN [raw |-> Len(raw), raw_tokens |-> TokensOf(raw, DOMAIN raw),
      found |-> Cardinality(Found(raw)), found_tokens |-> TokensOf(raw, Found(raw)),
      verified |-> Cardinality(selected), verified_tokens |-> TokensOf(raw, selected),
      rejected |-> Cardinality(rejected), rejected_tokens |-> TokensOf(raw, rejected)]

\* found_target_token_count, over the selected candidates and the rejected ones
\* that were found.
FoundTargetTokenCount(raw, selected, rejected) ==
  CoveredTokenCount(raw, selected \cup {i \in DOMAIN rejected : rejected[i] # "unbound"})

\* A lookup plan.  Each candidate carries the verdict of its verification:
\* "verified"; "invalid" when its records differ or disagree on the position;
\* "unbound" when the query is stale or no record has its key.
MakePlan(raw) ==
  LET selected == SelectNonOverlapping(raw, {i \in DOMAIN raw : raw[i].verdict = "verified"})
      rejected == [i \in DOMAIN raw \ selected |->
                     IF raw[i].verdict = "verified"
                       THEN Rejection(raw, selected, i) ELSE raw[i].verdict]
  IN [selected |-> selected, rejected |-> rejected, counters |-> Counters(raw, selected),
      found_tokens |-> FoundTargetTokenCount(raw, selected, rejected)]

\* What LmcacheLookupCounters.__post_init__ demands of its values.
CountersAccepted(c) ==
  /\ c.raw = c.verified + c.rejected
  /\ c.raw_tokens = c.verified_tokens + c.rejected_tokens
  /\ c.verified <= c.found /\ c.found <= c.raw
  /\ c.verified_tokens <= c.found_tokens /\ c.found_tokens <= c.raw_tokens

\* The observation the connector derives from a plan, for a prompt of n tokens
\* with this many rolling windows, and what its constructor demands.
Observation(plan, n, windows) ==
  [prompt |-> n, windows |-> windows, hit |-> plan.counters.verified,
   requested |-> IF windows > 0 THEN n ELSE 0, found |-> plan.found_tokens,
   verified |-> plan.counters.verified_tokens,
   rejected |-> plan.found_tokens - plan.counters.verified_tokens]

ObservationAccepted(o) ==
  /\ o.rejected >= 0
  /\ o.hit <= o.windows
  /\ o.verified <= o.found /\ o.found <= o.requested /\ o.requested <= o.prompt
=============================================================================
