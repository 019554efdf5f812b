----------------------------- MODULE LookupPlan -----------------------------
(***************************************************************************)
(* A lookup plan made of the response of an LMCache server, with the       *)
(* verdicts of its verification, and what it should be: the definitions of *)
(* Selection against a reference.                                          *)
(***************************************************************************)
EXTENDS Selection

CONSTANTS
    Responses,      \* sequences of candidates a server may answer with
    PromptTokens,   \* the length of the prompt
    NoPlan

\* Every candidate is a range of the prompt that is not empty, as plan checks.
CandidateRecords ==
  {c \in [start : Nat, end : Nat, key : Nat, source : Nat,
          verdict : {"verified", "invalid", "unbound"}] :
     c.start < c.end /\ c.end <= PromptTokens}

ASSUME ResponsesAssumption ==
  /\ PromptTokens \in Nat
  /\ \A raw \in Responses :
       /\ Len(raw) \in Nat /\ DOMAIN raw = 1..Len(raw)
       /\ \A i \in 1..Len(raw) : raw[i] \in CandidateRecords

VARIABLES cands, plan

LookupInit == cands \in Responses /\ plan = NoPlan

Plan == plan = NoPlan /\ plan' = MakePlan(cands) /\ UNCHANGED cands

LookupSpec == LookupInit /\ [][Plan]_<<cands, plan>>

-----------------------------------------------------------------------------

VerifiedCandidates == {i \in DOMAIN cands : cands[i].verdict = "verified"}

Disjoint(S) == \A i, j \in S : i # j => ~Overlap(cands[i], cands[j])

Positions(S) == UNION {cands[i].start .. (cands[i].end - 1) : i \in S}

\* The keys of S, sorted: what settles ties, whatever the order of the response.
Ties(S) ==
  LET Before(i, j) == LessKey(CandidateKey(cands[i]), CandidateKey(cands[j]))
      order == Sorted(S, Before)
  IN [k \in 1..Cardinality(S) |-> CandidateKey(cands[order[k]])]

\* The plan selects verified candidates whose ranges do not overlap, no other
\* choice covers more tokens, and among those that cover as many it is the one
\* with the smallest keys: the order in which the server lists its candidates
\* decides nothing (_select_non_overlapping).
SelectionIsBest ==
  plan # NoPlan =>
    /\ plan.selected \subseteq VerifiedCandidates
    /\ Disjoint(plan.selected)
    /\ \A S \in SUBSET VerifiedCandidates : Disjoint(S) =>
         \/ TokensOf(cands, S) < plan.counters.verified_tokens
         \/ /\ TokensOf(cands, S) = plan.counters.verified_tokens
            /\ ~LessTie(Ties(S), Ties(plan.selected))

\* No lookup ends the engine by its own accounting: the counters of every plan
\* pass LmcacheLookupCounters, and the observation made of them, with every
\* found prompt position counted once, passes CacheBlendLookupObservation.
PlansAreAccountable ==
  plan # NoPlan =>
    /\ CountersAccepted(plan.counters)
    /\ plan.found_tokens = Cardinality(Positions(Found(cands)))
    /\ ObservationAccepted(Observation(plan, PromptTokens, PromptTokens))
=============================================================================
