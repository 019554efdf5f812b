----------------------------- MODULE MCSelection -----------------------------
(***************************************************************************)
(* One state per sequence of candidates, and one for the plan made of it.  *)
(***************************************************************************)
EXTENDS LookupPlan, SequencesExt

CONSTANTS MaxPosition, MaxCandidates, Keys

Candidates ==
  {c \in [start : 0..MaxPosition, end : 1..MaxPosition, key : Keys, source : {0},
           verdict : {"verified", "invalid", "unbound"}] :
     c.start < c.end /\ (c.verdict # "verified" => c.key = Min(Keys))}

MCResponses == BoundedSeq(Candidates, MaxCandidates)
=============================================================================
