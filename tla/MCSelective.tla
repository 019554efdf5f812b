----------------------------- MODULE MCSelective -----------------------------
(* Two layers, blocks of two tokens, prompts of up to four.                 *)
EXTENDS Selective

TwoGroups ==
  <<[kind |-> "full", layers |-> <<1>>, block_size |-> 2],
    [kind |-> "sliding", layers |-> <<0>>, block_size |-> 2]>>

Fraction(n, d) == [num |-> n, den |-> d]

In(n, cached, scores, suffix) ==
  [n |-> n, cached |-> cached, scores |-> [p \in 0 .. n - 1 |-> scores[p + 1]], suffix |-> suffix,
   tables |-> <<<<4, 1>>, <<2, 3>>>>]

\* Cached ranges inside a block, across blocks, beside each other and around a
\* gap in the suffix; tied scores; a prompt with nothing cached.
SelectionInputs ==
  {In(4, <<TokenRange(1, 3)>>, <<2, 1, 1, 0>>, 0),
   In(4, <<TokenRange(0, 1), TokenRange(1, 4)>>, <<1, 0, 1, 1>>, 1),
   In(4, <<TokenRange(0, 4)>>, <<0, 1, 2, 3>>, 2),
   In(4, <<TokenRange(0, 2), TokenRange(3, 4)>>, <<0, 0, 1, 2>>, 3),
   In(3, <<TokenRange(0, 2)>>, <<0, 1, 0>>, 1),
   In(2, <<>>, <<0, 1>>, 0)}

\* A sweep, a single point, and ratios that do not fall.
SweptRatios ==
  {<<Fraction(1, 1), Fraction(1, 2), Fraction(0, 1)>>, <<Fraction(2, 3)>>,
   <<Fraction(1, 2), Fraction(1, 2)>>}

\* Files of two chunks, of one and of none.
TwoChunks == <<0, 0>>
FileContents == {<<1, 1>>, <<1>>, <<>>}
=============================================================================
