------------------------------ MODULE MCStorage ------------------------------
(* Documents and prompts of two-token chunks, and the symmetry of engines.  *)
EXTENDS Storage

\* The chunk 1,2 at the beginning of one document and at the end of another.
StoredDocuments == {<<1, 2>>, <<2, 1, 1, 2>>}

\* A prompt of one window, and one whose two windows overlap.
LookedUpPrompts == {<<1, 2>>, <<2, 1, 2>>}

Symmetry == Permutations(Namespaces) \cup Permutations(Jobs)
=============================================================================
