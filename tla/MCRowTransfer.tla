---------------------------- MODULE MCRowTransfer ----------------------------
(* Two layers, blocks and chunks of two tokens.                             *)
EXTENDS RowTransfer

Sliding == [kind |-> "sliding", layers |-> <<0>>, block_size |-> 2]
Full == [kind |-> "full", layers |-> <<1>>, block_size |-> 2]

\* The groups in the order that is not the layers', and a config of other block sizes.
OfferedConfigs ==
  {<<Full, Sliding>>, <<Sliding, [Full EXCEPT !.block_size = 1]>>}

\* A chunk stored at position 0, moved by one, moved by a chunk and stored again
\* there, behind another; a prompt shorter than a chunk and one longer than staging.
ServedPrompts == {<<1, 2, 2, 2, 2>>, <<3, 1, 2>>, <<3, 1, 1, 2>>, <<3>>}

\* Blocks out of order, and a table with a null block.
OfferedAllocations ==
  {<<<<2, 1, 5>>, <<3, 6, 4>>>>, <<<<8, 7, 9>>, <<12, 10, 11>>>>, <<<<0, 7, 9>>, <<12, 10, 11>>>>}
=============================================================================
