--------------------------- MODULE MCMapGeneration ---------------------------
(* Two chunks of a block each, in the border of each other.  Of one block  *)
(* a node is changed that generators leave alone, and one is that they may *)
(* write over.                                                             *)
EXTENDS MapGeneration, TLC

CONSTANTS a, b, t1, t2, solid, ground

Threads == {t1, t2}
ThreadSymmetry == Permutations(Threads)
Blocks == {1, 2}
Chunks == {a, b}
ContainingChunk == (1 :> a) @@ (2 :> b)
FullArea == (a :> Blocks) @@ (b :> Blocks)
Nowhere == {}
Edits == {solid, ground}
Ground == {ground}
BlockOfEdit == [e \in Edits |-> 2]
=============================================================================
