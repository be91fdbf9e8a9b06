------------------------------- MODULE MCSnapshot -------------------------------
(* Small instances of Snapshot for TLC. *)
EXTENDS Snapshot, TLC

CONSTANTS o1, o2, b1, b2, b3

OneChunk == o1 :> b1
TwoChunks == o1 :> b1 @@ o2 :> b2

\* The blocks the area grows by are interchangeable.
NewBlocks == Permutations({b2, b3})

\* How often each mount may commit.
TwoThenOne == <<2, 1>>
================================================================================
