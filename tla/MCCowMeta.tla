------------------------------- MODULE MCCowMeta -------------------------------
(* Small instances of CowMeta for TLC. *)
EXTENDS CowMeta, TLC

CONSTANTS o1, o2, o3, b1, b2, b3, b4

OneChunk == o1 :> b1
TwoChunks == o1 :> b1 @@ o2 :> b2

\* The blocks the area grows by are interchangeable.
NewBlocks == Permutations({b2, b3, b4})
================================================================================
