----------------------------- MODULE MCTransTables -----------------------------
(* Small instances of TransTables for TLC. *)
EXTENDS TransTables, TLC

CONSTANTS o1, o2, b1, b2

OneChunk == o1 :> b1
TwoChunks == o1 :> b1 @@ o2 :> b2

\* How often each mount may commit.
FiveEach == <<5, 5>>
OneThenThree == <<1, 3>>
SevenOnce == <<7>>
================================================================================
