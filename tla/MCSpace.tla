-------------------------------- MODULE MCSpace --------------------------------
(* Small instances of FileExtents for TLC. *)
EXTENDS FileExtents

CONSTANTS f1, f2

ThreeOne == f1 :> 3 @@ f2 :> 1
Two == f1 :> 2

\* The second of its three blocks is all the file has.
OneBlock == f1 :> <<Extent(1, 2, 1)>> @@ f2 :> <<>>
NoBlock == f1 :> <<>>
================================================================================
