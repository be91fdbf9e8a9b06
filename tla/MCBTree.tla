-------------------------------- MODULE MCBTree --------------------------------
(* A tree of small bnodes for TLC: three records fill a bnode.                 *)
EXTENDS TreeImage, TLC

Lengths == [k \in Key |-> IF k = 3 THEN 2 ELSE 1]
Scarce == {<<0, TRUE>>, <<1, TRUE>>, <<9, TRUE>>, <<9, FALSE>>}
================================================================================
