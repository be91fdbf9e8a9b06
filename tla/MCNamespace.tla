------------------------------ MODULE MCNamespace ------------------------------
(* Instances of Namespace for TLC.  The source trees of mkfs: a directory with   *)
(* a file that has a second name in the root, a file whose second name lies      *)
(* outside the tree, and a file with one name.                                  *)
EXTENDS Namespace

Entry(name, ino, kind, links) ==
    [name |-> name, ino |-> ino, kind |-> kind, links |-> links,
     attrs |-> IF kind = "reg" THEN <<1>> ELSE <<>>]

LinkedTree ==
    (0 :> <<Entry(1, 5, "dir", 1), Entry(2, 7, "reg", 2)>>) @@
    (5 :> <<Entry(2, 7, "reg", 2)>>)

OutsideTree == (0 :> <<Entry(1, 7, "reg", 2)>>)

PlainTree == (0 :> <<Entry(1, 7, "reg", 1)>>)

AllTrees == {LinkedTree, OutsideTree, PlainTree}
================================================================================
