------------------------------ MODULE MCTunedFile ------------------------------
(* Instance of TunedFile for TLC: two files of at most two chunks, chunks of two  *)
(* pages, and pages of four units.                                              *)
EXTENDS TunedFile

CONSTANTS r1, r2

File(id, comp, whole) == [id |-> id, size |-> 13, exec |-> FALSE, tuned |-> FALSE,
                          comp |-> comp, whole |-> whole]

(* Padding before the longer chunk; chunks of both kinds; not worth packing;     *)
(* packed all the same; packed before; small ones.                              *)
Padded == File(1, <<7, 1>>, 8)
Mixed == File(2, <<9, 2>>, 10)
Hard == File(3, <<9, 5>>, 14)
Program == [File(4, <<9, 5>>, 14) EXCEPT !.exec = TRUE]
Tune == [File(5, <<5, 3>>, 9) EXCEPT !.tuned = TRUE]
Small == [File(6, <<3>>, 3) EXCEPT !.size = 5]
Tiny == [File(7, <<3>>, 3) EXCEPT !.size = 4]

Files(a, b, readonly, nocompress) ==
    [content |-> <<a, b>>, linked |-> FALSE,
     options |-> [readonly |-> readonly, nocompress |-> nocompress,
                 directory |-> nocompress = {}]]
Links(a, readonly, nocompress) ==
    [content |-> <<a, a>>, linked |-> TRUE,
     options |-> [readonly |-> readonly, nocompress |-> nocompress,
                 directory |-> FALSE]]

MCInputs ==
    {Files(Padded, Padded, TRUE, {}), Files(Padded, Mixed, FALSE, {}),
     Files(Padded, Hard, FALSE, {}), Files(Hard, Program, TRUE, {}),
     Files(Mixed, Tune, FALSE, {}), Files(Tune, Tune, TRUE, {}),
     Files(Padded, Mixed, TRUE, {2}), Files(Mixed, Program, FALSE, {2}),
     Files(Small, Tiny, TRUE, {}), Links(Padded, TRUE, {1}),
     Links(Hard, FALSE, {})}

(* The bitmap of free space, a tree, and a second one.                          *)
MCSubsystems == <<[tree |-> FALSE, bitmap |-> TRUE, blocks |-> 1],
                  [tree |-> TRUE, bitmap |-> FALSE, blocks |-> 2],
                  [tree |-> TRUE, bitmap |-> FALSE, blocks |-> 2]>>
================================================================================
