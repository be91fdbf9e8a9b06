------------------------------ MODULE AtomicStore ------------------------------
(* What the snapshot manager promises to the rest of the driver: one durable   *)
(* copy of the metadata, replaced as a whole by a commit and by nothing else.  *)
(* The values of live and durable are left open; each module that implements   *)
(* this one says what they are by its refinement mapping.                      *)

VARIABLES live,     \* metadata in memory
          durable,  \* metadata a mount would find
          up        \* is the volume mounted?

vars == <<live, durable, up>>

Init == /\ up = FALSE
        /\ live = durable

\* Changes in memory never reach what a mount would find.
Modify == /\ up
          /\ UNCHANGED <<durable, up>>

\* All changes since the last commit become durable in one step.
Commit == /\ up
          /\ durable' = live
          /\ UNCHANGED <<live, up>>

\* Memory is lost, the durable copy is not.
Stop == /\ up' = FALSE
        /\ UNCHANGED durable

\* A mount finds exactly the durable copy.
Start == /\ ~up
         /\ up' = TRUE
         /\ live' = durable
         /\ UNCHANGED durable

Next == Modify \/ Commit \/ Stop \/ Start

Spec == Init /\ [][Next]_vars
================================================================================
