---------------------------- MODULE MCTransactions ----------------------------
(* Instance of Transactions for TLC.                                            *)
EXTENDS Transactions

CONSTANTS u1, u2
================================================================================
