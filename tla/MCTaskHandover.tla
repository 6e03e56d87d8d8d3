--------------------------- MODULE MCTaskHandover ---------------------------
(* Small instances of TaskHandover.                                        *)
EXTENDS TaskHandover, TLC

Users == Permutations(User)
=============================================================================
