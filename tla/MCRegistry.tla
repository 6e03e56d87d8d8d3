----------------------------- MODULE MCRegistry -----------------------------
(* Small instances of Registry.                                            *)
EXTENDS Registry, TLC

Admins == Permutations(Admin)
=============================================================================
