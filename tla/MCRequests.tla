----------------------------- MODULE MCRequests -----------------------------
(* Small instances of Requests.                                            *)
EXTENDS Requests, TLC

Alike == Permutations(Client) \cup Permutations(Value)
=============================================================================
