----------------------------- MODULE MCSideTables -----------------------------
(* Keys are alike, so that the first instance may as well have the first    *)
(* one: the other instances have the same key or another.  They start by    *)
(* waiting for the message.                                                 *)
EXTENDS SideTables

MCInit ==
  /\ Init
  /\ key[1] = CHOOSE k \in Key : TRUE
  /\ \A i \in Instance \ {1}, b \in Branch : place[i][b] = "catch"

MCSpec == MCInit /\ [][Next]_vars /\ Fairness
=============================================================================
