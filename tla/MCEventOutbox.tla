--------------------------- MODULE MCEventOutbox ---------------------------
(* Small instances of EventOutbox.                                         *)
EXTENDS EventOutbox, TLC

CONSTANT Fixed

ASSUME FixedAssumption == Fixed \in Sub

\* One of two alike subscribers is active at the start, the other any.
MCInit == Init /\ sub[Fixed] = "active"
MCSpec == MCInit /\ [][Next]_vars /\ Fairness
=============================================================================
