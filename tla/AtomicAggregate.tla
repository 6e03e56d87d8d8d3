--------------------------- MODULE AtomicAggregate ---------------------------
(***************************************************************************)
(* What the engine needs of a runtime store: an instance aggregate is one  *)
(* value, and every saved handler run transforms the value that is current *)
(* at the moment of the save.  Handler lists the transformations a         *)
(* load / mutate / run_to_wait section may compute.                        *)
(***************************************************************************)
EXTENDS Naturals

CONSTANTS Part,      \* the tables an aggregate is spread over
          Value,     \* the contents a table may have
          Handler    \* pairs <<before, after>> of whole aggregates

VARIABLES version,   \* the number of committed saves
          table      \* the committed aggregate

vars == <<version, table>>

Init == /\ version = 0
        /\ table \in [Part -> Value]

Save == \E after \in [Part -> Value] :
          /\ <<table, after>> \in Handler
          /\ table' = after
          /\ version' = version + 1

Spec == Init /\ [][Save]_vars
=============================================================================
