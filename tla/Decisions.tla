----------------------------- MODULE Decisions -----------------------------
(***************************************************************************)
(* Decision tables.  A rule has a sequence of cells and a function from    *)
(* output names to values.  A cell is reduced to what its condition gives  *)
(* for the variables at hand: "blank" (empty or "-"), "true", "false" or   *)
(* "error".                                                                *)
(***************************************************************************)
EXTENDS Naturals, SequencesExt, TLC

Nothing == [i \in {} |-> "none"]

\* The diagnostics of DecisionTable::validate: its count of findings.
validate(table) ==
  (IF table.key = "" THEN 1 ELSE 0)
  + (IF table.rules = <<>> THEN 1 ELSE 0)
  + (IF table.inputs = 0 THEN 0
     ELSE Len(SelectSeq(table.rules, LAMBDA r : Len(r.conditions) # table.inputs)))

Verdict_AnyError(conditions) ==
  IF "error" \in ToSet(conditions) THEN "error"
  ELSE IF "false" \in ToSet(conditions) THEN "false" ELSE "true"

\* A rule's cells are read in order up to the first that is not met.
Verdict(conditions) ==
  LET stops == {i \in DOMAIN conditions : conditions[i] \in {"false", "error"}}
  IN  IF stops = {} THEN "true"
      ELSE conditions[CHOOSE i \in stops : \A j \in stops : i <= j]

Unmatched == [ok |-> TRUE, done |-> FALSE, matched |-> <<>>, outputs |-> Nothing]

\* Later rules replace the outputs of earlier ones.
Read(table, result, i) ==
  LET rule == table.rules[i]
  IN  CASE ~result.ok \/ result.done \/ Verdict(rule.conditions) = "false" -> result
        [] result.ok /\ ~result.done /\ Verdict(rule.conditions) = "error" ->
             [result EXCEPT !.ok = FALSE]
        [] result.ok /\ ~result.done /\ Verdict(rule.conditions) = "true" ->
             [result EXCEPT !.matched = Append(@, i),
                            !.outputs = rule.outputs @@ @,
                            !.done = table.policy = "FIRST"]

evaluate(table) ==
  FoldLeft(LAMBDA result, i : Read(table, result, i), Unmatched,
           [i \in DOMAIN table.rules |-> i])
=============================================================================
