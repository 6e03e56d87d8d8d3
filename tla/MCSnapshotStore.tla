--------------------------- MODULE MCSnapshotStore ---------------------------
(***************************************************************************)
(* Two engine calls over an instance spread over three tables.    *)
(* A section advances the token table and the task table together (the     *)
(* token moves and its task is replaced; a late timer or job result may do *)
(* so on an ended instance too), or ends the instance.                     *)
(***************************************************************************)
EXTENDS SnapshotStore

Tables == {"instance", "token", "task"}
Columns == 0 .. 1
Ended == {1}

Advance(before) ==
  [before EXCEPT !["token"] = 1 - @, !["task"] = 1 - before["token"]]

Runs ==
  {<<before, after>> \in [Tables -> Columns] \X [Tables -> Columns] :
     \/ after = Advance(before)
     \/ before["instance"] = 0 /\ after = [before EXCEPT !["instance"] = 1]}
=============================================================================
