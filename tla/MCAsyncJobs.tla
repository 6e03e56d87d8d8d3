---------------------------- MODULE MCAsyncJobs ----------------------------
(***************************************************************************)
(* Two pods poll one instance.  A worker may die where the job it has in   *)
(* hand is still a row, or where it is not.                                *)
(***************************************************************************)
EXTENDS AsyncJobs

BeforeDelete ==
  {"batch", "ran", "failing", "counting", "exhausted", "deadLoad", "deadLoaded"}
AfterDelete == {"deleted", "loaded", "saved", "dead"}
=============================================================================
