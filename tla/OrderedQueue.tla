---------------------------- MODULE OrderedQueue ----------------------------
(***************************************************************************)
(* What the event outbox promises its subscribers, without workers, leases *)
(* or retries: every entry is told at least once unless somebody gives it  *)
(* up, an entry is told for the first time only after the entries it must  *)
(* follow were closed (told, dead or given up), and what was told or       *)
(* closed is remembered.                                                   *)
(***************************************************************************)
EXTENDS Naturals

CONSTANTS Entry

VARIABLES
  todo,     \* entries that are still to be told
  follows,  \* entry -> the entries it must follow
  told,     \* entries that reached their subscriber at least once
  closed    \* entries that were settled at least once

vars == <<todo, follows, told, closed>>

Init ==
  /\ todo = {}
  /\ follows = [e \in Entry |-> {}]
  /\ told = {}
  /\ closed = {}

\* A new entry; what it follows was submitted before it.
Submit(e) ==
  /\ e \notin todo \cup closed
  /\ \E before \in SUBSET (todo \cup closed) :
       follows' = [follows EXCEPT ![e] = before]
  /\ todo' = todo \cup {e}
  /\ UNCHANGED <<told, closed>>

\* A first telling waits its turn; telling again does not.
Tell(e) ==
  /\ e \in todo \cup closed
  /\ e \in told \/ follows[e] \subseteq closed
  /\ told' = told \cup {e}
  /\ UNCHANGED <<todo, follows, closed>>

Close(e) ==
  /\ e \in todo
  /\ todo' = todo \ {e}
  /\ closed' = closed \cup {e}
  /\ UNCHANGED <<follows, told>>

\* An operator sends a dead entry again.
Reopen(e) ==
  /\ e \in closed \ todo
  /\ todo' = todo \cup {e}
  /\ UNCHANGED <<follows, told, closed>>

Next == \E e \in Entry : Submit(e) \/ Tell(e) \/ Close(e) \/ Reopen(e)

Spec == Init /\ [][Next]_vars
=============================================================================
