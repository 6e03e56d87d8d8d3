---------------------------- MODULE TaskHandover ----------------------------
(***************************************************************************)
(* Who answers for one user task while it waits: the pool of candidates,   *)
(* claims, transfers, delegations, the tasks signed in before it, what is  *)
(* copied to whom, and the ledger of it all (ProcessEngine).               *)
(*                                                                         *)
(* Each call loads the snapshot, changes it and saves it under the version *)
(* check that SnapshotStore models, so that it is one step here.           *)
(*                                                                         *)
(* Simplifications:                                                        *)
(*  - the task waits at one node of one instance, alone: several instances *)
(*    of a task, and a task taken away by a timer, a jump, a withdrawal or *)
(*    a rejection, are ProcessEngine's;                                    *)
(*  - candidates are resolved to users when they are asked for;            *)
(*  - reasons, names, times and, but for the owner of what nobody held,    *)
(*    who asked are left out.                                              *)
(***************************************************************************)
EXTENDS Naturals, Sequences, FiniteSets

CONSTANTS User,
          None,       \* no user
          MaxTask,    \* bound on the task and those signed in before it
          MaxLedger   \* bound on the rows of the ledger

ASSUME TaskHandoverAssumption ==
  MaxTask \in Nat \ {0} /\ MaxLedger \in Nat /\ None \notin User

VARIABLES
  tasks,      \* the task, and those signed in, in the order they were made
  pool,       \* users who may claim the task
  copies,     \* cc_records of the instance
  ledger,     \* delegations of the instance
  suspended   \* whether the instance is suspended

vars == <<tasks, pool, copies, ledger, suspended>>

Root == 1
Place == {"node", "instance"}
Unread == "unread"
Read == "read"
Kinds == {"TRANSFER", "DELEGATE", "ADDSIGN", "URGE"}

Task == [assignee : User \cup {None}, owner : User \cup {None},
         state : {"none", "SUSPENDED", "DELEGATED", "ADDSIGN"},
         parent : 0 .. MaxTask, completed : BOOLEAN]
Entry == [task : 1 .. MaxTask, kind : Kinds, to : User \cup {None}, temp : 0 .. MaxTask]

TypeOK ==
  /\ tasks \in Seq(Task)
  /\ Len(tasks) \in 1 .. MaxTask
  /\ pool \subseteq User
  /\ copies \in [Place -> [User -> Seq({Unread, Read})]]
  /\ ledger \in Seq(Entry)
  /\ Len(ledger) <= MaxLedger
  /\ suspended \in BOOLEAN

-----------------------------------------------------------------------------

\* decide_assignment: nobody resolved leaves the assignee the definition
\* names, one user is assigned, several become the pool.
Assigned(resolved, static) ==
  IF Cardinality(resolved) = 1 THEN CHOOSE u \in resolved : TRUE
  ELSE IF resolved = {} THEN static ELSE None
Pooled(resolved) == IF Cardinality(resolved) > 1 THEN resolved ELSE {}

Init ==
  \E resolved \in SUBSET User, static \in User \cup {None} :
    /\ tasks = <<[assignee |-> Assigned(resolved, static), owner |-> None,
                  state |-> "none", parent |-> 0, completed |-> FALSE]>>
    /\ pool = Pooled(resolved)
    /\ copies = [at \in Place |-> [u \in User |-> <<>>]] /\ ledger = <<>> /\ suspended = FALSE

Open(t) == t \in DOMAIN tasks /\ ~tasks[t].completed

\* actionable_task_idx.
Actionable_Open(t) == ~suspended /\ Open(t)
Actionable(t) == ~suspended /\ Open(t) /\ tasks[t].state # "SUSPENDED"

Ledgered(t, kind, to, temp) ==
  /\ Len(ledger) < MaxLedger
  /\ ledger' = Append(ledger, [task |-> t, kind |-> kind, to |-> to,
                               temp |-> temp])

\* Only the task itself has a pool.
Emptied_Never(t) == UNCHANGED pool
Emptied(t) == pool' = IF t = Root THEN {} ELSE pool

\* append_cc_records: whoever was copied at that place before is left out,
\* whether the copy has been read or not.
Known(at, u) == copies[at][u] # <<>>

Copied(at, users) ==
  copies' = [copies EXCEPT ![at] = [u \in User |->
               IF u \in users /\ ~Known(at, u) THEN Append(@[u], Unread) ELSE @[u]]]

-----------------------------------------------------------------------------

\* The instance's suspension is not looked at, nor the task's.
ClaimTask(t, u) ==
  /\ Open(t)
  /\ tasks[t].assignee = None /\ t = Root /\ u \in pool
  /\ tasks' = [tasks EXCEPT ![t].assignee = u]
  /\ Emptied(t)
  /\ UNCHANGED <<copies, ledger, suspended>>

TransferTask(t, to) ==
  /\ Actionable(t)
  /\ tasks' = [tasks EXCEPT ![t].assignee = to, ![t].owner = to, ![t].state = "none"]
  /\ Emptied(t)
  /\ Ledgered(t, "TRANSFER", to, 0)
  /\ UNCHANGED <<copies, suspended>>

\* The first delegation fixes the owner.
Owner_Holder(t, from) == IF tasks[t].assignee # None THEN tasks[t].assignee ELSE from
Owner(t, from) ==
  IF tasks[t].owner # None THEN tasks[t].owner
  ELSE IF tasks[t].assignee # None THEN tasks[t].assignee ELSE from

DelegateTask(t, from, to) ==
  /\ Actionable(t)
  /\ tasks' = [tasks EXCEPT ![t].owner = Owner(t, from), ![t].assignee = to,
                            ![t].state = "DELEGATED"]
  /\ Emptied(t)
  /\ Ledgered(t, "DELEGATE", to, 0)
  /\ UNCHANGED <<copies, suspended>>

\* The pool stays: the task comes back when the one signed in is done.
AddSign(t, to) ==
  /\ Actionable(t) /\ Len(tasks) < MaxTask
  /\ tasks' = Append([tasks EXCEPT ![t].state = "SUSPENDED"],
                     [assignee |-> to, owner |-> to, state |-> "ADDSIGN",
                      parent |-> t, completed |-> FALSE])
  /\ Ledgered(t, "ADDSIGN", to, Len(tasks'))
  /\ UNCHANGED <<pool, copies, suspended>>

\* complete_task: the node's copies go out; a task that was signed in gives
\* its parent back, the task itself lets the token leave.
CompleteTask(t) ==
  /\ Actionable(t)
  /\ LET done == [tasks EXCEPT ![t].completed = TRUE]
         p    == tasks[t].parent
     IN tasks' = IF p # 0 /\ tasks[p].state = "SUSPENDED"
                   THEN [done EXCEPT ![p].state = "none"] ELSE done
  /\ Emptied(t)
  /\ \E users \in SUBSET User : Copied("node", users)
  /\ UNCHANGED <<ledger, suspended>>

NotifyCc ==
  /\ \E users \in SUBSET User : Copied("instance", users)
  /\ copies' # copies
  /\ UNCHANGED <<tasks, pool, ledger, suspended>>

MarkCcRead ==
  /\ \E at \in Place, u \in User : \E i \in DOMAIN copies[at][u] :
       /\ copies[at][u][i] = Unread
       /\ copies' = [copies EXCEPT ![at][u][i] = Read]
  /\ UNCHANGED <<tasks, pool, ledger, suspended>>

\* Neither suspension is looked at; nobody is told when nobody is assigned.
UrgeTask(t) ==
  /\ Open(t)
  /\ Copied("node", IF tasks[t].assignee = None THEN {} ELSE {tasks[t].assignee})
  /\ Ledgered(t, "URGE", tasks[t].assignee, 0)
  /\ UNCHANGED <<tasks, pool, suspended>>

SuspendProcess == ~suspended /\ suspended' = TRUE /\ UNCHANGED <<tasks, pool, copies, ledger>>
ResumeProcess == suspended /\ suspended' = FALSE /\ UNCHANGED <<tasks, pool, copies, ledger>>

Next ==
  \/ \E t \in DOMAIN tasks :
       \/ \E u \in User : ClaimTask(t, u) \/ TransferTask(t, u) \/ AddSign(t, u)
       \/ \E from, to \in User : DelegateTask(t, from, to)
       \/ CompleteTask(t) \/ UrgeTask(t)
  \/ NotifyCc \/ MarkCcRead
  \/ Open(Root) /\ (SuspendProcess \/ ResumeProcess)

Spec == Init /\ [][Next]_vars

-----------------------------------------------------------------------------
(* Properties.                                                             *)

\* The open tasks that do not wait for another.
AtWork == {t \in DOMAIN tasks : Open(t) /\ tasks[t].state # "SUSPENDED"}

\* While the task is open exactly one of it and those signed in before it can
\* be worked on, however they were handed over in between: never two people
\* at once, and never nobody (add_sign, complete_task).  Only the rejection of
\* a task signed in leaves nobody (ProcessEngine's SuspendedHasChild).
OneAtWork == Cardinality(AtWork) = IF Open(Root) THEN 1 ELSE 0

\* A task waits for a claim only while nobody holds it: a pool that has users
\* means an open task without an assignee, also after it was handed over,
\* signed before or given back (claim_task, transfer_task, delegate_task).
PoolUnheld == pool # {} => Open(Root) /\ tasks[Root].assignee = None

Last(t, kinds) ==
  LET at == {i \in DOMAIN ledger : ledger[i].task = t /\ ledger[i].kind \in kinds}
  IN IF at = {} THEN 0 ELSE CHOOSE i \in at : \A j \in at : j <= i

\* The ledger tells who holds a task and who answers for it: the holder is
\* whom the last hand-over named, and the owner whom the last transfer named,
\* or who was signed in, whatever delegations followed (delegate_task).
LedgerTells ==
  \A t \in DOMAIN tasks :
    LET held     == Last(t, {"TRANSFER", "DELEGATE"})
        moved    == Last(t, {"TRANSFER"})
        signedIn == {i \in DOMAIN ledger : ledger[i].temp = t}
    IN /\ held > 0 => tasks[t].assignee = ledger[held].to
       /\ moved > 0 => tasks[t].owner = ledger[moved].to
       /\ moved = 0 => \A i \in signedIn : tasks[t].owner = ledger[i].to

\* Whoever is urged has a copy to read afterwards.  The code does not keep this:
\* a copy that was read is enough to leave the next one out.
UrgeHeard ==
  [][\A t \in DOMAIN tasks :
       \A u \in User :
         UrgeTask(t) /\ tasks[t].assignee = u
         => \E i \in DOMAIN copies'["node"][u] : copies'["node"][u][i] = Unread]_vars
=============================================================================
