-------------------------- MODULE TaskHandoverProofs --------------------------
(***************************************************************************)
(* Somebody, and nobody else, can work on an open task, a pool is only     *)
(* kept for a task that nobody holds, and the ledger tells who holds a     *)
(* task and who answers for it, for any users and any bounds.              *)
(*                                                                         *)
(* The tasks signed in one before the other form a chain: an open one waits*)
(* for the next, the last one is at work, and the one it was signed in for *)
(* is the last before it.                                                  *)
(***************************************************************************)
EXTENDS TaskHandover, FiniteSetTheorems, SequenceTheorems, TLAPS

\* The task that was there first was signed in for none, every other for one
\* that was there before it.
Rooted ==
  /\ tasks[Root].parent = 0
  /\ \A t \in DOMAIN tasks : t # Root => tasks[t].parent \in 1 .. t - 1

\* An open task that was signed in follows the one it was signed in for, with
\* no open task between them.
Linked ==
  \A t \in DOMAIN tasks :
    Open(t) /\ t # Root =>
      /\ Open(tasks[t].parent)
      /\ \A u \in DOMAIN tasks : tasks[t].parent < u /\ u < t => ~Open(u)

\* All but the last of the open tasks wait.
Waiting ==
  \A t, u \in DOMAIN tasks : Open(t) /\ Open(u) /\ t < u => tasks[t].state = "SUSPENDED"

\* While any is open, the first one is, and one is at work.
Worked ==
  /\ \A t \in DOMAIN tasks : Open(t) => Open(Root)
  /\ Open(Root) => AtWork # {}

IInv == TypeOK /\ Rooted /\ Linked /\ Waiting /\ Worked /\ PoolUnheld

-----------------------------------------------------------------------------

\* decide_assignment leaves an assignee or a pool, never both.
LEMMA AssignedTyped ==
  ASSUME NEW resolved \in SUBSET User, NEW static \in User \cup {None}
  PROVE  /\ Assigned(resolved, static) \in User \cup {None}
         /\ Pooled(resolved) \subseteq User
         /\ Pooled(resolved) # {} => Assigned(resolved, static) = None
<1>1. CASE Cardinality(resolved) = 1
  <2>1. resolved # {}
    BY <1>1, FS_EmptySet
  <2> QED
    BY <1>1, <2>1 DEF Assigned, Pooled
<1>2. CASE Cardinality(resolved) # 1 /\ resolved = {}
  BY <1>2, FS_EmptySet DEF Assigned, Pooled
<1>3. CASE Cardinality(resolved) # 1 /\ resolved # {}
  BY <1>3 DEF Assigned, Pooled
<1> QED
  BY <1>1, <1>2, <1>3

LEMMA InitInv == Init => IInv
<1> SUFFICES ASSUME Init PROVE IInv
  OBVIOUS
<1>1. PICK resolved \in SUBSET User, static \in User \cup {None} :
        /\ tasks = <<[assignee |-> Assigned(resolved, static), owner |-> None,
                      state |-> "none", parent |-> 0, completed |-> FALSE]>>
        /\ pool = Pooled(resolved)
        /\ copies = [at \in Place |-> [u \in User |-> <<>>]]
        /\ ledger = <<>> /\ suspended = FALSE
  BY DEF Init
<1>2. /\ Assigned(resolved, static) \in User \cup {None}
      /\ pool \subseteq User
      /\ pool # {} => Assigned(resolved, static) = None
  BY <1>1, AssignedTyped
<1>3. /\ DOMAIN tasks = {1} /\ Len(tasks) = 1
      /\ tasks[1] = [assignee |-> Assigned(resolved, static), owner |-> None,
                     state |-> "none", parent |-> 0, completed |-> FALSE]
  BY <1>1
<1>4. TypeOK
  <2>1. tasks \in Seq(Task)
    BY <1>1, <1>2, TaskHandoverAssumption DEF Task
  <2>2. copies \in [Place -> [User -> Seq({Unread, Read})]]
    BY <1>1
  <2>3. ledger \in Seq(Entry) /\ Len(ledger) = 0
    BY <1>1
  <2>4. Len(tasks) \in 1 .. MaxTask /\ Len(ledger) <= MaxLedger
    BY <1>3, <2>3, TaskHandoverAssumption
  <2>5. pool \subseteq User /\ suspended \in BOOLEAN
    BY <1>1, <1>2
  <2> QED
    BY <2>1, <2>2, <2>3, <2>4, <2>5 DEF TypeOK
<1>5. Rooted /\ Linked /\ Waiting /\ Worked /\ PoolUnheld
  BY <1>2, <1>3 DEF Rooted, Linked, Waiting, Worked, PoolUnheld, Open, Root, AtWork
<1> QED
  BY <1>4, <1>5 DEF IInv
-----------------------------------------------------------------------------
(* Steps that hand a task over: nothing opens, ends or waits by them.      *)

\* The chain only looks at who is open, what waits and who came before whom.
LEMMA SameChain ==
  ASSUME IInv,
         DOMAIN tasks' = DOMAIN tasks,
         \A t \in DOMAIN tasks :
           /\ tasks'[t].completed = tasks[t].completed
           /\ tasks'[t].parent = tasks[t].parent
           /\ tasks'[t].state = "SUSPENDED" <=> tasks[t].state = "SUSPENDED"
  PROVE  Rooted' /\ Linked' /\ Waiting' /\ Worked'
<1>1. Root \in DOMAIN tasks
  BY DEF IInv, TypeOK, Root
<1>2. \A t : Open(t)' <=> Open(t)
  BY DEF Open
<1>3. AtWork' = AtWork
  BY <1>2 DEF AtWork
<1>4. Rooted'
  BY <1>1 DEF IInv, Rooted
<1>5. Linked'
  BY <1>2 DEF IInv, Linked
<1>6. Waiting'
  BY <1>2 DEF IInv, Waiting
<1>7. Worked'
  BY <1>2, <1>3 DEF IInv, Worked
<1> QED
  BY <1>4, <1>5, <1>6, <1>7

\* A row of the ledger.
LEMMA LedgerTyped ==
  ASSUME TypeOK, NEW t \in 1 .. MaxTask, NEW kind \in Kinds,
         NEW to \in User \cup {None}, NEW temp \in 0 .. MaxTask,
         Ledgered(t, kind, to, temp)
  PROVE  ledger' \in Seq(Entry) /\ Len(ledger') <= MaxLedger
<1>1. [task |-> t, kind |-> kind, to |-> to, temp |-> temp] \in Entry
  BY DEF Entry
<1> QED
  BY <1>1, TaskHandoverAssumption DEF TypeOK, Ledgered

\* Copies are marked and added one place at a time.
LEMMA CopiedTyped ==
  ASSUME TypeOK, NEW at \in Place, NEW users \in SUBSET User, Copied(at, users)
  PROVE  copies' \in [Place -> [User -> Seq({Unread, Read})]]
<1> DEFINE row == [u \in User |-> IF u \in users /\ ~Known(at, u)
                                   THEN Append(copies[at][u], Unread) ELSE copies[at][u]]
<1>1. copies' = [copies EXCEPT ![at] = row]
  BY DEF Copied
<1>2. \A u \in User : row[u] \in Seq({Unread, Read})
  BY DEF TypeOK
<1>3. row \in [User -> Seq({Unread, Read})]
  BY <1>2
<1> HIDE DEF row
<1> QED
  BY <1>1, <1>3 DEF TypeOK

\* A task of the instance is in the bounds and typed.
LEMMA TaskIn ==
  ASSUME TypeOK, NEW t \in DOMAIN tasks
  PROVE  /\ t \in 1 .. Len(tasks) /\ t \in 1 .. MaxTask
         /\ tasks[t] \in Task
<1>1. t \in 1 .. Len(tasks) /\ tasks[t] \in Task
  BY DEF TypeOK
<1> QED
  BY <1>1, TaskHandoverAssumption DEF TypeOK

LEMMA ClaimInv ==
  ASSUME IInv, NEW t \in DOMAIN tasks, NEW u \in User, ClaimTask(t, u)
  PROVE  IInv'
<1> DEFINE r == [tasks[t] EXCEPT !.assignee = u]
<1>1. TypeOK /\ t = Root /\ tasks' = [tasks EXCEPT ![t] = r]
  BY DEF IInv, ClaimTask
<1>2. t \in 1 .. Len(tasks) /\ r \in Task
  <2>1. t \in 1 .. Len(tasks) /\ tasks[t] \in Task
    BY <1>1, TaskIn
  <2> QED
    BY <2>1 DEF Task
<1>3. tasks' \in Seq(Task) /\ Len(tasks') = Len(tasks) /\ DOMAIN tasks' = DOMAIN tasks
  BY <1>1, <1>2, ExceptSeq DEF TypeOK
<1>4. TypeOK'
  BY <1>1, <1>3 DEF TypeOK, ClaimTask, Emptied
<1>5. Rooted' /\ Linked' /\ Waiting' /\ Worked'
  <2>1. \A v \in DOMAIN tasks :
          /\ tasks'[v].completed = tasks[v].completed
          /\ tasks'[v].parent = tasks[v].parent
          /\ tasks'[v].state = "SUSPENDED" <=> tasks[v].state = "SUSPENDED"
    BY <1>1, <1>2 DEF TypeOK, Task
  <2> QED
    BY <1>3, <2>1, SameChain
<1>6. PoolUnheld'
  BY <1>1 DEF PoolUnheld, ClaimTask, Emptied
<1> QED
  BY <1>4, <1>5, <1>6 DEF IInv

LEMMA TransferInv ==
  ASSUME IInv, NEW t \in DOMAIN tasks, NEW to \in User, TransferTask(t, to)
  PROVE  IInv'
<1> DEFINE r == [tasks[t] EXCEPT !.assignee = to, !.owner = to, !.state = "none"]
<1>1. /\ TypeOK /\ tasks' = [tasks EXCEPT ![t] = r]
      /\ tasks[t].state # "SUSPENDED"
  BY DEF IInv, TransferTask, Actionable
<1>2. t \in 1 .. Len(tasks) /\ t \in 1 .. MaxTask /\ r \in Task
  <2>1. t \in 1 .. Len(tasks) /\ t \in 1 .. MaxTask /\ tasks[t] \in Task
    BY <1>1, TaskIn
  <2> QED
    BY <2>1 DEF Task
<1>3. tasks' \in Seq(Task) /\ Len(tasks') = Len(tasks) /\ DOMAIN tasks' = DOMAIN tasks
  BY <1>1, <1>2, ExceptSeq DEF TypeOK
<1>4. TypeOK'
  <2>1. ledger' \in Seq(Entry) /\ Len(ledger') <= MaxLedger
    BY <1>1, <1>2, LedgerTyped, TaskHandoverAssumption DEF TransferTask, Kinds
  <2> QED
    BY <1>1, <1>3, <2>1 DEF TypeOK, TransferTask, Emptied
<1>5. Rooted' /\ Linked' /\ Waiting' /\ Worked'
  <2>1. \A v \in DOMAIN tasks :
          /\ tasks'[v].completed = tasks[v].completed
          /\ tasks'[v].parent = tasks[v].parent
          /\ tasks'[v].state = "SUSPENDED" <=> tasks[v].state = "SUSPENDED"
    BY <1>1, <1>2 DEF TypeOK, Task
  <2> QED
    BY <1>3, <2>1, SameChain
<1>6. PoolUnheld'
  BY <1>1, <1>3 DEF IInv, PoolUnheld, TransferTask, Emptied, Open
<1> QED
  BY <1>4, <1>5, <1>6 DEF IInv

LEMMA DelegateInv ==
  ASSUME IInv, NEW t \in DOMAIN tasks, NEW from \in User, NEW to \in User,
         DelegateTask(t, from, to)
  PROVE  IInv'
<1> DEFINE r == [tasks[t] EXCEPT !.owner = Owner(t, from), !.assignee = to,
                                 !.state = "DELEGATED"]
<1>1. /\ TypeOK /\ tasks' = [tasks EXCEPT ![t] = r]
      /\ tasks[t].state # "SUSPENDED"
  BY DEF IInv, DelegateTask, Actionable
<1>2. t \in 1 .. Len(tasks) /\ t \in 1 .. MaxTask /\ r \in Task
  <2>1. t \in 1 .. Len(tasks) /\ t \in 1 .. MaxTask /\ tasks[t] \in Task
    BY <1>1, TaskIn
  <2> QED
    BY <2>1 DEF Task, Owner
<1>3. tasks' \in Seq(Task) /\ Len(tasks') = Len(tasks) /\ DOMAIN tasks' = DOMAIN tasks
  BY <1>1, <1>2, ExceptSeq DEF TypeOK
<1>4. TypeOK'
  <2>1. ledger' \in Seq(Entry) /\ Len(ledger') <= MaxLedger
    BY <1>1, <1>2, LedgerTyped, TaskHandoverAssumption DEF DelegateTask, Kinds
  <2> QED
    BY <1>1, <1>3, <2>1 DEF TypeOK, DelegateTask, Emptied
<1>5. Rooted' /\ Linked' /\ Waiting' /\ Worked'
  <2>1. \A v \in DOMAIN tasks :
          /\ tasks'[v].completed = tasks[v].completed
          /\ tasks'[v].parent = tasks[v].parent
          /\ tasks'[v].state = "SUSPENDED" <=> tasks[v].state = "SUSPENDED"
    BY <1>1, <1>2 DEF TypeOK, Task
  <2> QED
    BY <1>3, <2>1, SameChain
<1>6. PoolUnheld'
  BY <1>1, <1>3 DEF IInv, PoolUnheld, DelegateTask, Emptied, Open
<1> QED
  BY <1>4, <1>5, <1>6 DEF IInv

\* What changes no task, no pool: copies, the ledger, suspension.
LEMMA BesideInv ==
  ASSUME IInv, UNCHANGED <<tasks, pool>>,
         copies' \in [Place -> [User -> Seq({Unread, Read})]],
         ledger' \in Seq(Entry), Len(ledger') <= MaxLedger, suspended' \in BOOLEAN
  PROVE  IInv'
<1>1. TypeOK'
  BY DEF IInv, TypeOK
<1>2. Rooted' /\ Linked' /\ Waiting' /\ Worked'
  BY SameChain
<1>3. PoolUnheld'
  BY DEF IInv, PoolUnheld, Open
<1> QED
  BY <1>1, <1>2, <1>3 DEF IInv

-----------------------------------------------------------------------------
(* Steps that make the chain longer and shorter.                           *)

\* Who can act is the last of the open tasks.
LEMMA ActsLast ==
  ASSUME IInv, NEW t \in DOMAIN tasks, Actionable(t)
  PROVE  \A u \in DOMAIN tasks : t < u => ~Open(u)
  BY DEF IInv, Waiting, Actionable

LEMMA AddSignInv ==
  ASSUME IInv, NEW t \in DOMAIN tasks, NEW to \in User, AddSign(t, to)
  PROVE  IInv'
<1>0. PICK n \in Nat : n = Len(tasks) + 1
  BY DEF IInv, TypeOK
<1> DEFINE waiting == [tasks[t] EXCEPT !.state = "SUSPENDED"]
           signed == [assignee |-> to, owner |-> to, state |-> "ADDSIGN",
                      parent |-> t, completed |-> FALSE]
           held == [tasks EXCEPT ![t] = waiting]
<1>1. /\ TypeOK /\ Actionable(t) /\ Open(t) /\ n \in 1 .. MaxTask
      /\ t \in 1 .. Len(tasks) /\ t \in 1 .. MaxTask /\ tasks[t] \in Task
  BY <1>0, TaskIn, TaskHandoverAssumption DEF IInv, AddSign, Actionable, TypeOK
<1>2. tasks' = Append(held, signed)
  BY DEF AddSign
<1>3. waiting \in Task /\ signed \in Task
  BY <1>1 DEF Task
<1>4. held \in Seq(Task) /\ Len(held) = Len(tasks) /\ DOMAIN held = DOMAIN tasks
  BY <1>1, <1>3, ExceptSeq DEF TypeOK
<1>5. /\ tasks' \in Seq(Task) /\ Len(tasks') = n /\ DOMAIN tasks' = 1 .. n
      /\ DOMAIN tasks = 1 .. n - 1 /\ n \in Nat
      /\ tasks'[n] = signed
      /\ \A v \in DOMAIN tasks : tasks'[v] = held[v]
  <2> HIDE DEF held, signed
  <2> QED
    BY <1>0, <1>1, <1>2, <1>3, <1>4 DEF TypeOK
<1>6. /\ tasks'[t].state = "SUSPENDED"
      /\ \A v \in DOMAIN tasks :
           /\ tasks'[v].completed = tasks[v].completed
           /\ tasks'[v].parent = tasks[v].parent
           /\ tasks'[v].assignee = tasks[v].assignee
           /\ v # t => tasks'[v].state = tasks[v].state
  <2>1. \A v \in DOMAIN tasks : tasks[v] \in Task
    BY <1>1 DEF TypeOK
  <2> QED
    BY <1>1, <1>5, <2>1 DEF Task
<1>n. /\ ~signed.completed /\ signed.parent = t /\ signed.state = "ADDSIGN"
  OBVIOUS
<1> HIDE DEF waiting, held, signed
<1>7. /\ \A v \in DOMAIN tasks : Open(v)' <=> Open(v)
      /\ Open(n)'
  <2>1. n \in DOMAIN tasks' /\ \A v \in DOMAIN tasks : v \in DOMAIN tasks'
    BY <1>5
  <2> QED
    BY <1>5, <1>6, <1>n, <2>1 DEF Open
<1>8. \A u \in DOMAIN tasks : t < u => ~Open(u)
  BY <1>1, ActsLast
<1>9. Root \in DOMAIN tasks /\ Root < n /\ Root \in Nat /\ Open(Root)
  BY <1>1, <1>5 DEF IInv, TypeOK, Root, Worked
<1>10. TypeOK'
  <2>1. ledger' \in Seq(Entry) /\ Len(ledger') <= MaxLedger
    BY <1>1, <1>5, LedgerTyped, TaskHandoverAssumption DEF AddSign, Kinds
  <2> QED
    BY <1>1, <1>5, <2>1 DEF TypeOK, AddSign
<1>11. Rooted'
  <2>1. tasks'[Root].parent = 0
    BY <1>6, <1>9 DEF IInv, Rooted
  <2>2. \A v \in DOMAIN tasks : v # Root => tasks'[v].parent \in 1 .. v - 1
    BY <1>6 DEF IInv, Rooted
  <2>3. tasks'[n].parent \in 1 .. n - 1
    BY <1>1, <1>5, <1>n
  <2> QED
    BY <1>5, <2>1, <2>2, <2>3 DEF Rooted
<1>12. Linked'
  <2> SUFFICES ASSUME NEW v \in 1 .. n, Open(v)', v # Root
               PROVE  /\ Open(tasks[v].parent)'
                      /\ \A u \in 1 .. n : tasks'[v].parent < u /\ u < v => ~Open(u)'
    BY <1>5 DEF Linked
  <2>1. CASE v = n
    <3>1. tasks'[v].parent = t /\ Open(t)'
      BY <1>1, <1>5, <1>7, <1>n, <2>1
    <3>2. \A u \in 1 .. n : t < u /\ u < n => ~Open(u)'
      BY <1>1, <1>5, <1>7, <1>8
    <3> QED
      BY <2>1, <3>1, <3>2 DEF Open
  <2>2. CASE v # n
    <3>1. /\ v \in DOMAIN tasks /\ Open(v)
          /\ tasks'[v].parent = tasks[v].parent
      BY <1>5, <1>6, <1>7, <2>2
    <3>2. /\ Open(tasks[v].parent)
          /\ \A u \in DOMAIN tasks : tasks[v].parent < u /\ u < v => ~Open(u)
      BY <3>1 DEF IInv, Linked
    <3>3. tasks[v].parent \in DOMAIN tasks
      BY <3>2 DEF Open
    <3>4. Open(tasks[v].parent)'
      BY <1>5, <1>6, <3>1, <3>2, <3>3 DEF Open
    <3>5. \A u \in 1 .. n : tasks'[v].parent < u /\ u < v => ~Open(u)'
      BY <1>5, <1>7, <3>1, <3>2
    <3> QED
      BY <3>4, <3>5
  <2> QED
    BY <2>1, <2>2
<1>13. Waiting'
  <2> SUFFICES ASSUME NEW v \in 1 .. n, NEW u \in 1 .. n, Open(v)', Open(u)', v < u
               PROVE  tasks'[v].state = "SUSPENDED"
    BY <1>5 DEF Waiting
  <2>1. v \in DOMAIN tasks /\ Open(v)
    BY <1>5, <1>7
  <2>2. CASE v = t
    BY <1>6, <2>2
  <2>3. CASE v # t
    <3>1. v < t
      BY <1>1, <1>5, <1>8, <2>1, <2>3
    <3> QED
      BY <1>1, <1>6, <2>1, <2>3, <3>1 DEF IInv, Waiting
  <2> QED
    BY <2>2, <2>3
<1>14. Worked'
  <2>1. Open(Root)'
    BY <1>7, <1>9
  <2>2. n \in AtWork'
    BY <1>5, <1>7, <1>n DEF AtWork
  <2> QED
    BY <2>1, <2>2 DEF Worked
<1>15. PoolUnheld'
  BY <1>6, <1>7, <1>9 DEF IInv, PoolUnheld, AddSign
<1> QED
  BY <1>10, <1>11, <1>12, <1>13, <1>14, <1>15 DEF IInv
\* The task itself ends: nobody is left to work.
LEMMA CompleteRootInv ==
  ASSUME IInv, CompleteTask(Root)
  PROVE  IInv'
<1> DEFINE r == [tasks[Root] EXCEPT !.completed = TRUE]
<1>1. /\ TypeOK /\ Actionable(Root) /\ Root \in DOMAIN tasks /\ tasks[Root].parent = 0
      /\ Root \in 1 .. Len(tasks) /\ tasks[Root] \in Task
  BY TaskIn DEF IInv, TypeOK, Root, Rooted, CompleteTask
<1>2. tasks' = [tasks EXCEPT ![Root] = r] /\ pool' = {}
  BY <1>1 DEF CompleteTask, Emptied
<1>3. r \in Task /\ r.completed /\ r.parent = 0
  BY <1>1 DEF Task
<1>4. /\ tasks' \in Seq(Task) /\ Len(tasks') = Len(tasks) /\ DOMAIN tasks' = DOMAIN tasks
      /\ DOMAIN tasks \subseteq Nat
  BY <1>1, <1>2, <1>3, ExceptSeq DEF TypeOK
<1>5. \A v \in DOMAIN tasks : v # Root => tasks'[v] = tasks[v]
  BY <1>2
<1>6. tasks'[Root] = r
  BY <1>1, <1>2, <1>4
<1> HIDE DEF r
<1>7. \A v \in DOMAIN tasks : ~Open(v)'
  <2>1. \A v \in DOMAIN tasks : v # Root => Root < v
    BY <1>1 DEF TypeOK, Root
  <2>2. \A v \in DOMAIN tasks : v # Root => ~Open(v)
    BY <1>1, <2>1, ActsLast
  <2> QED
    BY <1>3, <1>4, <1>5, <1>6, <2>2 DEF Open
<1>8. TypeOK'
  <2>1. PICK users \in SUBSET User : Copied("node", users)
    BY DEF CompleteTask
  <2>2. copies' \in [Place -> [User -> Seq({Unread, Read})]]
    BY <1>1, <2>1, CopiedTyped DEF Place
  <2> QED
    BY <1>1, <1>2, <1>4, <2>2 DEF TypeOK, CompleteTask
<1>9. Rooted'
  BY <1>1, <1>3, <1>4, <1>5, <1>6 DEF IInv, Rooted
<1>10. Linked' /\ Waiting'
  BY <1>4, <1>7 DEF Linked, Waiting
<1>11. Worked' /\ PoolUnheld'
  BY <1>1, <1>2, <1>4, <1>7 DEF Worked, PoolUnheld
<1> QED
  BY <1>8, <1>9, <1>10, <1>11 DEF IInv

\* One that was signed in ends: the one it was signed in for works again.
LEMMA CompleteSignedInv ==
  ASSUME IInv, NEW t \in DOMAIN tasks, t # Root, CompleteTask(t)
  PROVE  IInv'
<1>1. PICK p : p = tasks[t].parent
  OBVIOUS
<1>2. /\ TypeOK /\ Actionable(t) /\ Open(t) /\ t \in 1 .. Len(tasks)
      /\ \A v \in DOMAIN tasks : tasks[v] \in Task
      /\ DOMAIN tasks \subseteq Nat /\ Root \in DOMAIN tasks
  BY TaskIn DEF IInv, CompleteTask, Actionable, TypeOK, Root
<1>3. /\ p \in 1 .. t - 1 /\ Open(p)
      /\ \A u \in DOMAIN tasks : p < u /\ u < t => ~Open(u)
  BY <1>1, <1>2 DEF IInv, Rooted, Linked
<1>4. p \in DOMAIN tasks /\ p < t /\ p # 0 /\ p # t /\ p \in 1 .. Len(tasks)
  BY <1>2, <1>3 DEF Open
<1>5. tasks[p].state = "SUSPENDED"
  BY <1>2, <1>3, <1>4 DEF IInv, Waiting
<1> DEFINE r == [tasks[t] EXCEPT !.completed = TRUE]
           w == [tasks[p] EXCEPT !.state = "none"]
           done == [tasks EXCEPT ![t] = r]
<1>6. tasks' = [done EXCEPT ![p] = w] /\ pool' = pool
  <2>1. done[p] = tasks[p]
    BY <1>4
  <2> QED
    BY <1>1, <1>4, <1>5, <2>1 DEF CompleteTask, Emptied
<1>7. /\ r \in Task /\ r.completed /\ r.parent = tasks[t].parent
      /\ r.assignee = tasks[t].assignee
      /\ w \in Task /\ w.completed = tasks[p].completed /\ w.parent = tasks[p].parent
      /\ w.state = "none" /\ w.assignee = tasks[p].assignee
  BY <1>2, <1>4 DEF Task
<1>8. done \in Seq(Task) /\ Len(done) = Len(tasks) /\ DOMAIN done = DOMAIN tasks
  BY <1>2, <1>7, ExceptSeq DEF TypeOK
<1>9. tasks' \in Seq(Task) /\ Len(tasks') = Len(tasks) /\ DOMAIN tasks' = DOMAIN tasks
  <2> HIDE DEF done, w
  <2> QED
    BY <1>4, <1>6, <1>7, <1>8, ExceptSeq
<1>10. /\ tasks'[t] = r /\ tasks'[p] = w
       /\ \A v \in DOMAIN tasks : v # t /\ v # p => tasks'[v] = tasks[v]
  BY <1>2, <1>4, <1>6, <1>8
<1> HIDE DEF r, w, done
<1>11. \A v \in DOMAIN tasks :
         /\ tasks'[v].parent = tasks[v].parent
         /\ tasks'[v].assignee = tasks[v].assignee
         /\ v # p => v = t \/ tasks'[v].state = tasks[v].state
  BY <1>7, <1>10
<1>12. \A v \in DOMAIN tasks : Open(v)' <=> Open(v) /\ v # t
  BY <1>4, <1>7, <1>9, <1>10 DEF Open
<1>13. \A u \in DOMAIN tasks : t < u => ~Open(u)
  BY <1>2, ActsLast
<1>14. TypeOK'
  <2>1. PICK users \in SUBSET User : Copied("node", users)
    BY DEF CompleteTask
  <2>2. copies' \in [Place -> [User -> Seq({Unread, Read})]]
    BY <1>2, <2>1, CopiedTyped DEF Place
  <2> QED
    BY <1>2, <1>6, <1>9, <2>2 DEF TypeOK, CompleteTask
<1>15. Rooted'
  BY <1>2, <1>9, <1>11 DEF IInv, Rooted
<1>16. Linked'
  <2> SUFFICES ASSUME NEW v \in DOMAIN tasks, Open(v)', v # Root
               PROVE  /\ Open(tasks[v].parent)'
                      /\ \A u \in DOMAIN tasks : tasks'[v].parent < u /\ u < v => ~Open(u)'
    BY <1>9 DEF Linked
  <2>1. Open(v) /\ v # t /\ v < t
    BY <1>2, <1>12, <1>13
  <2>2. PICK q : q = tasks[v].parent
    OBVIOUS
  <2>3. /\ Open(q) /\ q \in DOMAIN tasks /\ q # t
        /\ \A u \in DOMAIN tasks : q < u /\ u < v => ~Open(u)
    BY <1>2, <2>1, <2>2 DEF IInv, Linked, Rooted, Open
  <2>4. tasks'[v].parent = q /\ Open(q)'
    BY <1>11, <1>12, <2>2, <2>3
  <2> QED
    BY <1>12, <2>3, <2>4 DEF Open
<1>17. Waiting'
  <2> SUFFICES ASSUME NEW v \in DOMAIN tasks, NEW u \in DOMAIN tasks,
                      Open(v)', Open(u)', v < u
               PROVE  tasks'[v].state = "SUSPENDED"
    BY <1>9 DEF Waiting
  <2>1. Open(v) /\ Open(u) /\ v # t /\ u # t /\ u < t
    BY <1>2, <1>12, <1>13
  <2>2. v # p
    BY <1>3, <2>1
  <2>3. tasks[v].state = "SUSPENDED"
    BY <2>1 DEF IInv, Waiting
  <2> QED
    BY <1>11, <2>1, <2>2, <2>3
<1>18. Worked'
  <2>1. Open(Root) /\ Open(Root)'
    BY <1>2, <1>12 DEF IInv, Worked
  <2>2. p \in DOMAIN tasks' /\ Open(p)' /\ tasks'[p].state # "SUSPENDED"
    BY <1>3, <1>4, <1>7, <1>9, <1>10, <1>12
  <2>3. p \in AtWork'
    BY <2>2 DEF AtWork
  <2> QED
    BY <2>1, <2>3 DEF Worked
<1>19. PoolUnheld'
  BY <1>2, <1>6, <1>11, <1>12 DEF IInv, PoolUnheld
<1> QED
  BY <1>14, <1>15, <1>16, <1>17, <1>18, <1>19 DEF IInv

-----------------------------------------------------------------------------
(* Copies, reminders and suspension.                                       *)

LEMMA NotifyInv ==
  ASSUME IInv, NotifyCc
  PROVE  IInv'
<1>1. PICK users \in SUBSET User : Copied("instance", users)
  BY DEF NotifyCc
<1>2. copies' \in [Place -> [User -> Seq({Unread, Read})]]
  BY <1>1, CopiedTyped DEF IInv, Place
<1> QED
  BY <1>2, BesideInv DEF IInv, TypeOK, NotifyCc

LEMMA ReadInv ==
  ASSUME IInv, MarkCcRead
  PROVE  IInv'
<1>1. PICK at \in Place, u \in User :
        \E i \in DOMAIN copies[at][u] :
          copies' = [copies EXCEPT ![at][u][i] = Read]
  BY DEF MarkCcRead
<1>i. PICK i \in DOMAIN copies[at][u] : copies' = [copies EXCEPT ![at][u][i] = Read]
  BY <1>1
<1> DEFINE new == [copies[at][u] EXCEPT ![i] = Read]
<1>2. new \in Seq({Unread, Read})
  <2>1. copies[at][u] \in Seq({Unread, Read}) /\ i \in 1 .. Len(copies[at][u])
    BY DEF IInv, TypeOK
  <2> QED
    BY <2>1, ExceptSeq
<1>3. copies' = [copies EXCEPT ![at] = [copies[at] EXCEPT ![u] = new]]
  BY <1>i
<1>4. copies' \in [Place -> [User -> Seq({Unread, Read})]]
  <2> HIDE DEF new
  <2> QED
    BY <1>2, <1>3 DEF IInv, TypeOK
<1> QED
  BY <1>4, BesideInv DEF IInv, TypeOK, MarkCcRead

LEMMA UrgeInv ==
  ASSUME IInv, NEW t \in DOMAIN tasks, UrgeTask(t)
  PROVE  IInv'
<1>1. TypeOK /\ t \in 1 .. MaxTask /\ tasks[t].assignee \in User \cup {None}
  BY TaskIn DEF IInv, Task
<1>2. copies' \in [Place -> [User -> Seq({Unread, Read})]]
  <2>1. (IF tasks[t].assignee = None THEN {} ELSE {tasks[t].assignee}) \in SUBSET User
    BY <1>1
  <2> QED
    BY <1>1, <2>1, CopiedTyped DEF UrgeTask, Place
<1>3. ledger' \in Seq(Entry) /\ Len(ledger') <= MaxLedger
  BY <1>1, LedgerTyped, TaskHandoverAssumption DEF UrgeTask, Kinds
<1> QED
  BY <1>2, <1>3, BesideInv DEF IInv, TypeOK, UrgeTask

LEMMA StepInv == IInv /\ [Next]_vars => IInv'
<1> SUFFICES ASSUME IInv, [Next]_vars PROVE IInv'
  OBVIOUS
<1>1. ASSUME NEW t \in DOMAIN tasks, NEW u \in User,
             ClaimTask(t, u) \/ TransferTask(t, u) \/ AddSign(t, u)
      PROVE  IInv'
  BY <1>1, ClaimInv, TransferInv, AddSignInv
<1>2. ASSUME NEW t \in DOMAIN tasks, NEW from \in User, NEW to \in User,
             DelegateTask(t, from, to)
      PROVE  IInv'
  BY <1>2, DelegateInv
<1>3. ASSUME NEW t \in DOMAIN tasks, CompleteTask(t)
      PROVE  IInv'
  BY <1>3, CompleteRootInv, CompleteSignedInv
<1>4. ASSUME NEW t \in DOMAIN tasks, UrgeTask(t)
      PROVE  IInv'
  BY <1>4, UrgeInv
<1>5. CASE NotifyCc \/ MarkCcRead
  BY <1>5, NotifyInv, ReadInv
<1>6. CASE SuspendProcess \/ ResumeProcess
  BY <1>6, BesideInv DEF SuspendProcess, ResumeProcess, IInv, TypeOK
<1>7. CASE UNCHANGED vars
  BY <1>7, BesideInv DEF vars, IInv, TypeOK
<1> QED
  BY <1>1, <1>2, <1>3, <1>4, <1>5, <1>6, <1>7 DEF Next

-----------------------------------------------------------------------------

\* Tasks, pool, copies and ledger are what the code can write to them, in every
\* state any calls reach (claim_task, transfer_task, delegate_task, add_sign,
\* complete_task).
THEOREM HandoverTypes == Spec => []TypeOK
<1>1. IInv => TypeOK
  BY DEF IInv
<1> QED
  BY InitInv, StepInv, <1>1, PTL DEF Spec

\* However a task is claimed, handed over, delegated, signed before and given
\* back, exactly one of the tasks can be worked on until the task itself ends
\* (add_sign, complete_task).
THEOREM ExactlyOneAtWork == Spec => []OneAtWork
<1>1. IInv => OneAtWork
  <2> SUFFICES ASSUME IInv PROVE OneAtWork
    OBVIOUS
  <2>1. CASE ~Open(Root)
    <3>1. AtWork = {}
      BY <2>1 DEF IInv, Worked, AtWork
    <3> QED
      BY <2>1, <3>1, FS_EmptySet DEF OneAtWork
  <2>2. CASE Open(Root)
    <3>1. PICK t \in AtWork : TRUE
      BY <2>2 DEF IInv, Worked
    <3>2. \A u \in AtWork : u = t
      <4> SUFFICES ASSUME NEW u \in AtWork, u # t PROVE FALSE
        OBVIOUS
      <4>1. u \in Nat /\ t \in Nat
        BY DEF IInv, TypeOK, AtWork
      <4>2. u < t \/ t < u
        BY <4>1
      <4> QED
        BY <4>2 DEF IInv, Waiting, AtWork
    <3>3. AtWork = {t}
      BY <3>2
    <3> QED
      BY <2>2, <3>3, FS_Singleton DEF OneAtWork
  <2> QED
    BY <2>1, <2>2
<1> QED
  BY InitInv, StepInv, <1>1, PTL DEF Spec

\* Nobody is offered a task that somebody holds or that is done: the pool is
\* emptied by every call that gives the task to one user (claim_task,
\* transfer_task, delegate_task), and comes back from no other.
THEOREM PoolOnlyUnheld == Spec => []PoolUnheld
<1>1. IInv => PoolUnheld
  BY DEF IInv
<1> QED
  BY InitInv, StepInv, <1>1, PTL DEF Spec
-----------------------------------------------------------------------------
(* The ledger.  Rows are only added, so that the last row of a kind is the *)
(* one just added or the one it was.                                       *)

Given == {"TRANSFER", "DELEGATE"}
Transferred == {"TRANSFER"}

\* A row is about a task that is there, and names a user where it hands a task
\* over or signs one in.
RowsNamed ==
  \A i \in DOMAIN ledger :
    /\ ledger[i].task \in DOMAIN tasks
    /\ ledger[i].kind \in Given => ledger[i].to \in User
    /\ ledger[i].temp # 0 => ledger[i].temp \in DOMAIN tasks /\ ledger[i].to \in User

\* The last row that hands a task over is one that does.
LastIsRow ==
  \A t \in DOMAIN tasks : \A kinds \in {Given, Transferred} :
    Last(t, kinds) # 0 =>
      /\ Last(t, kinds) \in DOMAIN ledger
      /\ ledger[Last(t, kinds)].task = t
      /\ ledger[Last(t, kinds)].kind \in kinds

LInv == IInv /\ RowsNamed /\ LastIsRow /\ LedgerTells

\* LedgerTells for one task.
TellsOf(t) ==
  /\ Last(t, Given) > 0 => tasks[t].assignee = ledger[Last(t, Given)].to
  /\ Last(t, Transferred) > 0 => tasks[t].owner = ledger[Last(t, Transferred)].to
  /\ Last(t, Transferred) = 0 =>
       \A i \in DOMAIN ledger : ledger[i].temp = t => tasks[t].owner = ledger[i].to

LEMMA TellsOfEach == LedgerTells <=> \A t \in DOMAIN tasks : TellsOf(t)
BY DEF LedgerTells, TellsOf, Given, Transferred

\* A row that is added is the last of its kind; of the others nothing changes.
LEMMA LastAdded ==
  ASSUME TypeOK, NEW row, ledger' = Append(ledger, row), NEW t, NEW kinds
  PROVE  /\ Len(ledger) \in Nat
         /\ DOMAIN ledger' = 1 .. Len(ledger) + 1 /\ DOMAIN ledger = 1 .. Len(ledger)
         /\ ledger'[Len(ledger) + 1] = row
         /\ \A i \in DOMAIN ledger : ledger'[i] = ledger[i]
         /\ Last(t, kinds)' = IF row.task = t /\ row.kind \in kinds
                              THEN Len(ledger) + 1 ELSE Last(t, kinds)
<1> DEFINE at == {i \in DOMAIN ledger : ledger[i].task = t /\ ledger[i].kind \in kinds}
           after == {i \in DOMAIN ledger' : ledger'[i].task = t /\ ledger'[i].kind \in kinds}
           n == Len(ledger) + 1
<1>1. /\ Len(ledger) \in Nat /\ DOMAIN ledger' = 1 .. n
      /\ DOMAIN ledger = 1 .. Len(ledger) /\ ledger'[n] = row
      /\ \A i \in DOMAIN ledger : ledger'[i] = ledger[i]
  BY DEF TypeOK
<1>2. Last(t, kinds)' = IF after = {} THEN 0 ELSE CHOOSE i \in after : \A j \in after : j <= i
  BY DEF Last
<1>3. CASE row.task = t /\ row.kind \in kinds
  <2>1. n \in after /\ \A j \in after : j <= n /\ j \in Nat
    BY <1>1, <1>3
  <2>2. \A i \in after : (\A j \in after : j <= i) => i = n
    BY <1>1, <2>1
  <2> QED
    BY <1>1, <1>2, <1>3, <2>1, <2>2
<1>4. CASE ~(row.task = t /\ row.kind \in kinds)
  <2>1. after = at
    BY <1>1, <1>4
  <2>2. Last(t, kinds) = IF at = {} THEN 0 ELSE CHOOSE i \in at : \A j \in at : j <= i
    BY DEF Last
  <2>3. Last(t, kinds)' = Last(t, kinds)
    <3> HIDE DEF at, after
    <3> QED
      BY <1>2, <2>1, <2>2
  <2> QED
    BY <1>4, <2>3
<1> QED
  BY <1>1, <1>3, <1>4

\* No row is added and nobody's holder or owner changes.
LEMMA SameLedger ==
  ASSUME LInv, IInv', ledger' = ledger, DOMAIN tasks' = DOMAIN tasks,
         \A t \in DOMAIN tasks :
           /\ tasks'[t].owner = tasks[t].owner
           /\ tasks'[t].assignee = tasks[t].assignee \/ Last(t, Given) = 0
  PROVE  LInv'
<1>1. \A t, kinds : Last(t, kinds)' = Last(t, kinds)
  BY DEF Last
<1>2. RowsNamed' /\ LastIsRow'
  BY <1>1 DEF LInv, RowsNamed, LastIsRow
<1>3. \A t \in DOMAIN tasks : TellsOf(t)
  BY TellsOfEach DEF LInv
<1>4. \A t \in DOMAIN tasks : TellsOf(t)'
  BY <1>1, <1>3 DEF TellsOf
<1>5. LedgerTells'
  BY <1>4 DEF LedgerTells, TellsOf, Given, Transferred
<1> QED
  BY <1>2, <1>5 DEF LInv

\* Row `row` is added, about task t, which alone may change hands by it.
LEMMA RowAdded ==
  ASSUME LInv, IInv', NEW row, ledger' = Append(ledger, row),
         DOMAIN tasks' = DOMAIN tasks, NEW t \in DOMAIN tasks,
         row.task = t, row.temp = 0, row.kind \in Given => row.to \in User,
         \A v \in DOMAIN tasks : v # t =>
           tasks'[v].owner = tasks[v].owner /\ tasks'[v].assignee = tasks[v].assignee,
         IF row.kind \in Given THEN tasks'[t].assignee = row.to
           ELSE tasks'[t].assignee = tasks[t].assignee,
         IF row.kind \in Transferred THEN tasks'[t].owner = row.to
           ELSE tasks[t].owner # None => tasks'[t].owner = tasks[t].owner
  PROVE  LInv'
<1> DEFINE n == Len(ledger) + 1
<1>t. TypeOK
  BY DEF LInv, IInv
<1>1. /\ Len(ledger) \in Nat /\ DOMAIN ledger' = 1 .. n /\ DOMAIN ledger = 1 .. Len(ledger)
      /\ ledger'[n] = row
      /\ \A i \in DOMAIN ledger : ledger'[i] = ledger[i]
  BY <1>t, LastAdded
<1>2. \A v, kinds : Last(v, kinds)' = IF t = v /\ row.kind \in kinds THEN n ELSE Last(v, kinds)
  BY <1>t, LastAdded
<1>3. \A v \in DOMAIN tasks : 0 \notin DOMAIN tasks /\ TellsOf(v)
  BY <1>t, TellsOfEach DEF LInv, TypeOK
<1>n. None \notin User
  BY TaskHandoverAssumption
<1>4. RowsNamed'
  BY <1>1 DEF LInv, RowsNamed
<1>5. LastIsRow'
  <2> SUFFICES ASSUME NEW v \in DOMAIN tasks, NEW kinds \in {Given, Transferred},
                      Last(v, kinds)' # 0
               PROVE  /\ Last(v, kinds)' \in DOMAIN ledger'
                      /\ ledger'[Last(v, kinds)'].task = v
                      /\ ledger'[Last(v, kinds)'].kind \in kinds
    BY DEF LastIsRow
  <2>1. CASE t = v /\ row.kind \in kinds
    BY <1>1, <1>2, <2>1
  <2>2. CASE ~(t = v /\ row.kind \in kinds)
    <3>1. Last(v, kinds)' = Last(v, kinds)
      BY <1>2, <2>2
    <3>2. /\ Last(v, kinds) \in DOMAIN ledger
          /\ ledger[Last(v, kinds)].task = v
          /\ ledger[Last(v, kinds)].kind \in kinds
      BY <3>1 DEF LInv, LastIsRow
    <3> QED
      BY <1>1, <3>1, <3>2
  <2> QED
    BY <2>1, <2>2
<1>6. \A v \in DOMAIN tasks : TellsOf(v)'
  <2> SUFFICES ASSUME NEW v \in DOMAIN tasks PROVE TellsOf(v)'
    OBVIOUS
  <2>1. /\ Last(v, Given) # 0 =>
             Last(v, Given) \in DOMAIN ledger /\ ledger[Last(v, Given)].kind \in Given
        /\ Last(v, Transferred) # 0 =>
             /\ Last(v, Transferred) \in DOMAIN ledger
             /\ ledger[Last(v, Transferred)].kind \in Given
    BY DEF LInv, LastIsRow, Given, Transferred
  <2>2. (Last(v, Given) > 0)' => tasks'[v].assignee = ledger'[Last(v, Given)'].to
    <3>1. CASE v = t /\ row.kind \in Given
      BY <1>1, <1>2, <3>1
    <3>2. CASE ~(v = t /\ row.kind \in Given)
      <4>1. Last(v, Given)' = Last(v, Given) /\ tasks'[v].assignee = tasks[v].assignee
        BY <1>2, <3>2
      <4> QED
        BY <1>1, <1>3, <2>1, <4>1 DEF TellsOf
    <3> QED
      BY <3>1, <3>2
  <2>3. (Last(v, Transferred) > 0)' => tasks'[v].owner = ledger'[Last(v, Transferred)'].to
    <3>1. CASE v = t /\ row.kind \in Transferred
      BY <1>1, <1>2, <3>1
    <3>2. CASE ~(v = t /\ row.kind \in Transferred)
      <4>1. Last(v, Transferred)' = Last(v, Transferred)
        BY <1>2, <3>2
      <4>2. CASE Last(v, Transferred) > 0
        <5>1. tasks[v].owner = ledger[Last(v, Transferred)].to /\ tasks[v].owner \in User
          BY <1>3, <2>1, <4>2 DEF TellsOf, LInv, RowsNamed
        <5>2. tasks'[v].owner = tasks[v].owner
          BY <1>n, <3>2, <5>1
        <5> QED
          BY <1>1, <2>1, <4>1, <4>2, <5>1, <5>2
      <4> QED
        BY <4>1, <4>2
    <3> QED
      BY <3>1, <3>2
  <2>4. (Last(v, Transferred) = 0)' =>
          \A i \in DOMAIN ledger' : ledger'[i].temp = v => tasks'[v].owner = ledger'[i].to
    <3> SUFFICES ASSUME (Last(v, Transferred) = 0)', NEW i \in DOMAIN ledger',
                        ledger'[i].temp = v
                 PROVE  tasks'[v].owner = ledger'[i].to
      OBVIOUS
    <3>1. ~(v = t /\ row.kind \in Transferred) /\ Last(v, Transferred) = 0
      BY <1>1, <1>2
    <3>2. i \in DOMAIN ledger /\ ledger'[i] = ledger[i]
      BY <1>1, <1>3
    <3>3. tasks[v].owner = ledger[i].to /\ ledger[i].to \in User
      BY <1>3, <3>1, <3>2 DEF TellsOf, LInv, RowsNamed
    <3> QED
      BY <1>n, <3>1, <3>2, <3>3
  <2> QED
    BY <2>2, <2>3, <2>4 DEF TellsOf
<1>7. LedgerTells'
  BY <1>6 DEF LedgerTells, TellsOf, Given, Transferred
<1> QED
  BY <1>4, <1>5, <1>7 DEF LInv

LEMMA InitLedger == Init => LInv
<1> SUFFICES ASSUME Init PROVE LInv
  OBVIOUS
<1>1. IInv
  BY InitInv
<1>2. ledger = <<>> /\ DOMAIN ledger = {}
  BY DEF Init
<1>3. \A t, kinds : Last(t, kinds) = 0
  BY <1>2 DEF Last
<1>4. RowsNamed /\ LastIsRow
  BY <1>2, <1>3 DEF RowsNamed, LastIsRow
<1>5. LedgerTells
  BY <1>2, <1>3, TellsOfEach DEF TellsOf
<1> QED
  BY <1>1, <1>4, <1>5 DEF LInv

\* What a call does to one task.
LEMMA OneTask ==
  ASSUME TypeOK, NEW t \in DOMAIN tasks, NEW r, tasks' = [tasks EXCEPT ![t] = r]
  PROVE  /\ DOMAIN tasks' = DOMAIN tasks /\ tasks'[t] = r
         /\ \A v \in DOMAIN tasks : v # t => tasks'[v] = tasks[v]
BY DEF TypeOK

LEMMA ClaimLedger ==
  ASSUME LInv, NEW t \in DOMAIN tasks, NEW u \in User, ClaimTask(t, u)
  PROVE  LInv'
<1> DEFINE r == [tasks[t] EXCEPT !.assignee = u]
<1>1. IInv /\ TypeOK /\ IInv'
  BY ClaimInv DEF LInv, IInv
<1>2. tasks[t] \in Task /\ r.owner = tasks[t].owner
  BY <1>1, TaskIn DEF Task
<1>3. tasks' = [tasks EXCEPT ![t] = r] /\ tasks[t].assignee = None /\ ledger' = ledger
  BY DEF ClaimTask
<1>4. Last(t, Given) = 0
  <2>1. Last(t, Given) # 0 => ledger[Last(t, Given)].to \in User
    BY DEF LInv, LastIsRow, RowsNamed
  <2>2. TellsOf(t)
    BY TellsOfEach DEF LInv
  <2>3. Last(t, Given) # 0 => Last(t, Given) > 0
    BY <1>1 DEF LInv, LastIsRow, TypeOK
  <2> QED
    BY <1>3, <2>1, <2>2, <2>3, TaskHandoverAssumption DEF TellsOf
<1> HIDE DEF r
<1> QED
  BY <1>1, <1>2, <1>3, <1>4, OneTask, SameLedger

LEMMA TransferLedger ==
  ASSUME LInv, NEW t \in DOMAIN tasks, NEW to \in User, TransferTask(t, to)
  PROVE  LInv'
<1> DEFINE r == [tasks[t] EXCEPT !.assignee = to, !.owner = to, !.state = "none"]
           row == [task |-> t, kind |-> "TRANSFER", to |-> to, temp |-> 0]
<1>1. IInv /\ TypeOK /\ IInv'
  BY TransferInv DEF LInv, IInv
<1>2. tasks[t] \in Task /\ r.owner = to /\ r.assignee = to
  BY <1>1, TaskIn DEF Task
<1>3. tasks' = [tasks EXCEPT ![t] = r] /\ ledger' = Append(ledger, row)
  BY DEF TransferTask, Ledgered
<1>4. /\ row.task = t /\ row.temp = 0 /\ row.to = to
      /\ row.kind \in Given /\ row.kind \in Transferred
  BY DEF Given, Transferred
<1> HIDE DEF r, row
<1>5. /\ DOMAIN tasks' = DOMAIN tasks /\ tasks'[t] = r
      /\ \A v \in DOMAIN tasks : v # t => tasks'[v] = tasks[v]
  BY <1>1, <1>3, OneTask
<1> QED
  BY <1>1, <1>2, <1>3, <1>4, <1>5, RowAdded

LEMMA DelegateLedger ==
  ASSUME LInv, NEW t \in DOMAIN tasks, NEW from \in User, NEW to \in User,
         DelegateTask(t, from, to)
  PROVE  LInv'
<1> DEFINE r == [tasks[t] EXCEPT !.owner = Owner(t, from), !.assignee = to,
                                 !.state = "DELEGATED"]
           row == [task |-> t, kind |-> "DELEGATE", to |-> to, temp |-> 0]
<1>1. IInv /\ TypeOK /\ IInv'
  BY DelegateInv DEF LInv, IInv
<1>2. /\ tasks[t] \in Task /\ r.assignee = to
      /\ tasks[t].owner # None => r.owner = tasks[t].owner
  BY <1>1, TaskIn DEF Task, Owner
<1>3. tasks' = [tasks EXCEPT ![t] = r] /\ ledger' = Append(ledger, row)
  BY DEF DelegateTask, Ledgered
<1>4. /\ row.task = t /\ row.temp = 0 /\ row.to = to
      /\ row.kind \in Given /\ row.kind \notin Transferred
  BY DEF Given, Transferred
<1> HIDE DEF r, row
<1>5. /\ DOMAIN tasks' = DOMAIN tasks /\ tasks'[t] = r
      /\ \A v \in DOMAIN tasks : v # t => tasks'[v] = tasks[v]
  BY <1>1, <1>3, OneTask
<1> QED
  BY <1>1, <1>2, <1>3, <1>4, <1>5, RowAdded

LEMMA UrgeLedger ==
  ASSUME LInv, NEW t \in DOMAIN tasks, UrgeTask(t)
  PROVE  LInv'
<1> DEFINE row == [task |-> t, kind |-> "URGE", to |-> tasks[t].assignee, temp |-> 0]
<1>1. IInv' /\ tasks' = tasks /\ ledger' = Append(ledger, row)
  BY UrgeInv DEF LInv, UrgeTask, Ledgered
<1>2. /\ row.task = t /\ row.temp = 0
      /\ row.kind \notin Given /\ row.kind \notin Transferred
  BY DEF Given, Transferred
<1> HIDE DEF row
<1> QED
  BY <1>1, <1>2, RowAdded

LEMMA CompleteLedger ==
  ASSUME LInv, NEW t \in DOMAIN tasks, CompleteTask(t)
  PROVE  LInv'
<1> DEFINE done == [tasks EXCEPT ![t].completed = TRUE]
           p == tasks[t].parent
<1>1. IInv /\ TypeOK /\ IInv' /\ ledger' = ledger
  BY CompleteRootInv, CompleteSignedInv DEF LInv, IInv, CompleteTask
<1>2. \A v \in DOMAIN tasks : tasks[v] \in Task
  BY <1>1, TaskIn
<1>3. tasks' = done \/ tasks' = [done EXCEPT ![p].state = "none"]
  BY DEF CompleteTask
<1>4. /\ DOMAIN done = DOMAIN tasks
      /\ \A v \in DOMAIN tasks :
           done[v] \in Task /\ done[v].owner = tasks[v].owner
           /\ done[v].assignee = tasks[v].assignee
  BY <1>2 DEF Task
<1>5. /\ DOMAIN tasks' = DOMAIN tasks
      /\ \A v \in DOMAIN tasks : tasks'[v].owner = tasks[v].owner
                                 /\ tasks'[v].assignee = tasks[v].assignee
  <2> HIDE DEF done, p
  <2> QED
    BY <1>3, <1>4 DEF Task
<1> QED
  BY <1>1, <1>5, SameLedger

LEMMA AddSignLedger ==
  ASSUME LInv, NEW t \in DOMAIN tasks, NEW to \in User, AddSign(t, to)
  PROVE  LInv'
<1> DEFINE held == [tasks EXCEPT ![t].state = "SUSPENDED"]
           signed == [assignee |-> to, owner |-> to, state |-> "ADDSIGN",
                      parent |-> t, completed |-> FALSE]
           row == [task |-> t, kind |-> "ADDSIGN", to |-> to, temp |-> Len(tasks')]
           m == Len(ledger) + 1
<1>1. IInv /\ TypeOK /\ IInv'
  BY AddSignInv DEF LInv, IInv
<1>2. \A v \in DOMAIN tasks : tasks[v] \in Task
  BY <1>1, TaskIn
<1>3. tasks' = Append(held, signed) /\ ledger' = Append(ledger, row)
  BY DEF AddSign, Ledgered
<1>4. PICK n \in Nat : n = Len(tasks) + 1
  BY <1>1 DEF TypeOK
<1>5. /\ held \in Seq(Task) /\ Len(held) = Len(tasks)
      /\ \A v \in DOMAIN tasks : held[v].owner = tasks[v].owner
                                 /\ held[v].assignee = tasks[v].assignee
  <2>1. [tasks[t] EXCEPT !.state = "SUSPENDED"] \in Task
    BY <1>2 DEF Task
  <2>2. held = [tasks EXCEPT ![t] = [tasks[t] EXCEPT !.state = "SUSPENDED"]]
    OBVIOUS
  <2>3. held \in Seq(Task) /\ Len(held) = Len(tasks)
    BY <1>1, <2>1, <2>2, ExceptSeq DEF TypeOK
  <2>4. \A v \in DOMAIN tasks : held[v].owner = tasks[v].owner
                                /\ held[v].assignee = tasks[v].assignee
    BY <1>2 DEF Task
  <2> QED
    BY <2>3, <2>4
<1>6. signed.owner = to /\ signed.assignee = to
  OBVIOUS
<1> HIDE DEF held, signed
<1>7. /\ Len(tasks') = n /\ DOMAIN tasks' = 1 .. n /\ DOMAIN tasks = 1 .. n - 1
      /\ tasks'[n] = signed
      /\ \A v \in DOMAIN tasks : tasks'[v].owner = tasks[v].owner
                                 /\ tasks'[v].assignee = tasks[v].assignee
  BY <1>1, <1>3, <1>4, <1>5 DEF TypeOK
<1>8. /\ row.task = t /\ row.to = to /\ row.temp = n
      /\ row.kind \notin Given /\ row.kind \notin Transferred
  BY <1>7 DEF Given, Transferred
<1> HIDE DEF row
<1>9. /\ Len(ledger) \in Nat /\ DOMAIN ledger' = 1 .. m /\ DOMAIN ledger = 1 .. Len(ledger)
      /\ ledger'[m] = row
      /\ \A i \in DOMAIN ledger : ledger'[i] = ledger[i]
  BY <1>1, <1>3, LastAdded
<1>10. \A v : Last(v, Given)' = Last(v, Given) /\ Last(v, Transferred)' = Last(v, Transferred)
  BY <1>1, <1>3, <1>8, LastAdded
<1>11. Last(n, Given) = 0 /\ Last(n, Transferred) = 0
  <2>1. \A i \in DOMAIN ledger : ledger[i].task # n
    BY <1>7 DEF LInv, RowsNamed
  <2> QED
    BY <2>1 DEF Last
<1>12. RowsNamed'
  BY <1>7, <1>8, <1>9 DEF LInv, RowsNamed
<1>13. LastIsRow'
  <2> SUFFICES ASSUME NEW v \in DOMAIN tasks', NEW kinds \in {Given, Transferred},
                      Last(v, kinds)' # 0
               PROVE  /\ Last(v, kinds)' \in DOMAIN ledger'
                      /\ ledger'[Last(v, kinds)'].task = v
                      /\ ledger'[Last(v, kinds)'].kind \in kinds
    BY DEF LastIsRow
  <2>1. Last(v, kinds)' = Last(v, kinds) /\ v \in DOMAIN tasks
    BY <1>4, <1>7, <1>10, <1>11
  <2> QED
    BY <1>9, <2>1 DEF LInv, LastIsRow
<1>14. \A v \in DOMAIN tasks' : TellsOf(v)'
  <2> SUFFICES ASSUME NEW v \in DOMAIN tasks' PROVE TellsOf(v)'
    OBVIOUS
  <2>1. CASE v = n
    <3>1. (Last(v, Given) = 0)' /\ (Last(v, Transferred) = 0)'
      BY <1>10, <1>11, <2>1
    <3>2. ASSUME NEW i \in DOMAIN ledger', ledger'[i].temp = n
          PROVE  i = m
      BY <1>4, <1>7, <1>9, <3>2 DEF LInv, RowsNamed
    <3> QED
      BY <1>6, <1>7, <1>8, <1>9, <2>1, <3>1, <3>2 DEF TellsOf
  <2>2. CASE v # n
    <3>1. v \in DOMAIN tasks /\ TellsOf(v)
      BY <1>4, <1>7, <2>2, TellsOfEach DEF LInv
    <3>2. \A i \in DOMAIN ledger' : ledger'[i].temp = v =>
            i \in DOMAIN ledger /\ ledger'[i] = ledger[i]
      BY <1>8, <1>9, <2>2
    <3>3. /\ Last(v, Given) # 0 => Last(v, Given) \in DOMAIN ledger
          /\ Last(v, Transferred) # 0 => Last(v, Transferred) \in DOMAIN ledger
      BY <3>1 DEF LInv, LastIsRow
    <3> QED
      BY <1>7, <1>9, <1>10, <3>1, <3>2, <3>3 DEF TellsOf
  <2> QED
    BY <2>1, <2>2
<1>15. LedgerTells'
  BY <1>14 DEF LedgerTells, TellsOf, Given, Transferred
<1> QED
  BY <1>1, <1>12, <1>13, <1>15 DEF LInv

LEMMA StepLedger == LInv /\ [Next]_vars => LInv'
<1> SUFFICES ASSUME LInv, [Next]_vars PROVE LInv'
  OBVIOUS
<1>1. ASSUME NEW t \in DOMAIN tasks, NEW u \in User,
             ClaimTask(t, u) \/ TransferTask(t, u) \/ AddSign(t, u)
      PROVE  LInv'
  BY <1>1, ClaimLedger, TransferLedger, AddSignLedger
<1>2. ASSUME NEW t \in DOMAIN tasks, NEW from \in User, NEW to \in User,
             DelegateTask(t, from, to)
      PROVE  LInv'
  BY <1>2, DelegateLedger
<1>3. ASSUME NEW t \in DOMAIN tasks, CompleteTask(t) \/ UrgeTask(t)
      PROVE  LInv'
  BY <1>3, CompleteLedger, UrgeLedger
<1>4. CASE NotifyCc \/ MarkCcRead \/ SuspendProcess \/ ResumeProcess \/ UNCHANGED vars
  <2>1. IInv' /\ tasks' = tasks /\ ledger' = ledger
    BY <1>4, StepInv DEF LInv, NotifyCc, MarkCcRead, SuspendProcess, ResumeProcess, vars
  <2> QED
    BY <2>1, SameLedger
<1> QED
  BY <1>1, <1>2, <1>3, <1>4 DEF Next

\* What the ledger says last about a task is what the task says of itself,
\* whatever calls were made since on it and on the tasks signed in before it
\* (transfer_task, delegate_task, add_sign).
THEOREM LedgerKept == Spec => []LedgerTells
<1>1. LInv => LedgerTells
  BY DEF LInv
<1> QED
  BY InitLedger, StepLedger, <1>1, PTL DEF Spec
=============================================================================
