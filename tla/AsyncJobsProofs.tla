-------------------------- MODULE AsyncJobsProofs --------------------------
(***************************************************************************)
(* Proofs about AsyncJobs, for any number of workers, tokens, service      *)
(* tasks, retries and faults: as long as no worker dies while the job it   *)
(* has in hand is neither a row nor a dead letter, no token waits for a    *)
(* job nobody has, although leases lapse and rows are deleted by id.  The  *)
(* last part is about an instance with a single token.                     *)
(***************************************************************************)
EXTENDS AsyncJobs, TLAPS

\* Where a crash loses nothing.
SafeCrashes == CrashPoints \cap {"deleted", "loaded", "saved", "dead"} = {}

-----------------------------------------------------------------------------
(* Tables of jobs. *)

\* A table is a function from some jobs to leases.
LEMMA RowsAre ==
  \A r : r \in Rows <=> DOMAIN r \subseteq Job /\ r \in [DOMAIN r -> Lease]
BY DEF Rows

\* A fresh job starts with all its retries.
LEMMA NewRowIsLease == NewRow \in Lease
BY AsyncAssumption DEF NewRow, Lease

\* Both upserting and deleting give a table, and say which jobs it holds.
LEMMA UpsertRows ==
  ASSUME NEW r \in Rows, NEW s \in Rows
  PROVE  Upsert(r, s) \in Rows /\ DOMAIN Upsert(r, s) = DOMAIN r \cup DOMAIN s
BY RowsAre DEF Upsert

LEMMA WithoutRows ==
  ASSUME NEW r \in Rows, NEW j
  PROVE  Without(r, j) \in Rows /\ DOMAIN Without(r, j) = DOMAIN r \ {j}
BY RowsAre DEF Without, Restrict

LEMMA ParkedRows ==
  ASSUME NEW t \in Token, NEW n
  PROVE  /\ Parked(t, n) \in Rows
         /\ n \in Node => DOMAIN Parked(t, n) = {<<t, n>>}
BY RowsAre, NewRowIsLease DEF Parked, Job

\* What a worker has in hand when it turns to its next job, or to none.
LEMMA NextJobTyped ==
  ASSUME TypeOK, NEW w \in Worker
  PROVE  NextJob(w) \in [Worker -> Hand] /\ Abandon(w) \in [Worker -> Hand]
<1>1. Free \in Hand
  BY RowsAre, NewRowIsLease DEF Free, NoRows, Hand, PC
<1>2. [Free EXCEPT !.pc = IF worker[w].batch = {} THEN "idle" ELSE "batch",
                   !.batch = worker[w].batch] \in Hand
  BY <1>1 DEF TypeOK, Hand, PC
<1> QED
  BY <1>1, <1>2 DEF TypeOK, NextJob, Abandon

LEMMA StaleTyped ==
  ASSUME NEW f \in [Worker -> Hand]
  PROVE  Stale(f) \in [Worker -> Hand]
BY DEF Stale, Hand

LEMMA BecomeTyped ==
  ASSUME TypeOK, NEW w \in Worker, NEW pc \in PC
  PROVE  Become(w, pc) \in [Worker -> Hand]
BY DEF Become, TypeOK, Hand

\* The worker that has just saved has in hand what its copy held, and the
\* token's next job.
Saved(w) ==
  [worker EXCEPT ![w].pc = "saved",
                 ![w].seen = Upsert(@, Parked(Mine(w)[1], pos[Mine(w)[1]] + 1))]

LEMMA SavedTyped ==
  ASSUME TypeOK, NEW w \in Worker, Mine(w) \in Job
  PROVE  Saved(w) \in [Worker -> Hand]
<1> DEFINE t == Mine(w)[1]
<1>1. Upsert(worker[w].seen, Parked(t, pos[t] + 1)) \in Rows
  BY ParkedRows, UpsertRows DEF TypeOK, Hand, Job
<1> QED
  BY <1>1 DEF TypeOK, Saved, Hand, PC

-----------------------------------------------------------------------------
(* Types. *)

LEMMA InitTyped == Init => TypeOK
<1> SUFFICES ASSUME Init PROVE TypeOK
  OBVIOUS
<1>1. row \in Rows
  BY RowsAre, NewRowIsLease, AsyncAssumption DEF Init, Job, Node
<1>2. worker \in [Worker -> Hand]
  BY RowsAre, NewRowIsLease DEF Init, Free, NoRows, Hand, PC
<1> QED
  BY <1>1, <1>2, AsyncAssumption DEF Init, TypeOK

\* The steps of a worker keep the types.  The one that counts is the save:
\* the token it moves waits, so it is at a service task.
LEMMA WorkerTyped ==
  ASSUME TypeOK, CopiesCurrent, WaitsAtNode, NEW w \in Worker, Step(w)
  PROVE  TypeOK'
<1> USE AsyncAssumption DEF At, aggregate
<1>1. CASE Acquire(w)
  <2> DEFINE got == {j \in DOMAIN row : Takeable(j)}
  <2>1. row' \in Rows
    <3>1. \A j \in DOMAIN row : row[j] \in Lease
      BY RowsAre DEF TypeOK
    <3>2. \A j \in DOMAIN row : [row[j] EXCEPT !.owner = w, !.over = FALSE] \in Lease
      BY <3>1 DEF Lease
    <3> QED
      BY <1>1, <3>1, <3>2, RowsAre DEF Acquire, TypeOK
  <2>2. worker' \in [Worker -> Hand]
    <3>1. got \in SUBSET Job
      BY RowsAre DEF TypeOK
    <3>2. [Free EXCEPT !.pc = "batch", !.batch = got] \in Hand
      BY <3>1, RowsAre, NewRowIsLease DEF Free, NoRows, Hand, PC
    <3> QED
      BY <1>1, <3>2 DEF Acquire, TypeOK
  <2> QED
    BY <1>1, <2>1, <2>2 DEF Acquire, TypeOK
<1>2. CASE Execute(w)
  <2>1. PICK j \in worker[w].batch, answer \in {"ran", "failing"} :
          /\ worker' = [worker EXCEPT ![w].pc = answer, ![w].job = j, ![w].batch = @ \ {j}]
          /\ ran' = IF answer = "ran" THEN ran \cup {j} ELSE ran
    BY <1>2 DEF Execute
  <2>2. j \in Job
    BY DEF TypeOK, Hand
  <2>3. worker' \in [Worker -> Hand]
    BY <2>1, <2>2 DEF TypeOK, Hand, PC
  <2> QED
    BY <1>2, <2>1, <2>2, <2>3 DEF Execute, TypeOK
<1>3. CASE DeleteRow(w)
  <2>1. CASE Mine(w) \in DOMAIN row
    <3>1. row[Mine(w)] \in Lease
      BY <2>1, RowsAre DEF TypeOK
    <3>2. row' = Without(row, Mine(w))
      BY <1>3, <2>1 DEF DeleteRow
    <3>3. row' \in Rows
      BY <3>2, WithoutRows DEF TypeOK
    <3>4. worker' \in [Worker -> Hand]
      BY <1>3, <2>1, <3>1 DEF DeleteRow, TypeOK, Hand, PC
    <3> QED
      BY <1>3, <3>3, <3>4 DEF DeleteRow, TypeOK
  <2>2. CASE Mine(w) \notin DOMAIN row
    BY <1>3, <2>2, NextJobTyped DEF DeleteRow, TypeOK
  <2> QED
    BY <2>1, <2>2
<1>4. CASE LoadToComplete(w)
  <2>1. OtherRows(w) \in Rows
    BY WithoutRows DEF OtherRows, TypeOK
  <2>2. worker' \in [Worker -> Hand]
    <3>1. [worker[w] EXCEPT !.pc = "loaded", !.fresh = TRUE, !.seen = OtherRows(w)] \in Hand
      <4>1. worker[w] \in Hand
        BY DEF TypeOK
      <4> QED
        BY <2>1, <4>1 DEF Hand, PC
    <3>2. CASE Waits(Mine(w)[1])
      BY <1>4, <3>1, <3>2 DEF LoadToComplete, TypeOK
    <3> QED
      BY <1>4, <3>2, NextJobTyped DEF LoadToComplete
  <2> QED
    BY <1>4, <2>2 DEF LoadToComplete, TypeOK
<1>5. CASE SaveComplete(w)
  <2> DEFINE t == Mine(w)[1]
  <2>1. t \in Token /\ Mine(w) \in Job
    BY <1>5 DEF SaveComplete, CopiesCurrent, Job
  <2>2. CASE worker[w].fresh
    <3>1. pos[t] \in Node
      BY <1>5, <2>1, <2>2 DEF SaveComplete, CopiesCurrent, WaitsAtNode
    <3>2. pos' \in [Token -> 1 .. Hops + 1]
      BY <1>5, <2>1, <2>2, <3>1 DEF SaveComplete, TypeOK, Node
    <3>3. state' \in [Token -> {"WaitingAsync", "Incident", "Ended"}]
      BY <1>5, <2>1, <2>2 DEF SaveComplete, TypeOK
    <3>4. worker' \in [Worker -> Hand]
      <4>1. worker' = Stale(Saved(w))
        BY <1>5, <2>2 DEF SaveComplete, Saved
      <4> QED
        BY <2>1, <4>1, SavedTyped, StaleTyped
    <3> QED
      BY <1>5, <2>2, <3>2, <3>3, <3>4 DEF SaveComplete, TypeOK
  <2>3. CASE ~worker[w].fresh
    <3>1. PutBack(w) \in Rows
      BY <2>1, RowsAre DEF PutBack, TypeOK, Hand
    <3>2. row' = Upsert(row, PutBack(w))
      BY <1>5, <2>3 DEF SaveComplete
    <3>3. row' \in Rows
      BY <3>1, <3>2, UpsertRows DEF TypeOK
    <3> QED
      BY <1>5, <2>3, <3>3, NextJobTyped DEF SaveComplete, TypeOK
  <2> QED
    BY <2>2, <2>3
<1>6. CASE FlushJobs(w)
  <2>1. row' \in Rows
    BY <1>6, UpsertRows DEF FlushJobs, TypeOK, Hand
  <2> QED
    BY <1>6, <2>1, NextJobTyped DEF FlushJobs, TypeOK
<1>7. CASE FindRow(w)
  BY <1>7, NextJobTyped, BecomeTyped DEF FindRow, TypeOK, PC
<1>8. CASE CountFailure(w)
  <2>1. CASE Mine(w) \in DOMAIN row
    <3>1. row[Mine(w)] \in Lease
      BY <2>1, RowsAre DEF TypeOK
    <3>2. Counted(row[Mine(w)]) \in Lease
      BY <3>1 DEF Counted, Lease
    <3>3. row' \in Rows
      BY <1>8, <2>1, <3>2, RowsAre DEF CountFailure, TypeOK
    <3>4. worker' \in [Worker -> Hand]
      BY <1>8, <2>1, NextJobTyped, BecomeTyped DEF CountFailure, PC
    <3> QED
      BY <1>8, <3>3, <3>4 DEF CountFailure, TypeOK
  <2>2. CASE Mine(w) \notin DOMAIN row
    BY <1>8, <2>2, BecomeTyped DEF CountFailure, TypeOK, PC
  <2> QED
    BY <2>1, <2>2
<1>9. CASE DeleteExhausted(w)
  BY <1>9, WithoutRows, BecomeTyped DEF DeleteExhausted, TypeOK, PC
<1>10. CASE DeadLetter(w)
  <2>1. Mine(w) \in Job
    BY <1>10 DEF DeadLetter, CopiesCurrent
  <2> QED
    BY <1>10, <2>1, BecomeTyped DEF DeadLetter, TypeOK, PC
<1>11. CASE LoadToFail(w)
  <2>1. [worker EXCEPT ![w].pc = "deadLoaded", ![w].fresh = TRUE] \in [Worker -> Hand]
    BY DEF TypeOK, Hand, PC
  <2>2. worker' \in [Worker -> Hand]
    BY <1>11, <2>1, NextJobTyped DEF LoadToFail
  <2> QED
    BY <1>11, <2>2 DEF LoadToFail, TypeOK
<1>12. CASE SaveIncident(w)
  <2>1. worker' \in [Worker -> Hand]
    BY <1>12, NextJobTyped, StaleTyped DEF SaveIncident
  <2>2. state' \in [Token -> {"WaitingAsync", "Incident", "Ended"}]
    BY <1>12 DEF SaveIncident, TypeOK
  <2> QED
    BY <1>12, <2>1, <2>2 DEF SaveIncident, TypeOK
<1> QED
  BY <1>1, <1>2, <1>3, <1>4, <1>5, <1>6, <1>7, <1>8, <1>9, <1>10, <1>11, <1>12
  DEF Step

\* So does everything else that may happen.
LEMMA TypeStep ==
  ASSUME TypeOK, CopiesCurrent, WaitsAtNode, [Next]_vars
  PROVE  TypeOK'
<1>1. CASE \E w \in Worker : Step(w)
  BY <1>1, WorkerTyped
<1>2. CASE \E w \in Worker : Crash(w)
  BY <1>2, NextJobTyped, AsyncAssumption DEF Crash, Fault, TypeOK, aggregate
<1>3. CASE \E j \in DOMAIN row : Expire(j)
  <2>1. PICK j \in DOMAIN row : Expire(j)
    BY <1>3
  <2>2. row[j] \in Lease
    BY RowsAre DEF TypeOK
  <2>3. [row[j] EXCEPT !.over = TRUE] \in Lease
    BY <2>2 DEF Lease
  <2>4. row' \in Rows
    BY <2>1, <2>3, RowsAre DEF Expire, TypeOK
  <2> QED
    BY <2>1, <2>4 DEF Expire, TypeOK, aggregate
<1>4. CASE OtherSave
  BY <1>4, StaleTyped, AsyncAssumption DEF OtherSave, Fault, TypeOK, aggregate
<1>5. CASE UNCHANGED vars
  BY <1>5 DEF vars, TypeOK
<1> QED
  BY <1>1, <1>2, <1>3, <1>4, <1>5 DEF Next

-----------------------------------------------------------------------------
(* What a worker's step leaves alone. *)

\* The steps that put a worker back to idle or to its batch, and the one that
\* makes copies stale, change nothing else of what the others have in hand.
LEMMA HandsKept ==
  ASSUME TypeOK, NEW w \in Worker, NEW v \in Worker \ {w}
  PROVE  /\ NextJob(w)[v] = worker[v]
         /\ Abandon(w)[v] = worker[v]
         /\ \A pc : Become(w, pc)[v] = worker[v]
BY DEF TypeOK, NextJob, Abandon, Become

\* A worker that goes on has nothing of the last job in hand.
LEMMA HandDropped ==
  ASSUME TypeOK, NEW w \in Worker
  PROVE  /\ NextJob(w)[w].pc \in {"idle", "batch"} /\ ~NextJob(w)[w].fresh
         /\ Abandon(w)[w].pc = "idle" /\ ~Abandon(w)[w].fresh
BY DEF TypeOK, NextJob, Abandon, Free

\* Making copies stale keeps everything else.
LEMMA StaleKeeps ==
  ASSUME NEW f \in [Worker -> Hand], NEW v \in Worker
  PROVE  /\ Stale(f)[v].pc = f[v].pc
         /\ Stale(f)[v].job = f[v].job
         /\ Stale(f)[v].seen = f[v].seen
         /\ ~Stale(f)[v].fresh
BY DEF Stale, Hand

\* Whatever one worker does, what the others hold stays; at most their copies
\* become stale, and all of them do when the aggregate changes.
LEMMA OthersKept ==
  ASSUME TypeOK, CopiesCurrent, NEW w \in Worker, Step(w) \/ Crash(w), NEW v \in Worker \ {w}
  PROVE  /\ worker'[v].pc = worker[v].pc
         /\ worker'[v].job = worker[v].job
         /\ worker'[v].seen = worker[v].seen
         /\ worker'[v].fresh => worker[v].fresh
<1> USE DEF At
<1>1. CASE Acquire(w)
  BY <1>1 DEF Acquire, TypeOK
<1>2. CASE Execute(w)
  BY <1>2 DEF Execute, TypeOK
<1>3. CASE DeleteRow(w)
  BY <1>3, HandsKept DEF DeleteRow, TypeOK
<1>4. CASE LoadToComplete(w)
  BY <1>4, HandsKept DEF LoadToComplete, TypeOK
<1>5. CASE SaveComplete(w)
  <2>1. CASE worker[w].fresh
    <3>1. worker' = Stale(Saved(w))
      BY <1>5, <2>1 DEF SaveComplete, Saved
    <3>2. Saved(w)[v] = worker[v]
      BY DEF TypeOK, Saved
    <3>3. Saved(w) \in [Worker -> Hand]
      BY <1>5, SavedTyped DEF SaveComplete, CopiesCurrent
    <3> QED
      BY <3>1, <3>2, <3>3, StaleKeeps
  <2>2. CASE ~worker[w].fresh
    BY <1>5, <2>2, HandsKept DEF SaveComplete
  <2> QED
    BY <2>1, <2>2
<1>6. CASE FlushJobs(w)
  BY <1>6, HandsKept DEF FlushJobs
<1>7. CASE FindRow(w)
  BY <1>7, HandsKept DEF FindRow
<1>8. CASE CountFailure(w)
  BY <1>8, HandsKept DEF CountFailure
<1>9. CASE DeleteExhausted(w)
  BY <1>9, HandsKept DEF DeleteExhausted
<1>10. CASE DeadLetter(w)
  BY <1>10, HandsKept DEF DeadLetter
<1>11. CASE LoadToFail(w)
  BY <1>11, HandsKept DEF LoadToFail, TypeOK
<1>12. CASE SaveIncident(w)
  <2>1. CASE worker[w].fresh
    <3>1. worker' = Stale(NextJob(w))
      BY <1>12, <2>1 DEF SaveIncident
    <3> QED
      BY <3>1, HandsKept, NextJobTyped, StaleKeeps
  <2>2. CASE ~worker[w].fresh
    BY <1>12, <2>2, HandsKept DEF SaveIncident
  <2> QED
    BY <2>1, <2>2
<1>13. CASE Crash(w)
  BY <1>13, HandsKept DEF Crash
<1> QED
  BY <1>1, <1>2, <1>3, <1>4, <1>5, <1>6, <1>7, <1>8, <1>9, <1>10, <1>11, <1>12, <1>13
  DEF Step

\* The aggregate changes only in a save, and a save makes every copy stale.
LEMMA SavesAlone ==
  ASSUME TypeOK, CopiesCurrent, NEW w \in Worker, Step(w),
         NEW v \in Worker, worker'[v].fresh
  PROVE  UNCHANGED aggregate
<1> USE DEF aggregate
<1>1. CASE SaveComplete(w)
  <2>1. CASE worker[w].fresh
    <3>1. worker' = Stale(Saved(w))
      BY <1>1, <2>1 DEF SaveComplete, Saved
    <3>2. Saved(w) \in [Worker -> Hand]
      BY <1>1, SavedTyped DEF SaveComplete, CopiesCurrent, At
    <3> QED
      BY <3>1, <3>2, StaleKeeps
  <2>2. CASE ~worker[w].fresh
    BY <1>1, <2>2 DEF SaveComplete
  <2> QED
    BY <2>1, <2>2
<1>2. CASE SaveIncident(w)
  <2>1. CASE worker[w].fresh
    <3>1. worker' = Stale(NextJob(w))
      BY <1>2, <2>1 DEF SaveIncident
    <3> QED
      BY <3>1, NextJobTyped, StaleKeeps
  <2>2. CASE ~worker[w].fresh
    BY <1>2, <2>2 DEF SaveIncident
  <2> QED
    BY <2>1, <2>2
<1> QED
  BY <1>1, <1>2 DEF Step, Acquire, Execute, DeleteRow, LoadToComplete, FlushJobs, FindRow,
     CountFailure, DeleteExhausted, DeadLetter, LoadToFail

-----------------------------------------------------------------------------
(* Copies and places. *)

\* What a worker has in hand after its own step.
LEMMA OwnCopyCurrent ==
  ASSUME TypeOK, CopiesCurrent, NEW w \in Worker, Step(w)
  PROVE  /\ worker'[w].pc \in {"loaded", "deadLoaded"} /\ worker'[w].fresh
              => Waits(Mine(w)[1])'
         /\ worker'[w].pc \notin {"idle", "batch"} => Mine(w)' \in Job
<1> USE DEF At, aggregate
<1>1. CASE Acquire(w)
  BY <1>1 DEF Acquire, TypeOK, Free
<1>2. CASE Execute(w)
  <2>1. PICK j \in worker[w].batch, answer \in {"ran", "failing"} :
          worker' = [worker EXCEPT ![w].pc = answer, ![w].job = j, ![w].batch = @ \ {j}]
    BY <1>2 DEF Execute
  <2>2. j \in Job
    BY DEF TypeOK, Hand
  <2>3. worker'[w].pc = answer /\ worker'[w].job = j
    BY <2>1 DEF TypeOK, Hand
  <2> QED
    BY <2>2, <2>3 DEF Mine
<1>3. CASE DeleteRow(w)
  <2>1. CASE Mine(w) \in DOMAIN row
    <3>1. worker'[w].pc = "deleted" /\ Mine(w)' = Mine(w)
      BY <1>3, <2>1 DEF DeleteRow, TypeOK, Hand, Mine
    <3> QED
      BY <1>3, <3>1 DEF DeleteRow, CopiesCurrent
  <2>2. CASE Mine(w) \notin DOMAIN row
    BY <1>3, <2>2, HandDropped DEF DeleteRow
  <2> QED
    BY <2>1, <2>2
<1>4. CASE LoadToComplete(w)
  <2>1. CASE Waits(Mine(w)[1])
    <3>1. worker'[w].pc = "loaded" /\ Mine(w)' = Mine(w)
      BY <1>4, <2>1 DEF LoadToComplete, TypeOK, Hand, Mine
    <3> QED
      BY <1>4, <2>1, <3>1 DEF LoadToComplete, CopiesCurrent, Waits
  <2>2. CASE ~Waits(Mine(w)[1])
    BY <1>4, <2>2, HandDropped DEF LoadToComplete
  <2> QED
    BY <2>1, <2>2
<1>5. CASE SaveComplete(w)
  <2>1. CASE worker[w].fresh
    <3>1. worker' = Stale(Saved(w))
      BY <1>5, <2>1 DEF SaveComplete, Saved
    <3>2. Mine(w) \in Job
      BY <1>5 DEF SaveComplete, CopiesCurrent
    <3>3. Saved(w) \in [Worker -> Hand]
      BY <3>2, SavedTyped
    <3>4. Saved(w)[w].pc = "saved" /\ Saved(w)[w].job = Mine(w)
      BY DEF Saved, Mine, TypeOK, Hand
    <3> QED
      BY <3>1, <3>2, <3>3, <3>4, StaleKeeps DEF Mine
  <2>2. CASE ~worker[w].fresh
    BY <1>5, <2>2, HandDropped DEF SaveComplete
  <2> QED
    BY <2>1, <2>2
<1>6. CASE FlushJobs(w)
  BY <1>6, HandDropped DEF FlushJobs
<1>7. CASE FindRow(w) \/ CountFailure(w) \/ DeleteExhausted(w) \/ DeadLetter(w)
  <2>1. PICK pc \in {"counting", "exhausted", "dead", "deadLoad"} :
          worker' = NextJob(w) \/ worker' = Become(w, pc)
    BY <1>7 DEF FindRow, CountFailure, DeleteExhausted, DeadLetter
  <2>2. CASE worker' = NextJob(w)
    BY <2>2, HandDropped
  <2>3. CASE worker' = Become(w, pc)
    <3>1. worker'[w].pc = pc /\ Mine(w)' = Mine(w)
      BY <2>3 DEF Become, Mine, TypeOK, Hand
    <3>2. Mine(w) \in Job
      BY <1>7 DEF CopiesCurrent, FindRow, CountFailure, DeleteExhausted, DeadLetter
    <3> QED
      BY <3>1, <3>2
  <2> QED
    BY <2>1, <2>2, <2>3
<1>8. CASE LoadToFail(w)
  <2>1. CASE Waits(Mine(w)[1])
    <3>1. worker'[w].pc = "deadLoaded" /\ Mine(w)' = Mine(w)
      BY <1>8, <2>1 DEF LoadToFail, TypeOK, Hand, Mine
    <3> QED
      BY <1>8, <2>1, <3>1 DEF LoadToFail, CopiesCurrent, Waits
  <2>2. CASE ~Waits(Mine(w)[1])
    BY <1>8, <2>2, HandDropped DEF LoadToFail
  <2> QED
    BY <2>1, <2>2
<1>9. CASE SaveIncident(w)
  <2>1. CASE worker[w].fresh
    <3>1. worker' = Stale(NextJob(w))
      BY <1>9, <2>1 DEF SaveIncident
    <3> QED
      BY <3>1, HandDropped, NextJobTyped, StaleKeeps
  <2>2. CASE ~worker[w].fresh
    BY <1>9, <2>2, HandDropped DEF SaveIncident
  <2> QED
    BY <2>1, <2>2
<1> QED
  BY <1>1, <1>2, <1>3, <1>4, <1>5, <1>6, <1>7, <1>8, <1>9 DEF Step

\* A current copy is never one the aggregate has moved away from.
LEMMA CopiesStep ==
  ASSUME TypeOK, CopiesCurrent, [Next]_vars
  PROVE  CopiesCurrent'
<1>1. CASE \E w \in Worker : Step(w)
  <2>1. PICK w \in Worker : Step(w)
    BY <1>1
  <2>2. ASSUME NEW v \in Worker \ {w}
        PROVE  /\ worker'[v].pc \in {"loaded", "deadLoaded"} /\ worker'[v].fresh
                    => Waits(Mine(v)[1])'
               /\ worker'[v].pc \notin {"idle", "batch"} => Mine(v)' \in Job
    <3>1. /\ worker'[v].pc = worker[v].pc /\ Mine(v)' = Mine(v)
          /\ worker'[v].fresh => worker[v].fresh
      BY <2>1, OthersKept DEF Mine
    <3>2. worker'[v].fresh => state' = state
      BY <2>1, SavesAlone DEF aggregate
    <3> QED
      BY <3>1, <3>2 DEF CopiesCurrent, Waits
  <2> QED
    BY <2>1, <2>2, OwnCopyCurrent DEF CopiesCurrent
<1>2. CASE \E w \in Worker : Crash(w)
  <2>1. PICK w \in Worker : Crash(w)
    BY <1>2
  <2>2. ASSUME NEW v \in Worker
        PROVE  worker'[v] = worker[v] \/ worker'[v].pc = "idle"
    BY <2>1, HandsKept, HandDropped DEF Crash
  <2>3. state' = state
    BY <2>1 DEF Crash, aggregate
  <2> QED
    BY <2>2, <2>3 DEF CopiesCurrent, Waits, Mine
<1>3. CASE (\E j \in DOMAIN row : Expire(j)) \/ UNCHANGED vars
  BY <1>3 DEF Expire, vars, aggregate, CopiesCurrent, Waits, Mine
<1>4. CASE OtherSave
  <2>1. \A v \in Worker : /\ worker'[v].pc = worker[v].pc /\ Mine(v)' = Mine(v)
                          /\ ~worker'[v].fresh
    BY <1>4, StaleKeeps DEF OtherSave, TypeOK, Mine
  <2> QED
    BY <2>1 DEF CopiesCurrent
<1> QED
  BY <1>1, <1>2, <1>3, <1>4 DEF Next

\* A token that waits is at a service task: past the last it has ended.
LEMMA PlacesStep ==
  ASSUME TypeOK, CopiesCurrent, WaitsAtNode, [Next]_vars
  PROVE  WaitsAtNode'
<1>1. CASE \E w \in Worker : SaveComplete(w)
  <2>1. PICK w \in Worker : SaveComplete(w)
    BY <1>1
  <2> DEFINE t == Mine(w)[1]
  <2>2. t \in Token
    BY <2>1 DEF SaveComplete, CopiesCurrent, At, Job
  <2>3. CASE worker[w].fresh
    <3>1. /\ pos' = [pos EXCEPT ![t] = @ + 1]
          /\ state' = [state EXCEPT ![t] = IF pos[t] = Hops THEN "Ended" ELSE @]
      BY <2>1, <2>3 DEF SaveComplete
    <3>2. pos[t] \in 1 .. Hops
      BY <2>1, <2>2, <2>3 DEF SaveComplete, CopiesCurrent, WaitsAtNode, At, Node
    <3>3. ASSUME NEW u \in Token, Waits(u)'
          PROVE  pos'[u] \in Node
      <4>1. CASE u = t
        <5>1. state'[t] = "WaitingAsync"
          BY <3>3, <4>1 DEF Waits
        <5>2. pos[t] # Hops
          BY <2>2, <3>1, <5>1 DEF TypeOK
        <5>3. pos'[t] = pos[t] + 1
          BY <2>2, <3>1 DEF TypeOK
        <5> QED
          BY <3>2, <4>1, <5>2, <5>3, AsyncAssumption DEF Node
      <4>2. CASE u # t
        BY <3>1, <3>3, <4>2 DEF WaitsAtNode, Waits, TypeOK
      <4> QED
        BY <4>1, <4>2
    <3> QED
      BY <3>3 DEF WaitsAtNode
  <2>4. CASE ~worker[w].fresh
    BY <2>1, <2>4 DEF SaveComplete, aggregate, WaitsAtNode, Waits
  <2> QED
    BY <2>3, <2>4
<1>2. CASE \E w \in Worker : SaveIncident(w)
  BY <1>2 DEF SaveIncident, WaitsAtNode, Waits, TypeOK
<1>3. CASE UNCHANGED aggregate
  BY <1>3 DEF aggregate, WaitsAtNode, Waits
<1> QED
  BY <1>1, <1>2, <1>3 DEF Next, Step, vars, aggregate, Acquire, Execute, DeleteRow,
     LoadToComplete, FlushJobs, FindRow, CountFailure, DeleteExhausted, DeadLetter,
     LoadToFail, Crash, Expire, OtherSave

-----------------------------------------------------------------------------
(* No job is lost. *)

\* Somebody has the job: a row, a dead letter, or a worker.
Safe(j) == j \in DOMAIN row \cup dead \/ InHand(j)

\* A worker's step takes a row away only into its own hands, and never takes a
\* dead letter away.
LEMMA TablesKept ==
  ASSUME TypeOK, CopiesCurrent, NEW w \in Worker, Step(w),
         NEW j \in DOMAIN row \cup dead
  PROVE  j \in DOMAIN row' \cup dead' \/ Holds(w, j)'
<1> USE DEF At
<1>1. CASE Acquire(w)
  BY <1>1 DEF Acquire
<1>2. CASE DeleteRow(w)
  <2>1. CASE Mine(w) \in DOMAIN row
    <3>1. DOMAIN row' = DOMAIN row \ {Mine(w)} /\ dead' = dead
      BY <1>2, <2>1, WithoutRows DEF DeleteRow, TypeOK
    <3>2. worker'[w].pc = "deleted" /\ Mine(w)' = Mine(w)
      BY <1>2, <2>1 DEF DeleteRow, TypeOK, Hand, Mine
    <3> QED
      BY <3>1, <3>2 DEF Holds
  <2> QED
    BY <1>2, <2>1 DEF DeleteRow
<1>3. CASE SaveComplete(w)
  <2>1. CASE worker[w].fresh
    BY <1>3, <2>1 DEF SaveComplete
  <2>2. CASE ~worker[w].fresh
    BY <1>3, <2>2 DEF SaveComplete, Upsert
  <2> QED
    BY <2>1, <2>2
<1>4. CASE FlushJobs(w)
  BY <1>4 DEF FlushJobs, Upsert
<1>5. CASE CountFailure(w)
  BY <1>5 DEF CountFailure
<1>6. CASE DeleteExhausted(w)
  <2>1. DOMAIN row' = DOMAIN row \ {Mine(w)} /\ dead' = dead
    BY <1>6, WithoutRows DEF DeleteExhausted, TypeOK
  <2>2. worker'[w].pc = "dead" /\ Mine(w)' = Mine(w)
    BY <1>6 DEF DeleteExhausted, Become, TypeOK, Hand, Mine
  <2> QED
    BY <2>1, <2>2 DEF Holds
<1>7. CASE DeadLetter(w)
  BY <1>7 DEF DeadLetter
<1>8. CASE Execute(w) \/ LoadToComplete(w) \/ FindRow(w) \/ LoadToFail(w) \/ SaveIncident(w)
  BY <1>8 DEF Execute, LoadToComplete, FindRow, LoadToFail, SaveIncident
<1> QED
  BY <1>1, <1>2, <1>3, <1>4, <1>5, <1>6, <1>7, <1>8 DEF Step

\* The worker that holds the job of a token that waits gives it up only to the
\* tables, unless it saves what the job was for.
LEMMA HandKept ==
  ASSUME TypeOK, CopiesCurrent, NEW w \in Worker, Step(w),
         NEW t \in Token, Waits(t), pos'[t] = pos[t], Holds(w, <<t, pos[t]>>)
  PROVE  Safe(<<t, pos[t]>>)'
<1> DEFINE j == <<t, pos[t]>>
<1> USE DEF At
<1>1. worker[w].pc \in {"deleted", "loaded", "dead"} => Mine(w) = j
  BY DEF Holds
<1>2. CASE LoadToComplete(w)
  <2>1. Mine(w) = j
    BY <1>1, <1>2 DEF LoadToComplete
  <2>2. worker'[w].pc = "loaded" /\ Mine(w)' = Mine(w)
    BY <1>2, <2>1 DEF LoadToComplete, TypeOK, Hand, Mine
  <2> QED
    BY <2>1, <2>2 DEF Holds, InHand, Safe
<1>3. CASE SaveComplete(w)
  <2>1. Mine(w) = j
    BY <1>1, <1>3 DEF SaveComplete
  <2>2. ~worker[w].fresh
    BY <1>3, <2>1 DEF SaveComplete, TypeOK
  <2>3. row' = Upsert(row, PutBack(w))
    BY <1>3, <2>2 DEF SaveComplete
  <2>4. j \in DOMAIN row'
    BY <2>1, <2>3 DEF Upsert, PutBack
  <2> QED
    BY <2>4 DEF Safe
<1>4. CASE FlushJobs(w)
  <2>1. j \in DOMAIN worker[w].seen
    BY <1>4 DEF FlushJobs, Holds
  <2>2. j \in DOMAIN row'
    BY <1>4, <2>1 DEF FlushJobs, Upsert
  <2> QED
    BY <2>2 DEF Safe
<1>5. CASE DeadLetter(w)
  <2>1. j \in dead'
    BY <1>1, <1>5 DEF DeadLetter
  <2> QED
    BY <2>1 DEF Safe
<1> QED
  BY <1>2, <1>3, <1>4, <1>5 DEF Holds, Step, Acquire, Execute, DeleteRow, FindRow,
     CountFailure, DeleteExhausted, LoadToFail, SaveIncident

\* A worker's step leaves no token waiting for nothing.
LEMMA WorkerRecovers ==
  ASSUME TypeOK, CopiesCurrent, WaitsAtNode, Recoverable, NEW w \in Worker, Step(w)
  PROVE  Recoverable'
<1> SUFFICES ASSUME NEW t \in Token, Waits(t)'
             PROVE  Safe(<<t, pos[t]>>)'
  BY DEF Recoverable, Safe
<1>1. CASE Waits(t) /\ pos'[t] = pos[t]
  <2>0. PICK j : j = <<t, pos[t]>>
    OBVIOUS
  <2>1. Safe(j)
    BY <1>1, <2>0 DEF Recoverable, Safe
  <2>2. CASE j \in DOMAIN row \cup dead
    <3>1. j \in DOMAIN row' \cup dead' \/ Holds(w, j)'
      BY <2>2, TablesKept
    <3> QED
      BY <1>1, <2>0, <3>1 DEF Safe, InHand
  <2>3. CASE InHand(j)
    <3>1. PICK v \in Worker : Holds(v, j)
      BY <2>3 DEF InHand
    <3>2. CASE v = w
      BY <1>1, <2>0, <3>1, <3>2, HandKept
    <3>3. CASE v # w
      <4>1. Holds(v, j)'
        BY <3>1, <3>3, OthersKept DEF Holds, Mine
      <4> QED
        BY <1>1, <2>0, <4>1 DEF Safe, InHand
    <3> QED
      BY <3>2, <3>3
  <2> QED
    BY <2>1, <2>2, <2>3 DEF Safe
<1>2. CASE ~(Waits(t) /\ pos'[t] = pos[t])
  <2>1. SaveComplete(w) /\ worker[w].fresh
    <3>1. Waits(t) \/ state' = state \/ SaveIncident(w) \/ (SaveComplete(w) /\ worker[w].fresh)
      BY DEF Step, aggregate, Acquire, Execute, DeleteRow, LoadToComplete, SaveComplete,
         FlushJobs, FindRow, CountFailure, DeleteExhausted, DeadLetter, LoadToFail
    <3>2. pos' = pos \/ (SaveComplete(w) /\ worker[w].fresh)
      BY DEF Step, aggregate, Acquire, Execute, DeleteRow, LoadToComplete, SaveComplete,
         FlushJobs, FindRow, CountFailure, DeleteExhausted, DeadLetter, LoadToFail,
         SaveIncident
    <3>3. SaveIncident(w) => Waits(t)
      BY DEF SaveIncident, Waits, TypeOK
    <3> QED
      BY <1>2, <3>1, <3>2, <3>3 DEF Waits
  <2> DEFINE u == Mine(w)[1]
  <2>2. /\ pos' = [pos EXCEPT ![u] = @ + 1]
        /\ state' = [state EXCEPT ![u] = IF pos[u] = Hops THEN "Ended" ELSE @]
        /\ worker' = Stale(Saved(w))
    BY <2>1 DEF SaveComplete, Saved
  <2>3. Mine(w) \in Job /\ u \in Token /\ Waits(u)
    BY <2>1 DEF SaveComplete, CopiesCurrent, At, Job
  <2>4. t = u
    BY <1>2, <2>2, <2>3 DEF Waits, TypeOK
  <2>5. pos'[u] = pos[u] + 1 /\ pos[u] + 1 \in Node
    <3>1. pos[u] \in 1 .. Hops
      BY <2>3 DEF WaitsAtNode, Node
    <3>2. pos[u] # Hops
      BY <2>2, <2>3, <2>4 DEF Waits, TypeOK
    <3>3. pos'[u] = pos[u] + 1
      BY <2>2, <2>3 DEF TypeOK
    <3> QED
      BY <3>1, <3>2, <3>3, AsyncAssumption DEF Node
  <2>6. Saved(w) \in [Worker -> Hand]
    BY <2>3, SavedTyped
  <2>7. worker'[w].pc = "saved" /\ worker'[w].seen = Saved(w)[w].seen
    BY <2>2, <2>6, StaleKeeps DEF Saved, TypeOK, Hand
  <2>8. <<u, pos[u] + 1>> \in DOMAIN Saved(w)[w].seen
    <3>1. Saved(w)[w].seen = Upsert(worker[w].seen, Parked(u, pos[u] + 1))
      BY DEF Saved, TypeOK, Hand
    <3>2. <<u, pos[u] + 1>> \in DOMAIN Parked(u, pos[u] + 1)
      BY <2>3, <2>5, ParkedRows
    <3> QED
      BY <3>1, <3>2 DEF Upsert
  <2>9. <<t, pos'[t]>> \in DOMAIN worker'[w].seen
    BY <2>4, <2>5, <2>7, <2>8
  <2>10. Holds(w, <<t, pos[t]>>)'
    BY <2>7, <2>9 DEF Holds
  <2> QED
    BY <2>10 DEF Safe, InHand
<1> QED
  BY <1>1, <1>2

\* Nor does anything else, when no worker dies with a job in hand.
LEMMA RecoverableStep ==
  ASSUME SafeCrashes, TypeOK, CopiesCurrent, WaitsAtNode, Recoverable, [Next]_vars
  PROVE  Recoverable'
<1>1. CASE \E w \in Worker : Step(w)
  BY <1>1, WorkerRecovers
<1>2. CASE \E w \in Worker : Crash(w)
  <2>1. PICK w \in Worker : Crash(w)
    BY <1>2
  <2>2. \A j : ~Holds(w, j)
    BY <2>1 DEF Crash, Holds, SafeCrashes
  <2>3. ASSUME NEW j, InHand(j) PROVE InHand(j)'
    <3>1. PICK v \in Worker \ {w} : Holds(v, j)
      BY <2>2, <2>3 DEF InHand
    <3> QED
      BY <2>1, <3>1, OthersKept DEF InHand, Holds, Mine
  <2> QED
    BY <2>1, <2>3 DEF Crash, aggregate, Recoverable, Waits
<1>3. CASE (\E j \in DOMAIN row : Expire(j)) \/ UNCHANGED vars
  BY <1>3 DEF Expire, vars, aggregate, Recoverable, Waits, InHand, Holds, Mine
<1>4. CASE OtherSave
  <2>1. ASSUME NEW j, InHand(j) PROVE InHand(j)'
    BY <1>4, <2>1, StaleKeeps DEF OtherSave, TypeOK, InHand, Holds, Mine
  <2> QED
    BY <1>4, <2>1 DEF OtherSave, aggregate, Recoverable, Waits
<1> QED
  BY <1>1, <1>2, <1>3, <1>4 DEF Next

-----------------------------------------------------------------------------

\* Every behaviour of the job table, its workers and the tokens that wait for
\* them is made of the values the model declares, wherever workers die:
\* upsert_async_job, complete_async_job and fail_async_job leave no row
\* of a job that does not exist and no token past the end.
THEOREM JobTypes == Spec => []TypeOK
<1> DEFINE Inv == TypeOK /\ CopiesCurrent /\ WaitsAtNode
<1>1. Init => Inv
  BY InitTyped, AsyncAssumption DEF Init, Free, CopiesCurrent, WaitsAtNode, Node
<1>2. Inv /\ [Next]_vars => Inv'
  BY TypeStep, CopiesStep, PlacesStep
<1> QED
  BY <1>1, <1>2, PTL DEF Spec

\* No job is lost: as long as no worker dies between its DELETE and the write
\* that answers it, a token that waits has a row, a dead letter or a worker
\* about to decide, for any number of workers, tokens and retries, however
\* often leases run out under a busy worker and saves conflict.
THEOREM NoJobLost ==
  ASSUME SafeCrashes
  PROVE  Spec => []Recoverable
<1>1. Init => IInv
  <2> SUFFICES ASSUME Init PROVE IInv
    OBVIOUS
  <2>1. Recoverable
    BY DEF Init, Recoverable
  <2> QED
    BY <2>1, InitTyped, AsyncAssumption
    DEF IInv, Init, Free, CopiesCurrent, WaitsAtNode, Node
<1>2. IInv /\ [Next]_vars => IInv'
  BY SafeCrashes, TypeStep, CopiesStep, PlacesStep, RecoverableStep DEF IInv
<1>3. IInv => Recoverable
  BY DEF IInv
<1> QED
  BY <1>1, <1>2, <1>3, PTL DEF Spec

-----------------------------------------------------------------------------
(* A single token, for any number of workers, service tasks, retries and   *)
(* faults, and wherever workers die: its delegates run in order, and a     *)
(* completed job stays gone.                                               *)
(*                                                                         *)
(* complete_async_job and upsert_async_job are not tied together by a      *)
(* transaction or a version.  With one token they need none: the DELETE    *)
(* has one winner, who is alone with the only job there is until it has    *)
(* written the next.  With two tokens the other one's job is in the copy   *)
(* too, and the argument (and CompletedGone) fails.                        *)

SingleToken == \A t, u \in Token : t = u

\* A worker between its DELETE and the write that answers it.
Busy(w) == worker[w].pc \in {"deleted", "loaded", "saved"}

\* It is alone: there is no row, and nobody else is busy.
Alone == \A w \in Worker : Busy(w) => DOMAIN row = {} /\ \A v \in Worker : Busy(v) => v = w

\* The job it has is that of the node the token is at, and its delegate has
\* succeeded; what it will write is the job of the node the token is at then.
InOrder ==
  \A w \in Worker :
    /\ worker[w].pc \in {"ran", "deleted", "loaded"} => Mine(w) \in ran
    /\ worker[w].pc \in {"deleted", "loaded"} => pos[Mine(w)[1]] = Mine(w)[2]
    /\ worker[w].pc = "loaded" => DOMAIN worker[w].seen = {}
    /\ worker[w].pc = "saved" => \A j \in DOMAIN worker[w].seen : pos[j[1]] = j[2]

Rest == CompletedGone /\ Alone /\ InOrder /\ OnlyByDelegate
SInv == TypeOK /\ CopiesCurrent /\ WaitsAtNode /\ Rest

-----------------------------------------------------------------------------

\* What the other workers hold does not change by itself.
SameHand(v) ==
  worker'[v].pc = worker[v].pc /\ Mine(v)' = Mine(v) /\ worker'[v].seen = worker[v].seen

\* A step that moves no token, adds no row, and leaves its worker with nothing
\* it must write keeps everything.
LEMMA QuietKeeps ==
  ASSUME Rest, NEW W \in SUBSET Worker,
         \A v \in Worker \ W : SameHand(v),
         \A w \in W : ~Busy(w)' /\ (worker'[w].pc = "ran" => Mine(w)' \in ran'),
         pos' = pos, DOMAIN row' \subseteq DOMAIN row, ran \subseteq ran'
  PROVE  Rest'
<1>1. CompletedGone'
  BY DEF Rest, CompletedGone
<1>2. Alone'
  <2>1. \A w \in Worker : Busy(w)' => Busy(w)
    BY DEF Busy, SameHand
  <2> QED
    BY <2>1 DEF Rest, Alone
<1>3. InOrder'
  <2> SUFFICES ASSUME NEW w \in Worker
               PROVE  /\ worker'[w].pc \in {"ran", "deleted", "loaded"} => Mine(w)' \in ran'
                      /\ worker'[w].pc \in {"deleted", "loaded"}
                           => pos'[Mine(w)'[1]] = Mine(w)'[2]
                      /\ worker'[w].pc = "loaded" => DOMAIN worker'[w].seen = {}
                      /\ worker'[w].pc = "saved"
                           => \A j \in DOMAIN worker'[w].seen : pos'[j[1]] = j[2]
    BY DEF InOrder
  <2>1. CASE w \in W
    BY <2>1 DEF Busy
  <2>2. CASE w \notin W
    <3>1. SameHand(w)
      BY <2>2
    <3> QED
      BY <3>1 DEF SameHand, Rest, InOrder
  <2> QED
    BY <2>1, <2>2
<1>4. OnlyByDelegate'
  BY DEF Rest, OnlyByDelegate
<1> QED
  BY <1>1, <1>2, <1>3, <1>4 DEF Rest

\* The quiet steps of a worker.
LEMMA QuietSteps ==
  ASSUME TypeOK, CopiesCurrent, Rest, NEW w \in Worker,
         \/ Acquire(w) \/ Execute(w) \/ FindRow(w) \/ CountFailure(w) \/ DeleteExhausted(w)
         \/ DeadLetter(w) \/ LoadToFail(w) \/ SaveIncident(w) \/ Crash(w)
  PROVE  Rest'
<1>1. \A v \in Worker \ {w} : SameHand(v)
  BY OthersKept DEF SameHand, Mine, Step
<1>2. pos' = pos
  BY DEF Acquire, Execute, FindRow, CountFailure, DeleteExhausted, DeadLetter, LoadToFail,
     SaveIncident, Crash, aggregate
<1>3. DOMAIN row' \subseteq DOMAIN row
  <2>1. DOMAIN Without(row, Mine(w)) \subseteq DOMAIN row
    BY WithoutRows DEF TypeOK
  <2> QED
    BY <2>1 DEF Acquire, Execute, FindRow, CountFailure, DeleteExhausted, DeadLetter,
       LoadToFail, SaveIncident, Crash
<1>4. ran \subseteq ran'
  BY DEF Acquire, Execute, FindRow, CountFailure, DeleteExhausted, DeadLetter, LoadToFail,
     SaveIncident, Crash
<1>5. ~Busy(w)' /\ (worker'[w].pc = "ran" => Mine(w)' \in ran')
  <2>1. CASE Acquire(w)
    BY <2>1 DEF Acquire, Busy, TypeOK, Free
  <2>2. CASE Execute(w)
    <3>1. PICK j \in worker[w].batch, answer \in {"ran", "failing"} :
            /\ worker' = [worker EXCEPT ![w].pc = answer, ![w].job = j, ![w].batch = @ \ {j}]
            /\ ran' = IF answer = "ran" THEN ran \cup {j} ELSE ran
      BY <2>2 DEF Execute
    <3>2. worker'[w].pc = answer /\ Mine(w)' = j
      BY <3>1 DEF TypeOK, Hand, Mine
    <3> QED
      BY <3>1, <3>2 DEF Busy
  <2>3. CASE FindRow(w) \/ CountFailure(w) \/ DeleteExhausted(w) \/ DeadLetter(w)
    <3>1. PICK pc \in {"counting", "exhausted", "dead", "deadLoad"} :
            worker' = NextJob(w) \/ worker' = Become(w, pc)
      BY <2>3 DEF FindRow, CountFailure, DeleteExhausted, DeadLetter
    <3>2. worker' = Become(w, pc) => worker'[w].pc = pc
      BY DEF Become, TypeOK, Hand
    <3> QED
      BY <3>1, <3>2, HandDropped DEF Busy
  <2>4. CASE LoadToFail(w)
    <3>1. worker'[w].pc = "deadLoaded" \/ worker' = NextJob(w)
      BY <2>4 DEF LoadToFail, TypeOK, Hand
    <3> QED
      BY <3>1, HandDropped DEF Busy
  <2>5. CASE SaveIncident(w)
    <3>1. worker' = Stale(NextJob(w)) \/ worker' = NextJob(w)
      BY <2>5 DEF SaveIncident
    <3> QED
      BY <3>1, HandDropped, NextJobTyped, StaleKeeps DEF Busy
  <2>6. CASE Crash(w)
    BY <2>6, HandDropped DEF Crash, Busy
  <2> QED
    BY <2>1, <2>2, <2>3, <2>4, <2>5, <2>6
<1> QED
  <2>1. \A v \in {w} : ~Busy(v)' /\ (worker'[v].pc = "ran" => Mine(v)' \in ran')
    BY <1>5 DEF Busy, Mine
  <2>2. PICK W \in SUBSET Worker : W = {w}
    OBVIOUS
  <2> QED
    BY <1>1, <1>2, <1>3, <1>4, <2>1, <2>2, QuietKeeps

-----------------------------------------------------------------------------
(* The steps of complete_async_job. *)

\* The DELETE has one winner.
LEMMA DeleteKeeps ==
  ASSUME SingleToken, TypeOK, CopiesCurrent, Rest, NEW w \in Worker, DeleteRow(w)
  PROVE  Rest'
<1> DEFINE j == Mine(w)
<1>1. \A v \in Worker \ {w} : SameHand(v)
  BY OthersKept DEF SameHand, Mine, Step
<1>2. pos' = pos /\ ran' = ran
  BY DEF DeleteRow, aggregate
<1>3. CASE j \in DOMAIN row
  <2>1. DOMAIN row' = DOMAIN row \ {j}
    BY <1>3, WithoutRows DEF DeleteRow, TypeOK
  <2>2. worker'[w].pc = "deleted" /\ Mine(w)' = j
    BY <1>3 DEF DeleteRow, TypeOK, Hand, Mine
  <2>3. \A v \in Worker : ~Busy(v)
    BY <1>3 DEF Rest, Alone
  <2>4. DOMAIN row' = {}
    <3>1. \A i \in DOMAIN row : i = j
      <4>1. \A i \in DOMAIN row : i \in Token \X Node
        BY RowsAre DEF TypeOK, Job
      <4>2. \A i \in DOMAIN row : i = <<i[1], i[2]>> /\ i[1] \in Token
        BY <4>1
      <4>3. \A i \in DOMAIN row : i[1] = j[1] /\ i[2] = j[2]
        BY <1>3, <4>2 DEF SingleToken, Rest, CompletedGone
      <4> QED
        BY <1>3, <4>2, <4>3
    <3> QED
      BY <2>1, <3>1
  <2>5. \A v \in Worker : Busy(v)' => v = w
    BY <1>1, <2>3 DEF SameHand, Busy
  <2>6. j \in ran /\ pos[j[1]] = j[2]
    BY <1>3 DEF Rest, CompletedGone, InOrder, DeleteRow, At
  <2>7. InOrder'
    BY <1>1, <1>2, <2>2, <2>5, <2>6 DEF Rest, InOrder, SameHand, Busy
  <2> QED
    BY <1>2, <2>1, <2>4, <2>5, <2>7 DEF Rest, Alone, CompletedGone, OnlyByDelegate
<1>4. CASE j \notin DOMAIN row
  <2>1. row' = row /\ worker'[w].pc \in {"idle", "batch"}
    BY <1>4, HandDropped DEF DeleteRow
  <2>2. \A v \in {w} : ~Busy(v)' /\ (worker'[v].pc = "ran" => Mine(v)' \in ran')
    BY <2>1 DEF Busy
  <2>3. PICK W \in SUBSET Worker : W = {w}
    OBVIOUS
  <2> QED
    BY <1>1, <1>2, <2>1, <2>2, <2>3, QuietKeeps
<1> QED
  BY <1>3, <1>4

\* There is no other job to load.
LEMMA LoadKeeps ==
  ASSUME TypeOK, CopiesCurrent, Rest, NEW w \in Worker, LoadToComplete(w)
  PROVE  Rest'
<1>1. \A v \in Worker \ {w} : SameHand(v)
  BY OthersKept DEF SameHand, Mine, Step
<1>2. pos' = pos /\ ran' = ran /\ row' = row
  BY DEF LoadToComplete, aggregate
<1>3. CASE Waits(Mine(w)[1])
  <2>1. worker'[w].pc = "loaded" /\ Mine(w)' = Mine(w) /\ worker'[w].seen = OtherRows(w)
    BY <1>3 DEF LoadToComplete, TypeOK, Hand, Mine
  <2>2. DOMAIN row = {}
    BY DEF LoadToComplete, At, Rest, Alone, Busy
  <2>3. DOMAIN OtherRows(w) = {}
    BY <2>2, WithoutRows DEF OtherRows, TypeOK
  <2>4. \A v \in Worker : Busy(v)' => v = w
    BY <1>1 DEF SameHand, Busy, LoadToComplete, At, Rest, Alone
  <2>5. Mine(w) \in ran /\ pos[Mine(w)[1]] = Mine(w)[2]
    BY DEF LoadToComplete, At, Rest, InOrder
  <2>6. InOrder'
    BY <1>1, <1>2, <2>1, <2>3, <2>4, <2>5 DEF Rest, InOrder, SameHand, Busy
  <2> QED
    BY <1>2, <2>2, <2>4, <2>6 DEF Rest, Alone, CompletedGone, OnlyByDelegate
<1>4. CASE ~Waits(Mine(w)[1])
  <2>1. worker'[w].pc = "idle"
    BY <1>4, HandDropped DEF LoadToComplete
  <2>2. \A v \in {w} : ~Busy(v)' /\ (worker'[v].pc = "ran" => Mine(v)' \in ran')
    BY <2>1 DEF Busy
  <2>3. PICK W \in SUBSET Worker : W = {w}
    OBVIOUS
  <2> QED
    BY <1>1, <1>2, <2>2, <2>3, QuietKeeps
<1> QED
  BY <1>3, <1>4

\* The save moves the token past the node whose delegate has run; a conflict
\* puts back the job of the node the token is still at.
LEMMA SaveKeeps ==
  ASSUME SingleToken, TypeOK, CopiesCurrent, WaitsAtNode, Rest, NEW w \in Worker,
         SaveComplete(w)
  PROVE  Rest'
<1> DEFINE t == Mine(w)[1]
<1>1. \A v \in Worker \ {w} : SameHand(v)
  BY OthersKept DEF SameHand, Mine, Step
<1>2. /\ DOMAIN row = {} /\ (\A v \in Worker : Busy(v) => v = w)
      /\ Mine(w) \in ran /\ pos[t] = Mine(w)[2] /\ DOMAIN worker[w].seen = {}
  BY DEF SaveComplete, At, Rest, Alone, InOrder, Busy
<1>3. \A v \in Worker : Busy(v)' => v = w
  BY <1>1, <1>2 DEF SameHand, Busy
<1>4. Mine(w) \in Job /\ t \in Token /\ Mine(w) = <<t, pos[t]>>
  BY <1>2 DEF SaveComplete, At, CopiesCurrent, Job
<1>5. ran' = ran
  BY DEF SaveComplete
<1>6. CASE worker[w].fresh
  <2>1. /\ pos' = [pos EXCEPT ![t] = @ + 1] /\ row' = row
        /\ worker' = Stale(Saved(w))
    BY <1>6 DEF SaveComplete, Saved
  <2>2. Saved(w) \in [Worker -> Hand]
    BY <1>4, SavedTyped
  <2>3. worker'[w].pc = "saved" /\ worker'[w].seen = Saved(w)[w].seen
    BY <2>1, <2>2, StaleKeeps DEF Saved, TypeOK, Hand
  <2>4. Saved(w)[w].seen = Upsert(worker[w].seen, Parked(t, pos[t] + 1))
    BY DEF Saved, TypeOK, Hand
  <2>5. \A j \in DOMAIN worker'[w].seen : j[1] = t /\ j[2] = pos[t] + 1
    BY <1>2, <2>3, <2>4 DEF Upsert, Parked
  <2>6. pos'[t] = pos[t] + 1
    BY <1>4, <2>1 DEF TypeOK
  <2>7. InOrder'
    <3>1. \A j \in DOMAIN worker'[w].seen : pos'[j[1]] = j[2]
      BY <2>5, <2>6
    <3> QED
      BY <1>1, <1>3, <1>5, <2>3, <3>1 DEF Rest, InOrder, SameHand, Busy
  <2>8. OnlyByDelegate'
    <3> SUFFICES ASSUME NEW u \in Token, NEW n \in Node, pos'[u] > n
                 PROVE  <<u, n>> \in ran
      BY <1>5 DEF OnlyByDelegate
    <3>1. u = t
      BY <1>4 DEF SingleToken
    <3>2. pos[t] \in Int /\ n \in Int
      BY <1>4 DEF TypeOK, Node
    <3>3. n < pos[t] \/ n = pos[t]
      BY <2>6, <3>1, <3>2
    <3> QED
      BY <1>2, <1>4, <3>1, <3>3 DEF Rest, OnlyByDelegate
  <2> QED
    BY <1>2, <1>3, <2>1, <2>7, <2>8 DEF Rest, Alone, CompletedGone
<1>7. CASE ~worker[w].fresh
  <2>1. row' = Upsert(row, PutBack(w)) /\ worker' = Abandon(w) /\ pos' = pos
    BY <1>7 DEF SaveComplete, aggregate
  <2>2. \A j \in DOMAIN row' : j = <<t, pos[t]>>
    BY <1>2, <1>4, <2>1 DEF Upsert, PutBack
  <2>3. worker'[w].pc = "idle"
    BY <2>1, HandDropped
  <2>4. \A v \in Worker : ~Busy(v)'
    BY <1>3, <2>3 DEF Busy
  <2>5. InOrder'
    BY <1>1, <1>5, <2>1, <2>3 DEF Rest, InOrder, SameHand
  <2> QED
    BY <1>5, <2>1, <2>2, <2>4, <2>5 DEF Rest, Alone, CompletedGone, OnlyByDelegate
<1> QED
  BY <1>6, <1>7

\* The flush writes the next job and nothing else.
LEMMA FlushKeeps ==
  ASSUME TypeOK, CopiesCurrent, Rest, NEW w \in Worker, FlushJobs(w)
  PROVE  Rest'
<1>1. \A v \in Worker \ {w} : SameHand(v)
  BY OthersKept DEF SameHand, Mine, Step
<1>2. pos' = pos /\ ran' = ran /\ row' = Upsert(row, worker[w].seen)
  BY DEF FlushJobs, aggregate
<1>3. /\ DOMAIN row = {} /\ (\A v \in Worker : Busy(v) => v = w)
      /\ \A j \in DOMAIN worker[w].seen : pos[j[1]] = j[2]
  BY DEF FlushJobs, At, Rest, Alone, InOrder, Busy
<1>4. worker'[w].pc \in {"idle", "batch"}
  BY HandDropped DEF FlushJobs
<1>5. \A v \in Worker : ~Busy(v)'
  BY <1>1, <1>3, <1>4 DEF SameHand, Busy
<1>6. DOMAIN row' = DOMAIN worker[w].seen
  BY <1>2, <1>3 DEF Upsert
<1>7. InOrder'
  BY <1>1, <1>2, <1>4 DEF Rest, InOrder, SameHand
<1> QED
  BY <1>2, <1>3, <1>5, <1>6, <1>7 DEF Rest, Alone, CompletedGone, OnlyByDelegate

-----------------------------------------------------------------------------

\* Every step keeps the delegates of one token in order.
LEMMA RestStep ==
  ASSUME SingleToken, TypeOK, CopiesCurrent, WaitsAtNode, Rest, [Next]_vars
  PROVE  Rest'
<1>1. CASE \E w \in Worker : Step(w) \/ Crash(w)
  BY <1>1, QuietSteps, DeleteKeeps, LoadKeeps, SaveKeeps, FlushKeeps DEF Step
<1>2. CASE (\E j \in DOMAIN row : Expire(j)) \/ OtherSave \/ UNCHANGED vars
  <2>1. \A v \in Worker : SameHand(v)
    <3>1. CASE OtherSave
      BY <3>1, StaleKeeps DEF OtherSave, TypeOK, SameHand, Mine
    <3>2. CASE (\E j \in DOMAIN row : Expire(j)) \/ UNCHANGED vars
      BY <3>2 DEF Expire, vars, SameHand, Mine
    <3> QED
      BY <1>2, <3>1, <3>2
  <2>2. pos' = pos /\ DOMAIN row' = DOMAIN row /\ ran' = ran
    BY <1>2 DEF Expire, OtherSave, vars, aggregate
  <2>3. PICK W \in SUBSET Worker : W = {}
    OBVIOUS
  <2> QED
    BY <2>1, <2>2, <2>3, QuietKeeps
<1> QED
  BY <1>1, <1>2 DEF Next

\* One token alone: what one call of the engine does is done in order.
LEMMA SingleInvariance ==
  ASSUME SingleToken
  PROVE  Spec => []SInv
<1>1. Init => SInv
  <2> SUFFICES ASSUME Init PROVE SInv
    OBVIOUS
  <2>1. CompletedGone /\ OnlyByDelegate
    BY AsyncAssumption DEF Init, CompletedGone, OnlyByDelegate, Node
  <2>2. Alone /\ InOrder
    BY DEF Init, Free, Alone, InOrder, Busy
  <2> QED
    BY <2>1, <2>2, InitTyped, AsyncAssumption
    DEF SInv, Rest, Init, Free, CopiesCurrent, WaitsAtNode, Node
<1>2. SInv /\ [Next]_vars => SInv'
  BY SingleToken, TypeStep, CopiesStep, PlacesStep, RestStep DEF SInv
<1> QED
  BY <1>1, <1>2, PTL DEF Spec

\* A token alone in its instance gets past a service task only by that task's
\* delegate, and one after the other, although complete_async_job deletes by
\* id and asks only whether the token waits; wherever workers die.
THEOREM DelegatesInOrder ==
  ASSUME SingleToken
  PROVE  Spec => []OnlyByDelegate
<1>1. SInv => OnlyByDelegate
  BY DEF SInv, Rest
<1> QED
  BY <1>1, SingleInvariance, PTL

\* With one token flush_pending_async_jobs writes no completed job back, so no
\* delegate runs again after its token has moved on; wherever workers die.
THEOREM CompletedStaysGone ==
  ASSUME SingleToken
  PROVE  Spec => []CompletedGone
<1>1. SInv => CompletedGone
  BY DEF SInv, Rest
<1> QED
  BY <1>1, SingleInvariance, PTL
=============================================================================
