----------------------------- MODULE AsyncJobs -----------------------------
(***************************************************************************)
(* The asynchronous service tasks of one instance: the job table, the      *)
(* workers that lease its rows (run_async_jobs), and the two ways a job    *)
(* ends, Engine::complete_async_job and Engine::fail_async_job, one action *)
(* for each statement another worker may come between.                     *)
(*                                                                         *)
(* Each token of the instance passes the async service tasks 1 .. Hops and *)
(* is then done.  Its job at node n is one row, <token, n>.                *)
(*                                                                         *)
(* A save succeeds when nothing was saved since the load: `fresh` of a     *)
(* worker says so, and stands for the version SnapshotStore compares.      *)
(* Nothing is assumed about how long a delegate runs, so a lease may run   *)
(* out under a worker that is still busy.  Bound: Faults, the number of    *)
(* crashes and of saves by others that may come in between.                *)
(***************************************************************************)
EXTENDS Integers, FiniteSets, Functions

CONSTANTS Worker, Token, Hops, MaxRetries,
          CrashPoints,   \* where a worker may die
          Faults,
          Nobody

ASSUME AsyncAssumption ==
  /\ Hops \in Nat \ {0}
  /\ MaxRetries \in Nat \ {0}
  /\ Faults \in Nat
  /\ Nobody \notin Worker

VARIABLES
  pos,      \* pos[t]: the node token t is at, Hops + 1 when it is through
  state,    \* state[t]: its state
  row,      \* cmx_flow_async_job: job -> lease
  dead,     \* cmx_flow_deadletter_job
  worker,   \* worker[w]: what w has in hand
  ran,      \* the jobs whose delegate has succeeded (history)
  fault     \* faults so far

vars == <<pos, state, row, dead, worker, ran, fault>>
aggregate == <<pos, state>>

Node == 1 .. Hops
Job == Token \X Node
Lease == [retries : 0 .. MaxRetries, owner : Worker \cup {Nobody}, over : BOOLEAN]
NewRow == [retries |-> MaxRetries, owner |-> Nobody, over |-> FALSE]

PC == {"idle", "batch", "ran", "deleted", "loaded", "saved",
       "failing", "counting", "exhausted", "dead", "deadLoad", "deadLoaded"}
NoJob == <<Nobody, 0>>
NoRows == [j \in {} |-> NewRow]
Free == [pc |-> "idle", batch |-> {}, job |-> NoJob, lease |-> NewRow, fresh |-> FALSE,
         seen |-> NoRows]

\* A table of jobs: a partial function.
Rows == UNION {[jobs -> Lease] : jobs \in SUBSET Job}

Hand == [pc : PC, batch : SUBSET Job, job : Job \cup {NoJob}, lease : Lease,
         fresh : BOOLEAN, seen : Rows]

TypeOK ==
  /\ pos \in [Token -> 1 .. Hops + 1]
  /\ state \in [Token -> {"WaitingAsync", "Incident", "Ended"}]
  /\ row \in Rows
  /\ dead \subseteq Job
  /\ worker \in [Worker -> Hand]
  /\ ran \subseteq Job
  /\ fault \in 0 .. Faults

\* start_process_inner has parked every token and written its job.
Init ==
  /\ pos = [t \in Token |-> 1]
  /\ state = [t \in Token |-> "WaitingAsync"]
  /\ row = [j \in Token \X {1} |-> NewRow]
  /\ dead = {}
  /\ worker = [w \in Worker |-> Free]
  /\ ran = {}
  /\ fault = 0

At(w, pc) == worker[w].pc = pc
Mine(w) == worker[w].job
Waits(t) == state[t] = "WaitingAsync"

Become(w, pc) == [worker EXCEPT ![w].pc = pc]
\* The worker goes on with the next job of its batch.
NextJob(w) ==
  [worker EXCEPT ![w] = [Free EXCEPT !.pc = IF worker[w].batch = {} THEN "idle" ELSE "batch",
                                     !.batch = worker[w].batch]]
\* `?` leaves run_async_jobs: the rest of the batch stays leased.
Abandon(w) == [worker EXCEPT ![w] = Free]
\* w has saved the aggregate: every copy loaded before is stale.
Stale(after) == [v \in Worker |-> [after[v] EXCEPT !.fresh = FALSE]]

\* upsert_async_job: ON CONFLICT DO NOTHING.
Upsert(rows, more) ==
  [j \in DOMAIN rows \cup DOMAIN more |-> IF j \in DOMAIN rows THEN rows[j] ELSE more[j]]
Without(rows, j) == Restrict(rows, DOMAIN rows \ {j})

-----------------------------------------------------------------------------
(* run_async_jobs *)

Takeable_Unleased(j) == row[j].owner = Nobody   \* mutant
Takeable(j) == row[j].owner = Nobody \/ row[j].over

\* acquire_async_jobs: every row that is free or whose lease is over, in one
\* statement; rows another worker holds are skipped.
Acquire(w) ==
  LET got == {j \in DOMAIN row : Takeable(j)}
  IN  /\ At(w, "idle")
      /\ got # {}
      /\ row' = [j \in DOMAIN row |->
                   IF j \in got THEN [row[j] EXCEPT !.owner = w, !.over = FALSE] ELSE row[j]]
      /\ worker' = [worker EXCEPT ![w] = [Free EXCEPT !.pc = "batch", !.batch = got]]
      /\ UNCHANGED <<aggregate, dead, ran, fault>>

\* The delegate of the next job runs.
Execute(w) ==
  /\ At(w, "batch")
  /\ \E j \in worker[w].batch, answer \in {"ran", "failing"} :
       /\ worker' = [worker EXCEPT ![w].pc = answer, ![w].job = j, ![w].batch = @ \ {j}]
       /\ ran' = IF answer = "ran" THEN ran \cup {j} ELSE ran
  /\ UNCHANGED <<aggregate, row, dead, fault>>

-----------------------------------------------------------------------------
(* Engine::complete_async_job *)

\* Mutant: the answer of the DELETE is not looked at.
DeleteRow_Blind(w) ==
  /\ At(w, "ran")
  /\ row' = Without(row, Mine(w))
  /\ worker' = [worker EXCEPT ![w].pc = "deleted"]
  /\ UNCHANGED <<aggregate, dead, ran, fault>>

\* DELETE ... RETURNING, by id alone.  No row: somebody else completed it.
DeleteRow(w) ==
  /\ At(w, "ran")
  /\ IF Mine(w) \in DOMAIN row
     THEN /\ row' = Without(row, Mine(w))
          /\ worker' = [worker EXCEPT ![w].pc = "deleted", ![w].lease = row[Mine(w)]]
     ELSE row' = row /\ worker' = NextJob(w)
  /\ UNCHANGED <<aggregate, dead, ran, fault>>

\* What a snapshot loaded by w holds as async_jobs, without the job of w.
OtherRows(w) == Without(row, Mine(w))

\* The token has to wait for a job; for which one is not asked.
LoadToComplete(w) ==
  /\ At(w, "deleted")
  /\ worker' = IF Waits(Mine(w)[1])
               THEN [worker EXCEPT ![w].pc = "loaded", ![w].fresh = TRUE,
                                   ![w].seen = OtherRows(w)]
               ELSE Abandon(w)
  /\ UNCHANGED <<aggregate, row, dead, ran, fault>>

PutBack_Nothing(w) == NoRows   \* mutant

\* The row that is put back after a conflict keeps its lease.
PutBack(w) == [j \in {Mine(w)} |-> worker[w].lease]

\* The job of a token that has just parked at node n.
Parked(t, n) == [j \in {t} \X ({n} \cap Node) |-> NewRow]

\* The token leaves the node it is at.  After a conflict the row comes back and
\* the call fails, which ends the batch.
SaveComplete(w) ==
  LET t == Mine(w)[1]
  IN  /\ At(w, "loaded")
      /\ IF worker[w].fresh
         THEN /\ pos' = [pos EXCEPT ![t] = @ + 1]
              /\ state' = [state EXCEPT ![t] = IF pos[t] = Hops THEN "Ended" ELSE @]
              /\ worker' = Stale([worker EXCEPT
                             ![w].pc = "saved",
                             ![w].seen = Upsert(@, Parked(t, pos[t] + 1))])
              /\ row' = row
         ELSE /\ row' = Upsert(row, PutBack(w))
              /\ worker' = Abandon(w)
              /\ UNCHANGED aggregate
      /\ UNCHANGED <<dead, ran, fault>>

\* flush_pending_async_jobs: the token's new job, and every job the snapshot
\* was loaded with.
FlushJobs(w) ==
  /\ At(w, "saved")
  /\ row' = Upsert(row, worker[w].seen)
  /\ worker' = NextJob(w)
  /\ UNCHANGED <<aggregate, dead, ran, fault>>

-----------------------------------------------------------------------------
(* Engine::fail_async_job *)

\* get_async_job: without a row there is nothing to fail.
FindRow(w) ==
  /\ At(w, "failing")
  /\ worker' = IF Mine(w) \in DOMAIN row THEN Become(w, "counting") ELSE NextJob(w)
  /\ UNCHANGED <<aggregate, row, dead, ran, fault>>

\* UPDATE ... RETURNING retries: one less, and the lease is given up, whoever
\* holds it by now.  A row that is gone counts as one without retries.  Below
\* 0 the code tells no difference, so 0 stands for that too.
Counted_Kept(lease) == [lease EXCEPT !.owner = Nobody]   \* mutant
Counted(lease) ==
  [retries |-> IF lease.retries = 0 THEN 0 ELSE lease.retries - 1,
   owner |-> Nobody, over |-> FALSE]
CountFailure(w) ==
  /\ At(w, "counting")
  /\ IF Mine(w) \in DOMAIN row
     THEN /\ row' = [row EXCEPT ![Mine(w)] = Counted(@)]
          /\ worker' = IF row'[Mine(w)].retries = 0 THEN Become(w, "exhausted")
                       ELSE NextJob(w)
     ELSE row' = row /\ worker' = Become(w, "dead")
  /\ UNCHANGED <<aggregate, dead, ran, fault>>

DeleteExhausted(w) ==
  /\ At(w, "exhausted")
  /\ row' = Without(row, Mine(w))
  /\ worker' = Become(w, "dead")
  /\ UNCHANGED <<aggregate, dead, ran, fault>>

DeadLetter(w) ==
  /\ At(w, "dead")
  /\ dead' = dead \cup {Mine(w)}
  /\ worker' = Become(w, "deadLoad")
  /\ UNCHANGED <<aggregate, row, ran, fault>>

LoadToFail(w) ==
  /\ At(w, "deadLoad")
  /\ worker' = IF Waits(Mine(w)[1])
               THEN [worker EXCEPT ![w].pc = "deadLoaded", ![w].fresh = TRUE]
               ELSE NextJob(w)
  /\ UNCHANGED <<aggregate, row, dead, ran, fault>>

\* A conflict is only logged: the token keeps waiting, the dead letter is left.
SaveIncident(w) ==
  /\ At(w, "deadLoaded")
  /\ IF worker[w].fresh
     THEN /\ state' = [state EXCEPT ![Mine(w)[1]] = "Incident"]
          /\ worker' = Stale(NextJob(w))
     ELSE state' = state /\ worker' = NextJob(w)
  /\ UNCHANGED <<pos, row, dead, ran, fault>>

-----------------------------------------------------------------------------
(* Time, faults, and the other calls on the instance. *)

\* LOCK_SECS have passed.
Expire(j) ==
  /\ j \in DOMAIN row
  /\ row[j].owner # Nobody /\ ~row[j].over
  /\ row' = [row EXCEPT ![j].over = TRUE]
  /\ UNCHANGED <<aggregate, dead, worker, ran, fault>>

Fault == fault < Faults /\ fault' = fault + 1

Crash(w) ==
  /\ Fault
  /\ worker[w].pc \in CrashPoints
  /\ worker' = Abandon(w)
  /\ UNCHANGED <<aggregate, row, dead, ran>>

\* A call that moves none of these tokens saves the aggregate.
OtherSave ==
  /\ Fault
  /\ \E w \in Worker : worker[w].fresh
  /\ worker' = Stale(worker)
  /\ UNCHANGED <<aggregate, row, dead, ran>>

Step(w) ==
  \/ Acquire(w) \/ Execute(w)
  \/ DeleteRow(w) \/ LoadToComplete(w) \/ SaveComplete(w) \/ FlushJobs(w)
  \/ FindRow(w) \/ CountFailure(w) \/ DeleteExhausted(w) \/ DeadLetter(w)
  \/ LoadToFail(w) \/ SaveIncident(w)

Next ==
  \/ \E w \in Worker : Step(w) \/ Crash(w)
  \/ \E j \in DOMAIN row : Expire(j)
  \/ OtherSave

\* The pollers tick for ever and the clock does not stop.
Fairness ==
  /\ \A w \in Worker : WF_vars(Step(w))
  /\ \A j \in Job : WF_vars(Expire(j))

Spec == Init /\ [][Next]_vars
FairSpec == Spec /\ Fairness
-----------------------------------------------------------------------------

\* A worker whose copy of the aggregate is current loaded it while its token
\* was waiting, so the token still is; a token that waits is at a service task;
\* a worker that got past the delegate has a job in hand.
CopiesCurrent ==
  \A w \in Worker :
    /\ worker[w].pc \in {"loaded", "deadLoaded"} /\ worker[w].fresh => Waits(Mine(w)[1])
    /\ worker[w].pc \notin {"idle", "batch"} => Mine(w) \in Job
WaitsAtNode == \A t \in Token : Waits(t) => pos[t] \in Node

\* A worker has deleted the job's row and will still save, put it back, or
\* write it.
Holds(w, j) ==
  \/ worker[w].pc \in {"deleted", "loaded", "dead"} /\ Mine(w) = j
  \/ worker[w].pc = "saved" /\ j \in DOMAIN worker[w].seen
InHand(j) == \E w \in Worker : Holds(w, j)

\* A token that waits for its job can be woken: the row is there, or a worker
\* is about to decide, or a dead letter can be put back
\* (spawn_async_job_poller: "崩溃/超时后锁自然过期，作业可被重抢").
Recoverable ==
  \A t \in Token : Waits(t) =>
    LET j == <<t, pos[t]>> IN j \in DOMAIN row \cup dead \/ InHand(j)

IInv == TypeOK /\ CopiesCurrent /\ WaitsAtNode /\ Recoverable

\* A token gets past a service task only when that task's delegate has
\* succeeded, whatever becomes of leases, retries and rows that come back
\* (complete_async_job keeps a completed job from being written back).
OnlyByDelegate == \A t \in Token, n \in Node : pos[t] > n => <<t, n>> \in ran

\* The job of a node its token has left never comes back to the table, so its
\* delegate is not run again ("否则本段结束的 flush_pending_async_jobs
\* 会把已完成作业重新写回抢占池，导致 worker 重复领取、delegate 二次执行").
\* It holds of one token; with two, TLC refutes it: the flush of one branch
\* writes the other's row back.
CompletedGone == \A j \in DOMAIN row : pos[j[1]] = j[2]

\* Every job is decided in the end: its token is past the node or an
\* incident, or a dead letter tells the operator that it waits for nothing.
Undecided(j) == pos[j[1]] = j[2] /\ Waits(j[1]) /\ j \notin dead
Decided == \A j \in Job : Undecided(j) ~> ~Undecided(j)

\* Rows do not pile up: in the end every row is gone for good.
Drained == <>[](row = NoRows)
=============================================================================
