---------------------------- MODULE EventOutbox ----------------------------
(***************************************************************************)
(* The event outbox: emit_to_outbox writes one delivery row per subscriber *)
(* the cached routes match, and the delivery poller of every replica       *)
(* (Worker) claims due rows under a lease, dispatches them group by group  *)
(* (one task per subscriber) and settles each row under a holder guard.    *)
(* Administrators start, stop and delete subscribers, replay events, and   *)
(* resend, skip and purge rows, while all this runs.                       *)
(*                                                                         *)
(* Simplifications:                                                        *)
(*  - a row is written by one statement and its number is the order of its *)
(*    commit; which rules match is RouteRules' subject;                    *)
(*  - a clock tick stands for the time a lease or a backoff lasts; leases  *)
(*    lapse under a running task only when its process pauses (a fault);   *)
(*  - the statement that settles a row and the renewal after it are one    *)
(*    step; a claim takes at most Batch rows, the semaphore over groups    *)
(*    only delays them;                                                    *)
(*  - the administrators' bulk updates are made row by row.                *)
(***************************************************************************)
EXTENDS Naturals, FiniteSets

CONSTANTS Sub, Worker,
          Nobody,       \* locked_by of a row no worker holds
          MaxRow,       \* bound on the rows written
          RetryMax,     \* cmx_flow_event_subscriber.retry_max
          Batch,        \* rows of one claim
          LeaseTicks,   \* LEASE_SECS in ticks of the clock
          Faults,       \* bound on crashes, pauses and failed statements
          Orders,       \* bound on what administrators do
          Endless       \* whether resending rows is exempt from that bound

ASSUME OutboxAssumption ==
  /\ {MaxRow, RetryMax, Batch, LeaseTicks, Faults, Orders} \subseteq Nat
  /\ RetryMax > 0 /\ Batch > 0 /\ LeaseTicks > 0
  /\ Nobody \notin Worker
  /\ Endless \in BOOLEAN

Row == 1 .. MaxRow

VARIABLES
  sub,      \* cmx_flow_event_subscriber: "active", "inactive" or "gone"
  routes,   \* subscribers in the emitting replica's route cache
  row,      \* cmx_flow_event_delivery, by seq
  next,     \* the next seq
  task,     \* deliver_group tasks, each with the rows it still has to do
  phase,    \* what the poller loop of a worker does
  failed,   \* whether a group of the worker's current batch gave up
  faults, orders,
  told,     \* rows whose subscriber was reached (history)
  closed    \* rows settled at least once (history)

vars == <<sub, routes, row, next, task, phase, failed, faults, orders,
          told, closed>>

State == {"NONE", "PENDING", "IN_FLIGHT", "DONE", "DEAD", "SKIPPED", "PURGED"}
Waiting == {"PENDING", "IN_FLIGHT"}

NoRow == [sub |-> Nobody, source |-> "none", state |-> "NONE",
          tries |-> 0, by |-> Nobody, clock |-> 0]

TypeOK ==
  /\ sub \in [Sub -> {"active", "inactive", "gone"}]
  /\ routes \subseteq Sub
  /\ row \in [Row -> [sub : Sub \cup {Nobody},
                      source : {"none", "emit", "rebuild", "test"},
                      state : State, tries : Nat,
                      by : Worker \cup {Nobody}, clock : 0 .. LeaseTicks]]
  /\ next \in 1 .. MaxRow + 1
  /\ \A t \in task :
       /\ t.worker \in Worker
       /\ t.rows \subseteq Row /\ t.rows # {}
       /\ t.tries \in [Row -> Nat]
       /\ {t.known, t.waited} \subseteq BOOLEAN
       /\ t.outcome \in {"none", "ok", "retry", "fatal"}
  /\ phase \in [Worker -> {"idle", "batch", "dead"}]
  /\ failed \in [Worker -> BOOLEAN]
  /\ faults \in 0 .. Faults /\ orders \in 0 .. Orders
  /\ told \subseteq Row /\ closed \subseteq Row

Init ==
  /\ sub \in [Sub -> {"active", "inactive"}]
  /\ routes = {s \in Sub : sub[s] = "active"}
  /\ row = [r \in Row |-> NoRow]
  /\ next = 1
  /\ task = {}
  /\ phase = [w \in Worker |-> "idle"]
  /\ failed = [w \in Worker |-> FALSE]
  /\ faults = 0 /\ orders = 0
  /\ told = {} /\ closed = {}

Order == orders < Orders /\ orders' = orders + 1
Fault == faults < Faults /\ faults' = faults + 1

-----------------------------------------------------------------------------
(* Rows are written.                                                       *)

InsertDelivery(s, source, state) ==
  /\ next <= MaxRow
  /\ row' = [row EXCEPT ![next] = [NoRow EXCEPT !.sub = s, !.source = source,
                                                !.state = state]]
  /\ next' = next + 1

\* The cached routes decide, whatever became of the subscriber since.
EmitToOutbox(s) ==
  /\ s \in routes
  /\ InsertDelivery(s, "emit", "PENDING")
  /\ UNCHANGED <<sub, routes, task, phase, failed, faults, orders, told, closed>>

\* The event id is made of the subscriber and the event: the unique key
\* absorbs a second replay while the first row is still there.
RebuildSubscriber(s) ==
  /\ sub[s] # "gone"
  /\ \A r \in Row : ~(row[r].sub = s /\ row[r].source = "rebuild"
                      /\ row[r].state \notin {"NONE", "PURGED"})
  /\ InsertDelivery(s, "rebuild", "PENDING")
  /\ Order
  /\ UNCHANGED <<sub, routes, task, phase, failed, faults, told, closed>>

\* A test dispatches at once and leaves an audit row that is already DONE.
TestSubscriber(s) ==
  /\ sub[s] # "gone"
  /\ InsertDelivery(s, "test", "DONE")
  /\ Order
  /\ UNCHANGED <<sub, routes, task, phase, failed, faults, told, closed>>

-----------------------------------------------------------------------------
(* The subscribers.                                                        *)

SetSubscriberActive(s) ==
  /\ sub[s] # "gone"
  /\ sub' = [sub EXCEPT ![s] = IF @ = "active" THEN "inactive" ELSE "active"]
  /\ Order
  /\ UNCHANGED <<routes, row, next, task, phase, failed, faults, told, closed>>

\* One statement: only an inactive subscriber without a row that waits or
\* is dead.
Deletable(s) ==
  /\ sub[s] = "inactive"
  /\ \A r \in Row : row[r].sub = s => row[r].state \notin Waiting \cup {"DEAD"}

DeleteSubscriber(s) ==
  /\ Deletable(s)
  /\ sub' = [sub EXCEPT ![s] = "gone"]
  /\ Order
  /\ UNCHANGED <<routes, row, next, task, phase, failed, faults, told, closed>>

\* The cache of the emitting replica catches up: at once when the change was
\* made there, within CACHE_TTL otherwise.
RefreshRoutes ==
  /\ routes # {s \in Sub : sub[s] = "active"}
  /\ routes' = {s \in Sub : sub[s] = "active"}
  /\ UNCHANGED <<sub, row, next, task, phase, failed, faults, orders, told, closed>>

-----------------------------------------------------------------------------
(* claim_due_deliveries.                                                   *)

\* A smaller emitted row of the subscriber, waiting for anything, blocks.
Blocked_ByPending(r) ==
  \E b \in Row : /\ b < r /\ row[b].sub = row[r].sub
                 /\ row[b].source = "emit" /\ row[b].state = "PENDING"
                 /\ row[b].clock = 0
Blocked(r) ==
  \E b \in Row : /\ b < r /\ row[b].sub = row[r].sub
                 /\ row[b].source = "emit" /\ row[b].state \in Waiting

\* PENDING and due, or IN_FLIGHT with a lapsed lease: in both cases the clock
\* has run down.
Claimable_PendingOnly(r) ==
  row[r].state = "PENDING" /\ row[r].clock = 0 /\ ~Blocked(r)
Claimable(r) == row[r].state \in Waiting /\ row[r].clock = 0 /\ ~Blocked(r)

Claimed ==
  LET due == {r \in Row : Claimable(r)}
  IN  {r \in due : Cardinality({q \in due : q < r}) < Batch}

\* The configuration of the subscribers is read after the claim; when that
\* query fails every row of the batch counts as one of a deleted subscriber.
Claim(w) ==
  /\ phase[w] = "idle"
  /\ Claimed # {}
  /\ row' = [r \in Row |->
               IF r \in Claimed
               THEN [row[r] EXCEPT !.state = "IN_FLIGHT", !.by = w,
                                   !.clock = LeaseTicks, !.tries = @ + 1]
               ELSE row[r]]
  /\ \E ok \in BOOLEAN :
       /\ IF ok THEN faults' = faults ELSE Fault
       /\ task' = task \cup
            { [worker  |-> w,
               rows    |-> {r \in Claimed : row[r].sub = s},
               tries   |-> [r \in Row |->
                              IF r \in Claimed THEN row[r].tries + 1 ELSE 0],
               known   |-> ok /\ sub[s] # "gone",
               waited  |-> TRUE,
               outcome |-> "none"] : s \in {row[r].sub : r \in Claimed} }
  /\ phase' = [phase EXCEPT ![w] = "batch"]
  /\ failed' = [failed EXCEPT ![w] = FALSE]
  /\ UNCHANGED <<sub, routes, next, orders, told, closed>>

-----------------------------------------------------------------------------
(* deliver_group, one task per subscriber of a batch.                      *)

\* The rows of a group are done one after the other, by seq.
First(t, r) == r \in t.rows /\ \A q \in t.rows : r <= q

\* dispatch_via_channel of the first row; without a configuration the
\* outcome is fatal and nobody is reached.
Dispatch(t, r) ==
  /\ t.outcome = "none" /\ First(t, r)
  /\ \E outcome \in IF t.known THEN {"ok", "retry", "fatal"} ELSE {"fatal"} :
       task' = (task \ {t}) \cup {[t EXCEPT !.outcome = outcome]}
  /\ told' = IF t.known THEN told \cup {r} ELSE told
  /\ UNCHANGED <<sub, routes, row, next, phase, failed, faults, orders, closed>>

\* The guard of the three finish statements: 0 rows is a lost lease.
Holds_Any(t, r) == TRUE
Holds(t, r) == row[r].by = t.worker

Released(r) == [row[r] EXCEPT !.by = Nobody, !.clock = 0]

FinishDone(r) == [Released(r) EXCEPT !.state = "DONE"]
FinishDead(r) == [Released(r) EXCEPT !.state = "DEAD"]

\* Dead once the attempt that failed was the last one allowed; a backoff
\* otherwise.
FinishRetryOrDead(t, r) ==
  IF t.tries[r] >= RetryMax
  THEN FinishDead(r)
  ELSE [Released(r) EXCEPT !.state = "PENDING", !.clock = 1]

Settled(t, r) ==
  CASE t.outcome = "ok" -> FinishDone(r)
    [] t.outcome = "retry" -> FinishRetryOrDead(t, r)
    [] t.outcome = "fatal" -> FinishDead(r)

\* renew_leases: every row in flight under the worker, whoever works on it.
Renewed(rows, w) ==
  [r \in Row |-> IF rows[r].state = "IN_FLIGHT" /\ rows[r].by = w
                 THEN [rows[r] EXCEPT !.clock = LeaseTicks]
                 ELSE rows[r]]

\* The result is stored and the task goes on with the next row, if any.
Settle(t, r) ==
  /\ t.outcome # "none" /\ First(t, r)
  /\ Holds(t, r)
  /\ row' = Renewed([row EXCEPT ![r] = Settled(t, r)], t.worker)
  /\ closed' = IF row'[r].state \in Waiting THEN closed ELSE closed \cup {r}
  /\ task' = (task \ {t}) \cup
               IF t.rows = {r} THEN {}
               ELSE {[t EXCEPT !.rows = @ \ {r}, !.outcome = "none"]}
  /\ UNCHANGED <<sub, routes, next, phase, failed, faults, orders, told>>

\* The lease was lost, or the statement failed: the task ends and leaves its
\* rows as they are.
GiveUp(t, r) ==
  /\ t.outcome # "none" /\ First(t, r)
  /\ IF Holds(t, r) THEN Fault ELSE faults' = faults
  /\ task' = task \ {t}
  /\ failed' = [failed EXCEPT ![t.worker] = @ \/ t.waited]
  /\ UNCHANGED <<sub, routes, row, next, phase, orders, told, closed>>

\* deliver_batch awaits its tasks in turn and returns at the first that gave
\* up: the others go on, nobody waits for them any more.
EndBatch(w) ==
  /\ phase[w] = "batch"
  /\ failed[w] \/ \A t \in task : t.worker = w => ~t.waited
  /\ phase' = [phase EXCEPT ![w] = "idle"]
  /\ failed' = [failed EXCEPT ![w] = FALSE]
  /\ task' = {IF t.worker = w THEN [t EXCEPT !.waited = FALSE] ELSE t : t \in task}
  /\ UNCHANGED <<sub, routes, row, next, faults, orders, told, closed>>

-----------------------------------------------------------------------------
(* Time and failures.                                                      *)

\* Leases and backoffs run down.  A lease is longer than any one dispatch
\* and is renewed after each: it lapses under a task only by a pause.
RunsOut ==
  {r \in Row : row[r].state = "IN_FLIGHT" /\ row[r].clock = 1}
Worked(r) ==
  \E t \in task : row[r].by = t.worker /\ r \in t.rows

Tick ==
  /\ \E r \in Row : row[r].clock > 0
  /\ row' = [r \in Row |-> IF row[r].clock > 0
                           THEN [row[r] EXCEPT !.clock = @ - 1] ELSE row[r]]
  /\ IF \E r \in RunsOut : Worked(r) THEN Fault ELSE faults' = faults
  /\ UNCHANGED <<sub, routes, next, task, phase, failed, orders, told, closed>>

\* The replica dies with its tasks; another one is left.  A new process has a
\* new worker id.
Crash(w) ==
  /\ Fault
  /\ phase[w] # "dead"
  /\ \E v \in Worker \ {w} : phase[v] # "dead"
  /\ phase' = [phase EXCEPT ![w] = "dead"]
  /\ task' = {t \in task : t.worker # w}
  /\ failed' = [failed EXCEPT ![w] = FALSE]
  /\ UNCHANGED <<sub, routes, row, next, orders, told, closed>>

-----------------------------------------------------------------------------
(* Administration of the rows.                                             *)

\* Dead rows and rows whose lease has lapsed, of subscribers that exist.
Resendable(r) ==
  /\ \/ row[r].state = "DEAD"
     \/ row[r].state = "IN_FLIGHT" /\ row[r].clock = 0
  /\ sub[row[r].sub] # "gone"

RetryDelivery(r) ==
  /\ Resendable(r)
  /\ row' = [row EXCEPT ![r] = [Released(r) EXCEPT !.state = "PENDING",
                                                   !.tries = 0]]
  /\ IF Endless THEN orders' = orders ELSE Order
  /\ UNCHANGED <<sub, routes, next, task, phase, failed, faults, told, closed>>

Skippable_InFlight(r) ==
  row[r].state \in {"DEAD", "PENDING", "IN_FLIGHT"} /\ sub[row[r].sub] # "gone"
Skippable(r) ==
  row[r].state \in {"DEAD", "PENDING"} /\ sub[row[r].sub] # "gone"

SkipDelivery(r) ==
  /\ Skippable(r)
  /\ row' = [row EXCEPT ![r] = [Released(r) EXCEPT !.state = "SKIPPED"]]
  /\ closed' = closed \cup {r}
  /\ Order
  /\ UNCHANGED <<sub, routes, next, task, phase, failed, faults, told>>

PurgeDelivery(r) ==
  /\ row[r].state \in {"DONE", "SKIPPED"}
  /\ row' = [row EXCEPT ![r].state = "PURGED"]
  /\ Order
  /\ UNCHANGED <<sub, routes, next, task, phase, failed, faults, told, closed>>

-----------------------------------------------------------------------------
Next ==
  \/ \E s \in Sub : \/ EmitToOutbox(s) \/ RebuildSubscriber(s) \/ TestSubscriber(s)
                    \/ SetSubscriberActive(s) \/ DeleteSubscriber(s)
  \/ RefreshRoutes
  \/ \E w \in Worker : Claim(w) \/ EndBatch(w) \/ Crash(w)
  \/ \E t \in task, r \in Row : Dispatch(t, r) \/ Settle(t, r) \/ GiveUp(t, r)
  \/ Tick
  \/ \E r \in Row : RetryDelivery(r) \/ SkipDelivery(r) \/ PurgeDelivery(r)

Spec == Init /\ [][Next]_vars

\* The pollers of live replicas tick for ever, their tasks are run by the
\* scheduler, and time passes even when it is often about to.  Nothing is
\* fair about administrators, events and failures.
Fairness ==
  /\ \A w \in Worker : WF_vars(Claim(w)) /\ WF_vars(EndBatch(w))
  /\ WF_vars(\E t \in task, r \in Row : Dispatch(t, r))
  /\ WF_vars(\E t \in task, r \in Row : Settle(t, r) \/ GiveUp(t, r))
  /\ SF_vars(Tick)
FairSpec == Spec /\ Fairness

-----------------------------------------------------------------------------
\* The outbox keeps the order of each subscriber's emitted rows, whatever
\* pollers, lapses and resends do to them: a row is told for the first time
\* only after every smaller emitted row of the subscriber was settled
\* ("同订阅者保序").
Follows(r) ==
  {q \in Row : /\ q < r /\ row[r].source \in {"emit", "rebuild"}
               /\ row[q].sub = row[r].sub /\ row[q].source = "emit"}

Ordered ==
  INSTANCE OrderedQueue WITH
    Entry   <- Row,
    todo    <- {r \in Row : row[r].state \in Waiting},
    follows <- [r \in Row |-> Follows(r)],
    told    <- told,
    closed  <- closed
OrderedSpec == Ordered!Spec

\* While a lease is live, only a task of its holder that has the outcome of
\* the row takes the row out of flight: neither an operator nor a worker that
\* lost the row settles it.
HolderSettles ==
  [][\A r \in Row :
       row[r].state = "IN_FLIGHT" /\ row[r].clock > 0 /\ row'[r].state # "IN_FLIGHT" =>
         \E t \in task : /\ t.worker = row[r].by /\ First(t, r)
                         /\ t.outcome # "none"]_vars

\* What is done or skipped is never sent again, even by a task that still
\* works on a row its own worker claimed and settled a second time.
SettledFinal ==
  [][\A r \in Row :
       row[r].state \in {"DONE", "SKIPPED"} =>
         row'[r].state \in {row[r].state, "PURGED"}]_vars

\* Every row is eventually done, dead or skipped, whatever crashes, pauses
\* and failed statements happened on the way, as long as traffic ends.
Drained == \A r \in Row : []<>(row[r].state \notin Waiting)

\* A dead row can still be sent again or skipped.  The code does not keep this
\* once the subscriber is deleted.
DeadManageable ==
  \A r \in Row : row[r].state = "DEAD" => Resendable(r) /\ Skippable(r)
=============================================================================
