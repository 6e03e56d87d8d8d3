# A TLA+ development of cmx-flowengine

cmx-flowengine is a BPMN process engine in Rust. A definition is compiled from
BPMN XML into a graph; an instance of it is a set of tokens on that graph, with
the tasks, timers, multi-instance scopes and jobs that belong to them, kept in
PostgreSQL; HTTP calls and background pollers, on any number of replicas, move
the tokens. The modules here say what that program does, TLC checks them on
small instances, and TLAPS proves for every size what is said about the store,
the event outbox and the hand-over of tasks, and most of what is said about
tokens, tasks and timers, sub-processes, the job table, the registry and the
request handlers.

Line numbers are those of the sources at the modelled commit; `PROJECT.json`
maps every definition to its lines.

## 1. The system

| part | sources | state | operations |
|---|---|---|---|
| compiled definitions | `cmx-flow-bpmn/compiler.rs`, `cmx-flow-model/ir.rs` | the graph of nodes and flows | compile a document; questions: boundary events, degrees, reachability |
| token kernel | `cmx-flow-engine/engine.rs`, `run_to_wait` (2505-3236) | the private copy of one instance aggregate | one arm per kind of node an Active token can be at; the conclusion of the instance |
| engine calls | the rest of `engine.rs` | none of their own | load the aggregate, change it, `run_to_wait`, save, then write side tables |
| runtime store | `cmx-flow-store-pg` | instance, token, task, scope, timer, candidate, cc rows; history archive; `version` | load (one SELECT per table), create, save (one transaction, compare-and-swap on `version`), queries, leases |
| async jobs | `engine.rs` 3242-3518, `store.rs` 569-747, poller in `cmx-flow-app/engine.rs` 549 | job rows with a lease and retries, dead letters | acquire, run the delegate, complete, fail, retry and discard dead letters |
| sub-processes | `engine.rs` 725-1050, cascades in cancel, suspend, resume; `subflow_router.rs` | parent and child instances, linked by (parent, token, node); bindings by organisation | launch after the save, wake the parent after the child's end; resolve a binding |
| timers | `trigger_due_timers` 2425, `fire_timer` 4082, poller 506 | timer rows with a lease | acquire the due ones, fire, run, save |
| messages | `correlate_message` 2039, subscriptions in the store | subscription rows, start and catch | subscribe, correlate, scan, delete |
| incidents | `retry_incident` 1690, ledger and auto-retry poller (778) | OPEN and RESOLVED rows | record, resolve, retry |
| event outbox | `cmx-flow-app/event_store.rs`, `event_outbox.rs`, `event_admin.rs` | subscribers and their rules, delivery rows with a lease and attempts | emit, claim, renew, finish, retry, skip, purge |
| definition registry | `cmx-flow-def`, `publish_gate.rs`, `decisions.rs` | drafts, versions, the active one, decision tables; what the engine has loaded of them | save, publish, activate, delete, seed, hot load, restart |
| request handlers | `cmx-flow-app/handlers.rs`, `biz_link.rs` | variable history, comments, business links | read, call the engine, record, link, announce |
| pure functions | `expr.rs`, `decision.rs`, `duration.rs`, `var_schema.rs`, `candidate.rs` | none | conditions, templates, tables, durations, schemas, candidates |
| tenants, collaboration, statistics, identity, adapters, SDK, demo | see `PROJECT.json` | SQL projections, an in-process map, or none | |

**How the parts interact.** Every call on an instance has the same shape: load
a whole aggregate, change the copy, run it until no token is Active, save the
copy under the version it was loaded with. What a call has to tell the other
tables (async jobs, subscriptions, activity history) it writes after the save
("flush"), outside the transaction, where a failure is only logged; incident
rows are written before it. Nothing locks an instance between load and save: a
conflicting save answers `Conflict` and the call fails. Around the engine's
call a request handler reads before, and records, links and announces after.
Announcements become delivery rows, which pollers deliver. Pollers in every
replica lease rows (`FOR UPDATE SKIP LOCKED`, 60 s) and make the same kind of
calls. Sub-processes are separate instances: the parent's call launches them
after its save, and a child that ends wakes its parent by a second load, change
and save.

**What is hard here.** (a) The load is torn over a dozen statements. (b) Rows
beside the aggregate (jobs, dead letters, subscriptions, incidents, children,
history, links, announcements) are changed before or after the save, so a
crash, a conflict or another replica can come between. (c) Leases lapse under a
worker that is still busy. (d) A token's timers, tasks and scopes must go away
with the wait they belong to, on each of some fifteen ways a wait can end. (e)
Joins count tokens that other calls may remove, move or end. (f) A subscriber's
events must come in order although retries and lapses take them out of it. (g)
Administrators' requests check in one statement and write in another. (h) The
branch a token takes hangs on a parser, an evaluator and a compiler written by
hand. The `hazards` of `PROJECT.json` list these at their lines.

**What makes each part correct.**

- store: a save is one handler run on the aggregate that is current (no lost
  update, no result of a torn read); receipts are never undone;
- kernel and calls: each open task has a token that waits for it and each
  waiting token one open task; timers are exactly those of current waits; a
  scope's counters account for its tokens; a join lets one token through for
  one over each incoming flow; an instance that is not over can be moved from
  outside, and one that is over has nothing left to do;
- hand-over: exactly one task is at work for one wait, and a pool offers only
  what nobody holds;
- async jobs: a token passes a service task only by its delegate; it never
  waits for a job nobody has; every job is decided;
- sub-processes: one child per visit of a call activity; a child that ends wakes
  its parent once; cancelling ends the children that are there;
- side tables: a message finds an instance that waits for it; an incident is in
  the ledger, and what is in the ledger of an ended instance is closed;
- outbox: first deliveries keep the order; only the holder of a live lease
  settles a row; what is settled stays so; every row is settled;
- registry: the active version exists; memory agrees with the store;
- requests: what happened is announced; the history is a chain; no start
  without its link;
- pure functions: they compute what their documentation says.

## 2. The modules

| module | models | stands on |
|---|---|---|
| `AtomicAggregate` | what the engine needs of a store: saves are atomic transformations | |
| `SnapshotStore` | `load_snapshot`, `save_snapshot`, `mark_cc_read` under any number of concurrent calls | refines `AtomicAggregate` |
| `FlowDefinition` | definitions and the questions the engine asks of them | |
| `TokenKernel` | the aggregate and `run_to_wait` | `FlowDefinition` |
| `ProcessEngine` | the calls on tokens, and the side tables of async jobs and dead letters | `TokenKernel` |
| `TaskHandover` | the calls on the people of one task | |
| `AsyncJobs` | the job executor, statement by statement | |
| `Subflows` | a parent instance, its children, and the calls that launch, wake and cascade, statement by statement | |
| `SideTables` | subscriptions and the ledger of incidents beside the saves, statement by statement | |
| `OrderedQueue` | what the outbox promises a subscriber | |
| `EventOutbox` | delivery rows, pollers, administrators | refines `OrderedQueue` |
| `Registry` | definitions and decision tables, store call by store call | |
| `Requests` | what handlers do around the engine's commits | |
| `Compiler`, `Expressions`, `Decisions`, `VarSchemas`, `Durations`, `Candidates`, `RouteRules`, `Routing`, `Rejections` | the pure functions, as operators | |
| `Algorithms` | calls each of them on every input of small sets | the nine above |
| `SnapshotStoreProofs`, `ProcessEngineProofs`, `TaskHandoverProofs`, `AsyncJobsProofs`, `SubflowsProofs`, `EventOutboxProofs`, `RegistryProofs`, `RequestsProofs` | the TLAPS proofs | the module each is named for |
| `MC...` | constants for TLC: definitions, calls per definition, crash points, symmetry | |

### SnapshotStore

State: `version`, `table` (the committed contents of each table), `cc`,
`hiVersion`, and per client (an engine call on some replica) where it is, the
version it saw, the tables it has read, and its private copy. `LoadRow` is the
first SELECT, `LoadPart` each later one, `Compute` the handler with
`run_to_wait` (any transformation in `Handler`), `SaveCas` the first statement
of the transaction (it waits for the row lock and then compares), `SaveCommit`
the rest, `Rollback` a failed statement or a lost connection, `MarkCcRead` the
only writer that takes no version.

### TokenKernel and ProcessEngine

`db` is the stored aggregate, `wk` the copy of the call that runs, `op` the
call. Because `SnapshotStore` shows that sections on one instance behave as if
they ran one after the other, one call runs at a time here; `Discard` stands for
every way a call can end without a save (an error, a conflict, a crash). A step
of the run is one node visit; nothing else is between a load and a save. Each
call's action is the handler up to `run_to_wait`; `Commit` is the save with the
conclusion of `run_to_wait` and the flush of the jobs, which only `start` and
`completeAsync` perform (engine.rs 716, 3315).

Left to free choice: which branch a condition takes, what a delegate answers,
how large a collection is, when a timer is due, whether a fragile timer
expression evaluates, when a completion condition holds. Left out: variables
and history; people are in `TaskHandover`.

### TaskHandover

One wait of one user task: `tasks` are it and those signed in before it (each
with assignee, owner, delegation state and parent), `pool` its candidates,
`copies` the cc records, `ledger` the rows of the delegation table. An action
is a whole call (load, change, save), which `SnapshotStore` allows. `Init` has
every outcome of `decide_assignment`.

### AsyncJobs

One instance whose tokens pass the asynchronous service tasks `1 .. Hops`. The
row of a job is a lease: retries left, owner, whether the lease is over. A
worker's program counter is between two statements: `Acquire`, `Execute`
(the delegate), `DeleteRow`, `LoadToComplete`, `SaveComplete`, `FlushJobs`, and
on failure `FindRow`, `CountFailure`, `DeleteExhausted`, `DeadLetter`,
`LoadToFail`, `SaveIncident`. Time is `Expire`, at any moment of a lease.
`fresh` is the compare-and-swap: it holds of a worker that has loaded until
anybody saves.

### Subflows

A parent whose tokens walk `way[t]`, a sequence of user tasks and call
activities (`fragile`: the binding of the sub-process may be missing), and its
children, each with the visit (token and node) it was launched for. `call[c]` is
the call of one replica between two of its statements: `LaunchLoad`,
`LaunchFind`, `LaunchCreate` or `LaunchRefused` with `MarkLoad` and `MarkSave`
(`launch_subflows_for`, 725); `WakeLoad` and `WakeSave` (`complete_subflow`,
933); `OperatorLoad`, `OperatorFind`, `CascadeOne`, `OperatorSave` (cancel,
suspend, resume). `stack` holds the children being reported: a report launches
what the token comes to, an immediate child reports itself inside that launch,
and a conflict goes up to the innermost report with attempts left (`Conflict`).
`failed`, `replayed` and `raced` are history variables: the visits an errored
call left, the tokens whose report started over after it had moved them, and the
visits where a launch found no child while another was about to create one.
Nothing keeps launches from overlapping like that, in the model as in the code.
`CompleteTask`, `RetryIncident` and `CompleteChild` load, change and save in one
step: nothing but an error to the caller follows from their conflict.

### SideTables

Several instances, each with a key and some branches; `place` says where each
branch rests (user task, catch event, event gateway, incident, end). `subs` and
`open` are the two tables. A call goes through `FindInstance` (for a message
with a key only), `Load`, `RunToWait` (which writes the incident rows before the
save), `Save` (`stale` is the compare-and-swap), `Flush`, `Delete`, `Resolve`,
as far as that kind of call has these steps. The poller takes a round of
instances (`RetryRound`) and retries them one by one.

### EventOutbox

`row` is the delivery table by sequence number, with state, attempts, holder
and a clock that stands for the lease or the backoff. `Claim` takes a batch:
due rows no smaller emitted row of the same subscriber blocks. A batch becomes
one task per subscriber (`deliver_group`), which for each of its rows
dispatches, settles under the guard `locked_by = worker` and renews, or gives
up. `EndBatch` is the poller going on, also past tasks nobody waits for any
more. `Tick` is time, `Crash` the end of a replica. Administrators' actions are
single guarded statements. `told` and `closed` are history variables for the
refinement.

### Registry

`row` is the definition's row, `versions` its versions, `engine` and `listed`
the two places of the running process that hold a definition, `decision` and
`table` the stored and the loaded decision table. `call` is where each request
is between two store calls. `StoreFails` ends a request where it is, `Restart`
loads from the store.

### Requests

One instance as the handlers see it (state, open tasks, one variable), the
tables they write (`linked`, `history`) and what they announce. A request is
between reading before the call, the engine's commit, `Record`, `Link` or
`Compensate`, and the announcements. `EngineAdvances` is everything that moves
an instance without a handler, and is announced by nobody. `ended` remembers how
a request ended the instance; `"atStart"` is a start that ran through, of which
`start_instance` announces the start and never the end.

### The pure functions

Text is a sequence of characters. Each operator follows its function: the lexer
and the recursive descent parser with its levels, the evaluator's treatment of
missing values, the single way back of `glob_match`, the accumulating loop of
the duration parser with its wrapping integers, the compiler's passes over the
elements (nodes, flows, wiring of embedded subprocesses), the backward search
for tasks to return to. `Algorithms` has one variable, the call that was just
made; an invariant compares its answer with a definition stated another way: a
grammar, an automaton, the meaning of a star, nested documents, shortest paths.

## 3. What TLC checks

| run | instance | states | shows |
|---|---|---|---|
| `SnapshotStore` | 2 calls, 3 tables, 1 cc record, 2 saves | 193,410 | `AtomicSpec` (refinement), `ReadMarkKept` |
| `ProcessEngine` | 14 definitions, people's calls, timers, messages, errors, jobs | 71,115 | `TaskTokens`, `ScopeCounts`, `NotStuck`, `TimersMatch`, `TerminalClean`, `JoinsComplete` |
| `TaskHandover` | 2 users, 3 tasks, 4 ledger rows | 2,523,558 | `OneAtWork`, `PoolUnheld`, `LedgerTells` |
| `AsyncJobs` | 2 workers, 1 token, 2 service tasks, 2 retries, 2 faults | 31,822 | `Recoverable`, `OnlyByDelegate`; live: `Decided`, `Drained` |
| `Subflows` | 2 calls at a time, 2 tokens on two branches with three call activities, on one branch with a call that may be refused, or on one whose second call may be refused and one with a task, 4 children, 2 faults | 1,141,553 | `OneChild`, `PassedByChild`, `CancelReaches`; live: `Served` |
| `SideTables` | 2 instances, 1 branch, 2 keys, a client and the poller, 2 calls, 1 fault | 633,536 | `Listed`, `Delivered`; live: `GhostsClosed` |
| `EventOutbox` | 2 subscribers, 2 pollers, 2 rows, 2 attempts, 1 fault, 1 order | 734,003 | `OrderedSpec` (refinement), `HolderSettles`, `SettledFinal`; live: `Drained` |
| `Registry` | 2 administrators, 2 documents (one refused by the gate), 2 versions, 3 drafts, 1 fault | 1,496,708 | `ActiveExists`, `Settled` |
| `Requests` | 2 clients, 2 values, 2 tasks, 3 requests, 1 fault | 1,092,192 | `Told`, `HistoryChained`, `NoOrphan` |
| `Algorithms` | every input of fifteen small sets | 264,770 | `WiredThrough`, `ParserExact`, `MissingNeverSatisfies`, `SchemaHonoured`, `DecisionPolicies`, `RoutesExact`, `ReadsBack`, `NearestBinding`, `WayBack` |
| `JobLost` | violation | | a crash between the row's deletion and the save strands the token |
| `RejectedAddSign` | violation | | rejecting an added task leaves the first one suspended for good |

The two violations are findings: each contradicts a comment quoted in
`PROJECT.json`.

**Bounds.** `MaxToken`, `MaxTask`, `MaxScope` of `ProcessEngine` bound ids.
Token ids are never reused, so `MaxToken` (7) also bounds how often a definition
can loop: two passes of every definition but the ones with repeated timers,
where it bounds the side tokens. In `SnapshotStore` two clients and two saves
are every way one save can tear or outrun one load; a third client adds only a
load that two saves tear, which the proof covers. In `AsyncJobs` two workers are
every pair that can hold one job, the second service task is what a stale row
could wrongly advance, and two retries make a row fail once, and then again. In
`Subflows` two calls are every pair that can race for a visit or a save, two
call activities in a row are what a child could be mistaken for, a second branch
is what moves the parent under a launch or a wake, and a second call that may be
refused is what a conflict inside a wake needs; `MaxChild` is one child per visit
and one more, and an overlap of launches counts as two faults, so that a
behaviour has one of them and no launch ever waits for room. In `SideTables` two instances are the
one addressed and the one in its way, `ScanLimit` covers both (what happens
below that is said in section 5), `RetryBatch` 1 lets one ghost fill a round;
the second starts by waiting for the message, which is what could be missed. In
`EventOutbox` two rows of one subscriber are a row and the one it must wait for,
two attempts reach both a backoff and death; one of the two subscribers may be
stopped at the start, so that the one order can be its deletion; the proofs lift
every bound. In
`Registry` two versions are the active one and another, three writes of the
draft are a save, another's save and an activation. In `Requests` two tasks are
the one completed and the one it opens; three requests are a start and two that
overlap. In `TaskHandover` three tasks are a chain of two added ones; the proofs
lift that bound too. In `Algorithms` six tokens hold a call with two arguments
or a parenthesised comparison, four characters two stars and what comes between,
six characters a template with a holder and what surrounds it; 22 bits make the
longest written durations overflow, which is then outside the property. The
names of variables are two identifiers and four others the check of a schema lets
through (one with a dot, one with a blank, a digit, a word of the language):
`SchemaHonoured` promises usable paths only where all names are identifiers, and
section 5 says what the others do.

**Symmetry** is used for clients, administrators, users and values that no
constant and no `CHOOSE` tells apart, in runs without liveness.

**Fairness.** Where there is liveness: in `AsyncJobs`, weak fairness of each
worker's steps (the poller is an endless loop over a 3 s interval, and a step is
one statement or one delegate call, assumed to return) and of `Expire`
(`lock_expires_at` is an absolute time and the clock goes on). In `Subflows`,
weak fairness of each call's steps: a call under way goes on, one store call
after the other; `Crash` is confined to the operators' calls, since nothing in
the code recovers a launch or a wake that died. In `SideTables`, weak fairness
of the poller's rounds and of calls in progress. In `EventOutbox`, weak fairness
of the pollers' claims and of their tasks, strong fairness of `Tick`, since time
passes also when claims keep coming in between. Nothing is assumed of delegates,
subscribers (they may fail each time), people, administrators or faults, but for
the number of faults and orders.

## 4. What is proved

All for any values of the constants, from the named assumption each module
makes about them. `SnapshotStoreProofs` (from `StoreAssumption`: the instance row
is one of the tables, handlers map aggregates to aggregates):

- `Invariance`: `Spec => []IInv`, where `IInv` is `TypeOK`, `Coherent`,
  `OneWriter` and `NotAhead`; `TypeCorrect` and `CoherentReads` are two of these;
- `Refinement`: `Spec => AtomicSpec`, the store implements `AtomicAggregate`;
- `ReadMarks`: `ReadMarkKept`; `Archive`: the archive is of the last version.

*The argument.* `AtomicSpec` needs that at `SaveCommit` the client's copy is a
handler run on what is stored. The copy was read over many steps, so this is no
invariant of single states as it stands. `Coherent` says it conditionally: as
long as the version a client read first is the stored one, each table it has
read is still the stored one, and what it computed is a handler run on the
stored aggregate. It is kept because `SaveCommit` is the only step that changes
a table and it always moves the version, after which the condition is false for
every client that has loaded (`NotAhead`: nobody saw a later version, so no
other client's version becomes current by the move). `OneWriter` carries the
outcome of the compare-and-swap to the commit: the row lock is held in between,
so the version compared is still the stored one. It rests on the version being
read first; with the instance row read last, `LoadPart` would break `Coherent`.

`EventOutboxProofs` (from `OutboxAssumption`):

- `OutboxInvariant`: `Spec => []IInv`, where `IInv` is `TypeOK`, `Written`,
  `Accounted`, `Unheld`, `Audits`, `Turn`;
- `Refinement`: `Spec => OrderedSpec`, the outbox implements `OrderedQueue`;
- `OnlyHolderSettles`: `HolderSettles`; `SettledForGood`: `SettledFinal`.

*The argument.* The order rests on the claim alone. When a row is claimed, no
emitted row of its subscriber before it waits (`Blocked`), and whatever does not
wait was settled once (`Accounted`; the audit rows of tests, `Audits`, are never
emitted). What was settled is remembered in `closed`, so this stays true of the
rows in a task's hands (`Turn`) however long the task takes, and whether or not
its lease lapses, another worker claims the row or an operator sends an earlier
row again: `Dispatch` is a `Tell` whose turn it is. Rows are written in order
(`Written`), so a new row follows only what exists, which makes an insertion a
`Submit`. For `SettledForGood`, a row that is done or skipped has no holder
(`Unheld`), so the guard of the finish statements fails for every task.

`TaskHandoverProofs` (from `TaskHandoverAssumption`): `HandoverTypes`,
`ExactlyOneAtWork` (`OneAtWork`), `PoolOnlyUnheld` (`PoolUnheld`) and
`LedgerKept` (`LedgerTells`).

*The argument.* The open tasks form a chain. The root was signed in for nobody,
every other task for one that was there before it (`Rooted`), with no open task
between the two while it is open itself (`Linked`); all but the last open task
are suspended (`Waiting`), and as long as any is open the root is, and one is at
work (`Worked`). Signing one in suspends the last and adds behind it; completing
the last gives back the one it was signed in for, which is the last before it.
From these the open task that is not suspended is unique, which is what
`Cardinality(AtWork)` counts. `PoolUnheld` is kept as every call that gives the
task a holder empties the pool, and `AddSign` gives one only to the task it adds.
For `LedgerKept`, the last row of a kind about a task is a row (`LastIsRow`) and
no row names a task that does not exist yet (`RowsNamed`). A call that changes
the holder or the owner adds the row that says so, which is then the last of its
kind, and a call that adds a row of another kind leaves the last one; a task
that is signed in has no rows but the one that names it, and its owner is that
row's.

`RegistryProofs` (from `RegistryAssumption`): `RegistryActiveExists`
(`ActiveExists`) and `RegistrySettled` (`Settled`).

*The argument.* Both follow from one invariant, which says of each request what
it has found by the step it is at. As long as no deletion overlapped anything, a
deletion is the only request (`Alone`), so what the pointer and the requests
name stays, and what is about to be erased is not pointed at (`Named`). As long
as no two requests overlapped and none failed (`Serial`), the one request that
runs has read what is still stored: the version it loads is the one the pointer
names and passed the gate, and what it takes into memory is what it wrote
(`Stage`); before it marks and after it has listed, engine and list agree with
the store (`Agreed`). `Flagged` ties the state to the pointer.

`RequestsProofs` (from `RequestsAssumption`): `NoStartOrphaned` (`NoOrphan`),
`HistoryIsChained` (`HistoryChained`) and `OpenedAnnounced` (`Told`).

*The argument.* The base (`Base`) is which steps a request of each kind goes
through, that only the one start is before the instance, and that tasks are
numbered once, so that a completed task does not come back. `Told` speaks of the
tasks requests opened and of the end a completion or a cancellation brought
about; that of a start that runs through is announced by nobody (`EndTold`,
section 5). On the base rest three
invariants, each kept by every step without the others. A start past its commit
carries whether a link was asked for, and beyond the link it is there
(`Linking`). While nothing overlapped and nothing failed, the last row of the
history left the value, but for the one request that is between its commit and
its row, which has read what that row left (`Recording`). Each task that
somebody answers for has been announced, or a request on its way still will
(`Owes`); the one that completed a task will load the snapshot, and finds the
task there because it is open. The same for the end (`Ends`).

`AsyncJobsProofs` (from `AsyncAssumption`):

- `JobTypes`: `TypeOK`, wherever workers die;
- `NoJobLost`: `Recoverable`, from `SafeCrashes`: no worker dies between its
  `DELETE` and the write that answers it (`JobLost` shows what happens else);
- `DelegatesInOrder`, `CompletedStaysGone`: `OnlyByDelegate`, and that completed
  jobs are not written back, from `SingleToken`, wherever workers die.

*The argument.* Types need to know that a save moves a token only off a service
task: a copy that is still current was loaded while the token waited
(`CopiesCurrent`; every save makes every copy stale), and a token that waits is
at a service task (`WaitsAtNode`). `Recoverable` is then inductive with the
third holder of a job beside the row and the dead letter: the worker that
deleted the row (`Holds`), which hands it on through the load, to the put-back
or, after the save, as the token's next job, to the flush. For one token
the last part adds `Alone`: a worker past its `DELETE` has the only job there
was, so there is no row to take and nobody else is past one. Hence nothing is in
its copy but what it parks itself, and the job it has is that of the node the
token is at (`InOrder`).

`ProcessEngineProofs` (from `DefAssumption`, `NodesAssumption` and
`CallsAssumption`):

- `EngineTypes`: `TypeOK`;
- `NeverEmpty`: an instance that is not over has a living token, whatever the
  definition and the calls;
- `MovesWithoutJoins` (`NotStuck`), for definitions without joins;
- `TasksHoldTokens` (`TaskTokens`), `ParentsReturn` (`SuspendedHasChild`),
  `TimersAreAwaited` (`TimersMatch`) and `NothingLeft` (`TerminalClean`), under
  hypotheses about the instance's definition and the calls made on it;
- `ScopesCount` (`ScopeCounts`) and `NoScopeLeft` (`TerminalClean` of definitions
  with multi-instance nodes), under a hypothesis about the behaviour as well;
- `JoinsFill` (`JoinsComplete`): a parallel join of any degree lets a token
  through only for one over each of its flows, likewise.

*The hypotheses* name what the code gets wrong or what the graph would have to
say; section 5 and the findings tell what happens without them.

- `Joinless` (`MovesWithoutJoins`): no parallel or inclusive gateway has two
  incoming flows. With joins the promise depends on the graph, and an inclusive
  one breaks it (`AbandonedFlow`);
- `Careful` (all that follow): not both `addSign` and `reject` are among the calls
  (`RejectedAddSign` is what happens else, so `ParentsReturn` says that nothing
  but this strands a suspended task), and no event gateway has a timer behind it
  whose expression can fail (the timers armed before it stay, engine.rs 3104);
- `NoneMissed` (`TimersAreAwaited`): where `withdraw` is among the calls, every
  boundary timer that takes a task away has an expression that can fail, since a
  withdrawal arms none;
- `EndsForGood` (`NothingLeft`): no dead letter is put back, as that revives an
  ended token, and the definition has no multi-instance node;
- `ArrivesAlone` (`ScopesCount`, `NoScopeLeft`): at all times, a token that is
  being run into a multi-instance node finds no task and no open scope there.
  Whether two tokens ever meet at a node depends on the whole graph, so this is
  said of the behaviour and not of the definition. The code needs it: it looks
  scopes up by node, and `TwiceFlow` shows two of them sharing a count;
- `Direct` (`JoinsFill`): a token comes to a parallel join over a flow of it and
  in no other way. No flow leads from a join to itself, none is the start, and
  none comes right after an event that is taken in passing (an event behind an
  event gateway, an error event): such a token carries the node before the event
  as where it comes from;
- `OnePerFlow` (`JoinsFill`): at all times, two tokens at one join came over
  different flows. The code counts tokens, so it needs this; `RemindedFlow` is a
  definition without it (section 5).

Every definition of the run `ProcessEngine` satisfies `Careful` and `Direct`, and
every behaviour of it `ArrivesAlone` and `OnePerFlow`: TLC checks all four as
invariants of it without an error. Five of the definitions have a parallel fork,
four of them a join behind it.

*The argument.* `EInv` has three parts. `TInv` holds of all definitions and calls:
the aggregate that is stored and the copy a call works on are well-formed
(`Good`): token numbers are drawn in order, a token rests only where its state
makes sense, tasks stand at user tasks, and only boundary timers repeat. `KInv`
says what belongs together (`Kept`). `Held`: a task's token waits at its node,
and a waiting token has one open task; `Chained`: the tasks of one token are a
chain from a task of its own in which each suspended one is followed by the
temporary one (without cycles, or a chain could give back to nobody); `Clocked`
and `Escalates`: timers are those of the waits. The copy is in the invariant
because a call that is discarded leaves `db`, and one that commits makes it of
`wk`: in between every step of the run keeps both. Each action is one or two of
a few shapes of change, each with a lemma that it keeps `Kept`: tokens to which
nothing belongs move (`Drifts`), a token sits down with task and timers
(`Sits`), parks with timers (`Arms`), leaves and takes what is its own along
(`Frees`), a task gets or loses its temporary one (`Signs`, `Unsigns`), a timer
is armed again (`Refires`), everything ends (`Bare`). `Over` adds that a
terminal aggregate is empty, so no step of a run starts from one.

The third part, `NInv`, is of all definitions again: a stored instance that is
not over has a living token (`Lively`), and the copy of a call under way has a
token that lives or has ended, or a sub-instance still to expand (`Trace`). Calls
delete tokens as well as end them, and an instance whose tokens were all deleted
would stay open for good: the conclusion asks for tokens all of which have ended
(engine.rs 3228). `Trace` is kept because whoever deletes tokens leaves one or
puts one down in the same call, so a run always has one to conclude with.
A living token that is not parked at a join is one that something outside can
move, which gives `MovesWithoutJoins`: without joins no token parks at one.

`Moves` says which of the shapes of change each step makes of `db` and of `wk`,
once for all actions; the proofs about scopes go over these shapes and not over
the actions. `SInv` is that an open scope has as many tokens waiting at its node
as were expanded and not completed, that there is one scope to a node
(`Counted`), and that a stored one has nothing left to expand (`Full`: a
sequential one its next element, a parallel one all of them). A token sits down
or leaves at a node without a scope, or with it at one step of its counter; only
the arrival of a further token could disturb it, and that is `ArrivesAlone`. The
last completion closes the scope and takes the tasks that are left, so an
instance that has concluded has no scope.

For the joins the shapes of change are too coarse, as they do not tell over which
flow a token comes. `JInv` is that every token at a join, in `db` and in `wk`,
came over a flow of it. Each action is shown to leave a token where it is or to
bring it somewhere over a flow (`Comes`), and each step of a run to let a token
leave a join only if that join is open (`Walks`), that is, has as many tokens as
flows (`Turns`, `Gathered`). By `OnePerFlow` they came over different flows, so by
counting over all of them (`EachFlow`). This is where the graph must be finite
(`NodesAssumption`). A token that leaves a join is told from one that stays by its
`via`, which is the join itself; hence `Direct`.

`SubflowsProofs` (from `SubflowAssumption`):

- `Invariance`: `Spec => []IInv`, where `IInv` is `Typed`, `Listed` and that
  `replayed` are tokens and `raced` visits;
- `SubflowTypes`: `TypeOK`; `CancellationReaches`: `CancelReaches`;
- `OneChildPerVisit` (`OneChild`): a visit has a second child only where a launch
  found none while another, which had found none either, was about to create it
  (`raced`). No hypothesis: launches overlap as they will;
- `PassedOnlyByChild` (`PassedByChild`): a token leaves a call activity only when
  the child launched there is completed, but for the two ways past it that the
  code has: a conflict made a report of this token start over after it had moved
  the token (`replayed`), or two launches overlapped at a visit of this token
  (`raced`). No other token is led astray by either. No hypothesis;
- `OneCallConverges` (`ReplayConverges`), from `OneCallEach`, no way has two call
  activities: then there is no exception at all. Replays and doubled children are
  harmless exactly where no second call activity follows.

*The argument.* What a call has found may be outdated when it uses it. `CallOk`
says what is still true of it: the children it reports are completed (nothing
undoes that), what it waits for are call activities on the tokens' ways, and if
its copy of the parent is still current (`fresh`; every save ends that of all
others) the token it is about to move waits. Hence every save that succeeds
moves a token that waits at a call activity. For `CancellationReaches`, a child
that a cascade listed is on its list to do or over (`Listed`), and the list only
loses a child by ending it; the step that ends the cascade finds it empty. For
`OneChildPerVisit`, at a visit that is not raced one launch at most is about to
create, and there is no child yet (`Single`): a launch picks a visit whose child
does not exist, if another is about to create it the visit is raced from then on,
and the creation is the only step that adds one.

For `PassedOnlyByChild` a report must be about the node its token is at. The
code does not compare the two: the wake moves the token of the child's visit
wherever it waits. `Standing` says why it is the same node. A child that is not
over keeps its token where it is (`Attended`), as the token can be moved only by
a report of a child at that node, and by `Single` there is no other one. What
a call waits for, creates or reports belongs to the node the token is at
(`Right`), and no two calls report one child (`Apart`), so a token that one call
moves is no other call's: each completed child is reported by the call that
completed it. A conflict is the one step that breaks it. `complete_subflow`
retries whatever part of the wake conflicted, the launch after the move
included, and then the report it starts over is about a node the token has left;
`replayed` has these tokens. The second child of a raced visit is the other
exception: it reports a token that has gone on. `Astray` has both, and `Right` and
`PassedByChild` leave its tokens out. In `OneCallConverges` the node is the same
because a way has only one at which a token can wait for a child.

Only model-checked:

- `NotStuck` of definitions with joins: whether the tokens that wait at a join
  will be joined depends on the whole graph of the definition, and no invariant
  of a step's two nodes says it;
- `SideTables`: its ledger is rebuilt with `SelectSeq` and `SetToSeq`, of which
  the library has no facts and whose definitions recur over data;
- the pure functions: what they compute is defined by recursion over data;
- the liveness properties, which are out of this prover's reach.

## 5. Where the code departs from what one would expect

Besides the two findings, these properties are stated in the modules and TLC
refutes them; passing runs leave out the part that each shows, or their
properties name it as the exception. To reproduce one, put it into the run's cfg
with the constants given.

| property | how | what happens |
|---|---|---|
| `AsyncHasJob` | `ProcessEngine`, `Flow <- HandoverFlow`, `Calls <- HandoverCalls` | a token that reaches an asynchronous task by a task's completion has no job: only start and the completion of a job flush jobs (engine.rs 403) |
| `TerminalClean` | `ProcessEngine`, `DeadLetterFlow`, `DeadLetterCalls` | a dead letter put back revives an ended token of a cancelled instance (3467) |
| `OnlyByDelegate` | `AsyncJobs`, two tokens | a flush writes back the job another worker completed, and its second answer may pass the next task (3257) |
| `NoDuplicate` | `Subflows` | two launches of one visit both look before either creates, and there are two children (745) |
| `ReplayConverges` of the tokens not in `replayed` | `Subflows` | the second child of such a visit reports a token that has gone on: it passes the next call activity without that one's child (977 asks only whether the token waits) |
| `ReplayConverges` | `Subflows` | a conflict in the launch a wake goes on to replays the wake, and the token passes the next call activity without its child (957); the comment calls the advance idempotent |
| `NotStuck` | `ProcessEngine`, `AbandonedFlow`, `AbandonedCalls` | an inclusive join is evaluated only when a token arrives: one parked there stays when the branch it waited for ends elsewhere (2815), although usage/05-conditions-and-decisions.md:151 promises the opposite |
| `JoinsComplete` | `ProcessEngine`, `RemindedFlow`, `RemindedCalls` | a parallel join counts tokens and not flows: a reminder that leads back into its branch opens the join together with that branch while the other one's task is open (engine.rs 2749), although usage/05-conditions-and-decisions.md:152 says it waits for the tokens of all incoming flows |
| `ScopeCounts`, `TerminalClean` | `ProcessEngine`, `TwiceFlow`, `TwiceCalls` | two branches at one multi-instance node share the first open scope's count; the first to conclude takes the tasks of both, and the other scope stays open in the instance that is over (4384, 4464) |
| `IncomingIsCounted` | `Algorithms` | a subprocess with several ends counts its outgoing flow once each: a join behind it never completes (ir.rs 486, engine.rs 2749) |
| `UrgeHeard` | `TaskHandover` | a copy that was read suppresses the copy of an urge (3905) |
| `RetriedAgain` | `SideTables` | a retry that fails again closes the ledger row it has just written, so the next round does not find it (1730) |
| `Delivered` | `SideTables`, `ScanLimit = 1` | an instance older than the scan's limit, with another's row first, is not found (2064) |
| `DeadManageable` | `EventOutbox` | dead rows of a deleted subscriber can be neither resent nor skipped (event_outbox.rs 327) |
| `Drained` | `EventOutbox`, `Endless = TRUE` | renewing also extends rows of a batch that was given up (375) |
| `ActiveNeverDeleted` | `Registry` | a deletion checks before an activation and deletes after it (service.rs 213) |
| `PublishedPassGate` | `Registry` | the draft the gate reads is not the one that is published (143) |
| `AnnouncedOnce` | `Requests`, `MaxTask = 3`, `Faults = 0` | a completion announces the open tasks of other branches again (handlers.rs 1680) |
| `EndTold` | `Requests` | a start that runs through to the end is announced as started only (handlers.rs 1037): `InstanceCompleted` is emitted by `complete_task` alone (1696), although usage/08-external-integration.md:234 lists `instance.completed` for an instance's life and :324 builds on it. The same holds of an end that the engine brings about itself (a timer, a message, a job, a sub-process), which no handler sees |
| `PathsAreNames` | `Algorithms` | `check_decls` takes every name that is not blank (var_schema.rs 384), although the declaration calls it an identifier of the expression (114): `a b` or `1` is no name for the lexer, `or` is an operator, and `a.b` beside the field `b` of `a` is offered twice under one path |

Also left out of the passing runs, because properties fail there and no comment
of the code speaks of it: withdrawing to a first task with boundary timers (none
is armed) or inside a parallel branch, and jumping into a branch of a fork (the
join waits for a sibling that is gone); a timer behind an event gateway whose
expression fails after another was armed (3104, where `TimersMatch` fails); call activities that can be
refused where a child of the same node runs (`mark_subflow_incident`, 910, makes
an incident of it too, and its report is dropped). Suspension stops people's
calls only: claims, timers, messages and job results go on. Correlation at an
event gateway does not compare keys, and event gateways are not scanned: once
their subscription is deleted with another branch's they cannot be reached by a
key.

The pure functions are checked where their inputs are in the documented form.
Outside of it: a comma inside `role(a,b)` splits the candidate, repeated or
misordered units of a duration are added up and a long one wraps, an unknown
function is an error only when evaluated, `_` and `%` in an organisation's path
are wildcards of `LIKE`, the first start event in document order is the start,
and a terminate end inside an embedded subprocess is passed through.

## 6. Not modelled

- `migrate_instance` (a plan validated on one load and applied on another) and
  the start of an instance by a message;
- children of children, and children that end otherwise than by a task;
- leases of due timers across replicas: `trigger_due_timers` takes them like the
  other pollers, and what a late or a doubled batch does to one instance is in
  `ProcessEngine`, where a timer that is gone fires nothing;
- external workers by topic and the discard of dead letters;
- tenants (a map of runtimes built once each), designer collaboration (one
  mutex, nothing reaches the engine), identity (SQL lookups whose answer is a
  free choice here), statistics, simulation and todo lists (projections),
  adapters and the worker SDK (I/O), start-up code, the demo and the in-memory
  store of the tests (the same operations under one mutex);
- rounding of floats, date functions, and the order in which PostgreSQL makes
  sequence numbers visible: a row of the outbox is written and numbered in one
  step.

What would come next: a condition on the graph that implies `ArrivesAlone` and
`OnePerFlow` and lets `NotStuck` be proved with joins (branches that are properly
nested), and
`ReplayConverges` with a report that names the visit it is about, as a proposal
for the code.
