---------------------------- MODULE ProcessEngine ----------------------------
(***************************************************************************)
(* The calls of the engine on one process instance: how each one changes   *)
(* the aggregate before run_to_wait, what it saves, and the side tables it *)
(* writes outside the aggregate's transaction (async jobs, dead letters).  *)
(*                                                                         *)
(* A call whose handler changes nothing run_to_wait could act on is one    *)
(* action; the others begin a run (Begin) that ends with Commit, or with   *)
(* Discard when anything after the load failed.                            *)
(***************************************************************************)
EXTENDS TokenKernel

CONSTANT Calls    \* Calls[f]: the calls made on instances of flow f

CallName ==
  {"complete", "addSign", "reject", "jump", "withdraw", "cancel", "suspend", "resume",
   "retryIncident", "correlate", "timers", "completeAsync", "failAsync",
   "retryDeadLetter", "subflow"}

ASSUME CallsAssumption ==
  /\ Calls \in [Flow -> SUBSET CallName]
  /\ MaxToken \in Nat \ {0} /\ MaxTask \in Nat \ {0} /\ MaxScope \in Nat

VARIABLES
  asyncJob,     \* cmx_flow_async_job: rows as <token, node>
  deadLetter    \* cmx_flow_dead_letter_job

vars == <<flow, db, wk, op, asyncJob, deadLetter>>

Job(f) == [token : TokenId, node : Node(f)]
NoJob == [token |-> 0, node |-> ""]
Idle == [name |-> "idle", jobs |-> {}, row |-> NoJob]

TypeOK ==
  /\ flow \in Flow
  /\ db \in Aggregate(flow)
  /\ wk \in Aggregate(flow)
  /\ op \in [name : CallName \cup {"idle", "batch", "start"}, jobs : SUBSET Job(flow),
             row : Job(flow) \cup {NoJob}]
  /\ asyncJob \subseteq Job(flow)
  /\ deadLetter \subseteq Job(flow)

Init ==
  /\ flow \in Flow
  /\ db = Absent
  /\ wk = Absent
  /\ op = Idle
  /\ asyncJob = {}
  /\ deadLetter = {}

May(call) == op = Idle /\ db.inst # "None" /\ call \in Calls[flow]
Tables == <<asyncJob, deadLetter>>

\* The call goes on to run_to_wait with aggregate `a`.
Begin(call, a) ==
  /\ wk' = a
  /\ op' = [Idle EXCEPT !.name = call]
  /\ UNCHANGED <<flow, db>>

\* The call saves aggregate `a` as it is.
Save(a) == db' = a /\ wk' = a /\ UNCHANGED <<flow, op>>

StartProcess ==
  /\ op = Idle
  /\ db.inst = "None"
  /\ Begin("start", [Absent EXCEPT !.inst = "Active",
                       !.token[1] = [state |-> "Active", node |-> Def[flow].start,
                                     via |-> ""]])
  /\ UNCHANGED Tables

\* start_process_inner and complete_async_job write the new jobs after the
\* save; no other call does.
Flushed(jobs) == IF op.name \in {"start", "completeAsync"} THEN jobs ELSE {}

Commit ==
  /\ Settled
  /\ db' = Concluded(wk)
  /\ wk' = Concluded(wk)
  /\ op' = Idle
  /\ asyncJob' = asyncJob \cup Flushed(op.jobs)
  /\ UNCHANGED <<flow, deadLetter>>

\* An error of the handler or of run_to_wait, a conflict at the save or a
\* crash: nothing is saved.  complete_async_job has deleted its row by then
\* and puts it back only after a conflict.
Discard ==
  /\ op # Idle
  /\ wk' = db
  /\ op' = Idle
  /\ \/ asyncJob' = asyncJob
     \/ op.row # NoJob /\ asyncJob' = asyncJob \cup {op.row}
  /\ UNCHANGED <<flow, db, deadLetter>>

-----------------------------------------------------------------------------
(* Tasks. *)

\* A task a person may act on: open, and its instance is not suspended.
Actionable(k) == db.inst # "Suspended" /\ db.task[k].state = "Open"


\* A temporary task added to `parent`: the token stays, the parent is open
\* again.
FinishAddSign(a, parent) ==
  IF a.task[parent].state = "Suspended" THEN [a EXCEPT !.task[parent].state = "Open"] ELSE a

FinishScope_KeepsTasks(a, s) ==   \* mutant
  [DropTokens(a, {a.task[k].token : k \in TasksAt(a, s.node)}) EXCEPT
     !.scope = @ \ {s},
     !.token[NextToken(a)] = [state |-> "Active", node |-> FirstOut(flow, s.node),
                              via |-> s.node]]

\* finish_mi_scope: what is left of the scope goes away, a new token leaves.
FinishScope(a, s) ==
  LET rest == TasksAt(a, s.node)
      left == DropTasks(DropTokens(a, {a.task[k].token : k \in rest}), rest)
  IN  [left EXCEPT
        !.scope = @ \ {s},
        !.token[NextToken(a)] = [state |-> "Active", node |-> FirstOut(flow, s.node),
                                 via |-> s.node]]

FinishElement_Uncounted(a, s, closes) ==   \* mutant
  IF closes THEN FinishScope(a, s)
  ELSE [a EXCEPT !.scope = (@ \ {s}) \cup
          {IF s.sequential /\ s.next < s.total THEN [s EXCEPT !.due = s.next + 1] ELSE s}]

\* complete_mi_task: count, then close the scope or expand the next one.
FinishElement(a, s, closes) ==
  LET done == [s EXCEPT !.completed = @ + 1]
      more == s.sequential /\ s.next < s.total
  IN  IF closes THEN FinishScope(a, s)
      ELSE [a EXCEPT !.scope = (@ \ {s}) \cup
              {IF more THEN [done EXCEPT !.due = s.next + 1] ELSE done}]

CompleteTask(k) ==
  LET task == db.task[k]
      base == Complete(db, {k})
      scopes == ScopesAt(db, task.node)
  IN  /\ May("complete")
      /\ Actionable(k)
      /\ \/ task.parent # 0 /\ Begin("complete", FinishAddSign(base, task.parent))
         \/ /\ task.parent = 0 /\ scopes # {}
            /\ RoomFor(db, 1)
            /\ \E s \in scopes, closes \in BOOLEAN :
                 /\ closes => s.early \/ s.completed + 1 >= s.total
                 /\ s.completed + 1 >= s.total => closes
                 /\ Begin("complete", FinishElement(Halt(base, task.token, "Ended"), s, closes))
         \/ /\ task.parent = 0 /\ scopes = {}
            /\ db.token[task.token].state = "Waiting"
            /\ Begin("complete", Place(DropTimers(base, task.token), task.token,
                                       FirstOut(flow, task.node)))
      /\ UNCHANGED Tables

\* add_sign: the task is suspended until the temporary task is done.
AddSign(k) ==
  /\ May("addSign")
  /\ Actionable(k)
  /\ HasFreeTask(db)
  /\ Save(AddTask([db EXCEPT !.task[k].state = "Suspended"],
                  db.task[k].token, db.task[k].node, k))
  /\ UNCHANGED Tables

\* reject_task: the token goes back to a user task, named by the caller or the
\* nearest one before; never from inside a multi-instance scope.
RejectTask(k, target) ==
  LET task == db.task[k]
  IN  /\ May("reject")
      /\ Actionable(k)
      /\ ScopesAt(db, task.node) = {}
      /\ Begin("reject", Place(DropTimers(Complete(db, {k}), task.token), task.token, target))
      /\ UNCHANGED Tables

-----------------------------------------------------------------------------
(* The instance as a whole. *)

JumpTo(t, target) ==
  /\ May("jump")
  /\ db.inst = "Active"
  /\ t \in Alive(db)
  /\ Begin("jump", Place(Complete(EndAll(db), LiveTasks(db)), t, target))
  /\ UNCHANGED Tables

\* By the initiator: under the strict policy only while no task has been
\* completed.
withdraw_denial == db.inst # "Active" \/ (~Def[flow].lenient /\ db.handled)

\* withdraw_process.
WithdrawProcess(landing) ==
  LET cleared == DropTasks(EndAll(db), LiveTasks(db))
      token == NextToken(db)
  IN  /\ May("withdraw")
      /\ ~withdraw_denial
      /\ RoomFor(db, 1)
      /\ Save([AddTask(cleared, token, landing, 0) EXCEPT
                !.token[token] = [state |-> "Waiting", node |-> landing, via |-> ""]])
      /\ UNCHANGED Tables

\* cancel_process deletes the async jobs before it saves; the save may fail.
CancelProcess ==
  /\ May("cancel")
  /\ ~Terminal(db)
  /\ asyncJob' = {}
  /\ \/ Save([DropTasks(EndAll(db), LiveTasks(db)) EXCEPT !.inst = "Terminated"])
     \/ UNCHANGED kernel
  /\ UNCHANGED deadLetter

SuspendProcess ==
  /\ May("suspend")
  /\ db.inst = "Active"
  /\ Save([db EXCEPT !.inst = "Suspended"])
  /\ UNCHANGED Tables

ResumeProcess ==
  /\ May("resume")
  /\ db.inst = "Suspended"
  /\ Begin("resume", [db EXCEPT !.inst = "Active"])
  /\ UNCHANGED Tables

\* Every incident token becomes Active where it stopped.
RetryIncident ==
  /\ May("retryIncident")
  /\ Tokens(db, {"Incident"}) # {}
  /\ Begin("retryIncident",
           [db EXCEPT !.token = [t \in TokenId |->
              IF @[t].state = "Incident" THEN [@[t] EXCEPT !.state = "Active"] ELSE @[t]]])
  /\ UNCHANGED Tables

-----------------------------------------------------------------------------
(* Events. *)

\* A message wakes a token at a catch event, or at an event gateway with the
\* catch event behind it, whose other events are then withdrawn.
CorrelateMessage(t, catch) ==
  /\ May("correlate")
  /\ \/ /\ db.token[t].state = "WaitingMessage"
        /\ db.token[t].node = catch
        /\ Begin("correlate", Place(db, t, FirstOut(flow, catch)))
     \/ /\ db.token[t].state = "WaitingEventGateway"
        /\ catch \in Targets(flow, db.token[t].node)
        /\ Begin("correlate", Place(DropTimers(db, t), t, FirstOut(flow, catch)))
  /\ UNCHANGED Tables

\* trigger_due_timers takes the due timers of one instance in one batch; the
\* terminal instances are skipped.
BeginTimers ==
  /\ May("timers")
  /\ ~Terminal(db)
  /\ db.timer # {}
  /\ Begin("batch", db)
  /\ UNCHANGED Tables

Rearmed(j) ==
  IF j.left > 0 THEN {[j EXCEPT !.left = @ - 1]}
  ELSE IF j.left < 0 THEN {j} ELSE {}

\* fire_timer: an intermediate timer moves its token on (and clears the token's
\* other timers at an event gateway); an interrupting one takes the task away
\* and moves the token to the boundary; any other leaves the task, may be
\* armed again, and starts a new token at the boundary.
FireTimer(j) ==
  LET t == j.token
      fired == [wk EXCEPT !.timer = @ \ {j}]
  IN  /\ op.name = "batch"
      /\ j \in wk.timer
      /\ \/ /\ wk.token[t].state \in {"None", "Removed"}
            /\ Set(fired)
         \/ /\ wk.token[t].state \notin {"None", "Removed"}
            /\ KindOf(flow, j.node) = "timerCatch"
            /\ Set(Place(IF wk.token[t].state = "WaitingEventGateway"
                         THEN DropTimers(wk, t) ELSE fired,
                         t, FirstOut(flow, j.node)))
         \/ /\ wk.token[t].state \notin {"None", "Removed"}
            /\ j.node \in Def[flow].cancel
            /\ Set(Place(DropTimers(DropTasks(wk, TasksOf(wk, t)), t), t, j.node))
         \/ /\ wk.token[t].state \notin {"None", "Removed"}
            /\ j.node \in OfKind(flow, "boundaryTimer") \ Def[flow].cancel
            /\ RoomFor(wk, 1)
            /\ Set([fired EXCEPT
                     !.timer = @ \cup Rearmed(j),
                     !.token[NextToken(wk)] =
                        [state |-> "Active", node |-> j.node, via |-> wk.token[t].node]])
      /\ UNCHANGED Tables

RunTimers ==
  /\ op.name = "batch"
  /\ Tokens(wk, {"Active"}) # {}
  /\ op' = [op EXCEPT !.name = "timers"]
  /\ UNCHANGED <<flow, db, wk, asyncJob, deadLetter>>

-----------------------------------------------------------------------------
(* Async jobs and sub-processes. *)

\* The row is deleted before anything else; a token that does not wait for a
\* job makes the call fail after that.
CompleteAsync(r) ==
  /\ May("completeAsync")
  /\ r \in asyncJob
  /\ asyncJob' = asyncJob \ {r}
  /\ IF db.token[r.token].state = "WaitingAsync"
     THEN /\ wk' = PassOn(db, r.token)
          /\ op' = [name |-> "completeAsync", jobs |-> {}, row |-> r]
          /\ UNCHANGED <<flow, db>>
     ELSE UNCHANGED kernel
  /\ UNCHANGED deadLetter

\* fail_async_job with the retries used up: the row becomes a dead letter and
\* the token an incident, unless its save fails.
FailAsync(r) ==
  /\ May("failAsync")
  /\ r \in asyncJob
  /\ asyncJob' = asyncJob \ {r}
  /\ deadLetter' = deadLetter \cup {r}
  /\ \/ /\ db.token[r.token].state = "WaitingAsync"
        /\ Save(Halt(db, r.token, "Incident"))
     \/ UNCHANGED kernel

\* A dead letter is put back when its token is still at its node, in whatever
\* state the token and the instance are.
Retryable(r) ==
  db.token[r.token].state \notin {"None", "Removed"} /\ db.token[r.token].node = r.node

RetryDeadLetter(r) ==
  /\ May("retryDeadLetter")
  /\ r \in deadLetter
  /\ deadLetter' = deadLetter \ {r}
  /\ IF Retryable(r)
     THEN Save(Halt(db, r.token, "WaitingAsync")) /\ asyncJob' = asyncJob \cup {r}
     ELSE UNCHANGED kernel /\ UNCHANGED asyncJob

\* advance_parent_after_subflow: the child instance of t is complete.
SubflowDone(t) ==
  /\ May("subflow")
  /\ db.token[t].state = "WaitingSubflow"
  /\ Begin("subflow", PassOn(db, t))
  /\ UNCHANGED Tables

\* mark_subflow_incident: every token waiting at the call activity n.
SubflowIncident(n) ==
  LET stuck == {t \in Tokens(db, {"WaitingSubflow"}) : db.token[t].node = n}
  IN  /\ May("subflow")
      /\ stuck # {}
      /\ Save([db EXCEPT !.token = [t \in TokenId |->
                 IF t \in stuck THEN [@[t] EXCEPT !.state = "Incident"] ELSE @[t]]])
      /\ UNCHANGED Tables

Run == (\E t \in TokenId : Step(t)) /\ UNCHANGED Tables
RunExpand == (\E s \in wk.scope : Expand(s)) /\ UNCHANGED Tables

Next ==
  \/ StartProcess \/ Run \/ RunExpand \/ Commit \/ Discard
  \/ \E k \in TaskId :
       \/ CompleteTask(k) \/ AddSign(k)
       \/ \E n \in OfKind(flow, "userTask") : RejectTask(k, n)
  \/ \E t \in TokenId, n \in OfKind(flow, "userTask") : JumpTo(t, n)
  \/ \E n \in FirstUserTasks[flow] : WithdrawProcess(n)
  \/ CancelProcess \/ SuspendProcess \/ ResumeProcess \/ RetryIncident
  \/ \E t \in TokenId, n \in OfKind(flow, "messageCatch") : CorrelateMessage(t, n)
  \/ BeginTimers \/ RunTimers \/ \E j \in wk.timer : FireTimer(j)
  \/ \E r \in asyncJob : CompleteAsync(r) \/ FailAsync(r)
  \/ \E r \in deadLetter : RetryDeadLetter(r)
  \/ \E t \in TokenId : SubflowDone(t)
  \/ \E n \in OfKind(flow, "callActivity") : SubflowIncident(n)

Spec == Init /\ [][Next]_vars
-----------------------------------------------------------------------------
(* What the stored aggregate promises.  db only changes when a call saves,  *)
(* so each of these is about every point at which another call may load.    *)

\* A task a person can act on and the token that waits for it belong together:
\* the token waits at the task's node, and no waiting token has none or two.
TaskTokens ==
  /\ \A k \in Open(db) :
       /\ db.token[db.task[k].token].state = "Waiting"
       /\ db.token[db.task[k].token].node = db.task[k].node
  /\ \A t \in Tokens(db, {"Waiting"}) :
       Cardinality({k \in Open(db) : db.task[k].token = t}) = 1

\* add_sign: a suspended task has a temporary task whose completion will open
\* it again ("临时任务办结后原任务恢复").
SuspendedHasChild ==
  \A k \in LiveTasks(db) :
    db.task[k].state = "Suspended" => \E c \in LiveTasks(db) : db.task[c].parent = k

\* A timer never outlives the wait it was armed for: a boundary timer's token
\* waits at the host, an intermediate one's token at the catch event or at an
\* event gateway in front of it.
Hosted(j) ==
  \/ /\ KindOf(flow, j.node) = "boundaryTimer"
     /\ db.token[j.token].state = "Waiting"
     /\ db.token[j.token].node = Def[flow].host[j.node]
  \/ db.token[j.token].state = "WaitingTimer" /\ db.token[j.token].node = j.node
  \/ /\ db.token[j.token].state = "WaitingEventGateway"
     /\ j.node \in Targets(flow, db.token[j.token].node)

\* Timers and those who wait for them belong together: every timer is Hosted;
\* whoever waits for a timer has one, whoever waits at an event gateway has
\* every timer behind it, and whoever waits at a user task has each timer that
\* may take the task away (attach_boundary_timers: "令牌到达挂有边界定时器的
\* userTask 时，为每个边界定时器建一条到期作业").
TimersMatch ==
  /\ \A j \in db.timer : Hosted(j)
  /\ \A t \in Tokens(db, {"WaitingTimer"}) :
       \E j \in db.timer : j.token = t /\ j.node = db.token[t].node
  /\ \A t \in Tokens(db, {"WaitingEventGateway"}) :
       \A c \in Targets(flow, db.token[t].node) \cap OfKind(flow, "timerCatch") :
         \E j \in db.timer : j.token = t /\ j.node = c
  /\ \A t \in Tokens(db, {"Waiting"}) :
       LET n == db.token[t].node
       IN  n \notin DOMAIN Def[flow].mi =>
             \A b \in BoundaryTimersOn(flow, n) \cap (Def[flow].cancel \ Def[flow].fragile) :
               \E j \in db.timer : j.token = t /\ j.node = b

\* An open scope accounts for its sub-instances: those expanded and not
\* completed are exactly the tokens waiting at the node, and more are due.
\* With TwiceCalls the code does not keep this: scopes are looked up by node,
\* so two that are open at one node share a count, and the first to conclude
\* takes the tasks of both (complete_mi_task, finish_mi_scope).
ScopeCounts ==
  \A s \in db.scope :
    /\ s.completed < s.total /\ s.next <= s.total
    /\ Cardinality({t \in Tokens(db, {"Waiting"}) : db.token[t].node = s.node})
         = s.next - s.completed
    /\ s.next > s.completed

\* An instance that is not over has a token something outside can move: it is
\* never left with tokens that only wait for each other at a join.  With
\* AbandonedFlow the code does not keep this: an inclusive join is evaluated
\* when a token visits it and at no other time, so that a token parked there
\* stays when the branch it waited for ends elsewhere.
NotStuck ==
  db.inst \in {"Active", "Suspended"} => Alive(db) \ Tokens(db, {"Joining"}) # {}

\* Nothing of an instance is left to do once it is over: no token is alive, no
\* task open or suspended, no timer armed, no scope open.  With DeadLetterCalls
\* the code does not keep this.
TerminalClean ==
  Terminal(db) => Alive(db) = {} /\ LiveTasks(db) = {} /\ db.timer = {} /\ db.scope = {}

\* A token that waits for a job has one that a worker can take, or a dead
\* letter that can be put back (flush_pending_async_jobs: "在每个可能产生
\* `WaitingAsync` 令牌的 save_snapshot 之后调用").  The code does not keep this:
\* TLC refutes it for HandoverFlow with HandoverCalls.
AsyncHasJob ==
  \A t \in Tokens(db, {"WaitingAsync"}) :
    [token |-> t, node |-> db.token[t].node] \in asyncJob \cup deadLetter

\* A parallel join lets one token through for one token over each of its
\* incoming flows ("等入边令牌到齐").  With RemindedCalls the code does not keep
\* this: it counts the tokens at the join, and two may have come over one flow.
JoinsComplete ==
  [][\A n \in OfKind(flow, "parallel") :
       LET used == {u \in Tokens(wk, {"Joining", "Active"}) :
                      wk.token[u].node = n /\ wk'.token[u] # wk.token[u]}
       IN  /\ op.name # "idle" /\ op'.name # "idle"
           /\ InDegree(flow, n) > 1
           /\ \E u \in used : wk'.token[u].via = n
           => Predecessors(flow, n) \subseteq {wk.token[u].via : u \in used}]_vars
=============================================================================
