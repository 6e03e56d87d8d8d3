------------------------------ MODULE Subflows ------------------------------
(***************************************************************************)
(* Sub-processes: a parent instance whose tokens wait at call activities,  *)
(* the child instances launched for them, and the calls that launch        *)
(* (launch_subflows_for), wake (complete_subflow) and cascade              *)
(* (cancel_process, suspend_process, resume_process), one action for each  *)
(* statement another call may come between.                                *)
(*                                                                         *)
(* Every token of the parent walks a way of user tasks and call            *)
(* activities, as the tokens of parallel branches do; tokens on equal ways *)
(* are on the same branch.  A child is one user task long, or over as soon *)
(* as it starts; it has no children of its own.  A section                 *)
(* that loads the parent, changes it and saves is one step where nothing   *)
(* else happens in it, and two steps with a compare-and-swap between them  *)
(* (`fresh`, see SnapshotStore) where a lost race has consequences.        *)
(*                                                                         *)
(* Bounds: MaxChild children, and Faults crashes, saves by others and      *)
(* calls of operators; a launch that looks for the child of a visit while  *)
(* another, which found none, has yet to create it counts as two.          *)
(***************************************************************************)
EXTENDS Integers, Sequences, FiniteSetsExt

CONSTANTS Caller, Token, Ways, MaxChild, Faults,
          CrashPoints    \* where a call may die

ASSUME SubflowAssumption ==
  /\ Ways \subseteq [Token -> Seq({"task", "call", "fragile"})]
  /\ MaxChild \in Nat /\ Faults \in Nat

VARIABLES
  way,      \* way[t]: what each node on the branch of token t is
  parent,   \* the state of the parent instance
  at,       \* at[t]: the node token t is at, Len(way[t]) + 1 when it is through
  tok,      \* tok[t]: its state
  child,    \* the child instances, in the order they were created
  call,     \* call[c]: the call c is in
  failed,   \* the visits a call that answered with an error has left (history)
  replayed, \* the tokens whose report started over after it had moved them (history)
  raced,    \* the visits a launch found without a child while another was
            \* about to create one (history)
  fault     \* faults so far

vars == <<way, parent, at, tok, child, call, failed, replayed, raced, fault>>
aggregate == <<parent, at, tok>>

InstanceState == {"Active", "Suspended", "Completed", "Terminated"}
Over(s) == s \in {"Completed", "Terminated"}

PC == {"idle", "launch", "find", "create", "markLoad", "mark", "wakeLoad", "wakeSave",
       "opFind", "cascade"}
Op == {"cancel", "suspend", "resume"}
Visit == Token \X Nat
NoVisit == <<>>

\* stack: the children being reported to the parent, outermost first, each
\* with the attempt it is at; root: what kind of call it was to begin with.
Free == [pc |-> "idle", root |-> "parent", stack |-> <<>>, fresh |-> FALSE,
         waiting |-> {}, visit |-> NoVisit, op |-> "cancel", todo |-> {}, listed |-> 0]
Launching == [Free EXCEPT !.pc = "launch"]

TypeOK ==
  /\ way \in Ways
  /\ parent \in InstanceState
  /\ \A t \in Token : at[t] \in 1 .. Len(way[t]) + 1
  /\ tok \in [Token -> {"Task", "Subflow", "Incident", "Ended"}]
  /\ Len(child) <= MaxChild
  /\ \A k \in DOMAIN child :
       /\ child[k].token \in Token /\ child[k].state \in InstanceState
       /\ way[child[k].token][child[k].node] # "task"
  /\ \A c \in Caller :
       /\ call[c].pc \in PC
       /\ call[c].waiting \subseteq Visit
       /\ \A i \in DOMAIN call[c].stack : child[call[c].stack[i].child].state = "Completed"
  /\ failed \subseteq Visit
  /\ replayed \subseteq Token
  /\ raced \subseteq Visit
  /\ fault \in 0 .. Faults

\* How token t is parked at node n, when run_to_wait has got it there.
Parked(t, n) ==
  IF n > Len(way[t]) THEN "Ended" ELSE IF way[t][n] = "task" THEN "Task" ELSE "Subflow"

\* start_process_inner has saved the parent; its call goes on to launch.
Init ==
  /\ way \in Ways
  /\ parent = "Active"
  /\ at = [t \in Token |-> 1]
  /\ tok = [t \in Token |-> Parked(t, 1)]
  /\ child = <<>>
  /\ \E c \in Caller : call = [d \in Caller |-> IF d = c THEN Launching ELSE Free]
  /\ failed = {}
  /\ replayed = {}
  /\ raced = {}
  /\ fault = 0

At(c, pc) == call[c].pc = pc
Fault == fault < Faults /\ fault' = fault + 1

\* The parent was saved: every copy loaded before is stale.
Stale(after) == [d \in Caller |-> [after[d] EXCEPT !.fresh = FALSE]]

\* A token goes to the next node; the instance is over with its last token,
\* suspended or not.
MoveOn(t) ==
  /\ at' = [at EXCEPT ![t] = @ + 1]
  /\ tok' = [tok EXCEPT ![t] = Parked(t, at[t] + 1)]
  /\ parent' = IF \A u \in Token : tok'[u] = "Ended" THEN "Completed" ELSE parent

Top(c) == call[c].stack[Len(call[c].stack)]
Below(c) == SubSeq(call[c].stack, 1, Len(call[c].stack) - 1)

\* A child has been reported: the launch that was interrupted by it goes on,
\* or the call is over.
Reported(c) ==
  IF Below(c) = <<>> /\ call[c].root = "child"
  THEN Free
  ELSE [call[c] EXCEPT !.pc = "launch", !.stack = Below(c)]

\* launch_subflows_for answers Ok to whoever called it.
Launched(c) == IF call[c].stack = <<>> THEN Free ELSE Reported(c)

Attempts == 3

Waiting == {<<t, at[t]>> : t \in {u \in Token : tok[u] = "Subflow"}}
VisitOf(k) == <<child[k].token, child[k].node>>

\* Mutants: the key without the node; nobody looks.
Already_ByToken(visit) == \E k \in DOMAIN child : child[k].token = visit[1]
Already_Never(visit) == FALSE

\* The key of a child is the token and the node that launched it.
Already(visit) == \E k \in DOMAIN child : VisitOf(k) = visit

\* A conflict goes up to the innermost report that has attempts left, which
\* starts over; without one the call fails.  The reports it passed have failed,
\* and so has the launch of what still waited for one.  All but the innermost
\* have moved their token, and it too where the conflict is a refusal's.
Conflict(c) ==
  LET stack == call[c].stack
      live == {i \in DOMAIN stack : stack[i].attempt < Attempts}
      up == IF live = {} THEN 0 ELSE Max(live)
      again == [stack[up] EXCEPT !.attempt = @ + 1]
      moved == up # 0 /\ (up < Len(stack) \/ call[c].pc = "mark")
  IN  /\ call' = [call EXCEPT ![c] =
                    IF up = 0 THEN Free
                    ELSE [@ EXCEPT !.pc = "wakeLoad", !.visit = NoVisit,
                                   !.stack = [SubSeq(stack, 1, up) EXCEPT ![up] = again]]]
      /\ failed' = failed
           \cup {VisitOf(stack[i].child) : i \in up + 1 .. Len(stack)}
           \cup (IF up = 0 THEN {visit \in Waiting : ~Already(visit)} ELSE {})
      /\ replayed' = IF moved THEN replayed \cup {child[stack[up].child].token} ELSE replayed

Goes(c, to) == call' = [call EXCEPT ![c] = to]

-----------------------------------------------------------------------------
(* The calls of people. *)

CompleteTask(c) ==
  /\ At(c, "idle") /\ parent = "Active"
  /\ \E t \in Token : tok[t] = "Task" /\ MoveOn(t)
  /\ call' = Stale([call EXCEPT ![c] = Launching])
  /\ UNCHANGED <<way, child, fault, failed, replayed, raced>>

\* Every incident of the instance, whatever its state.
RetryIncident(c) ==
  /\ At(c, "idle")
  /\ \E t \in Token : tok[t] = "Incident"
  /\ tok' = [t \in Token |-> IF tok[t] = "Incident" THEN Parked(t, at[t]) ELSE tok[t]]
  /\ call' = Stale([call EXCEPT ![c] = Launching])
  /\ UNCHANGED <<way, parent, at, child, fault, failed, replayed, raced>>

\* The task of a child is completed, and with it the child.
CompleteChild(c) ==
  /\ At(c, "idle")
  /\ \E k \in DOMAIN child :
       /\ child[k].state = "Active"
       /\ child' = [child EXCEPT ![k].state = "Completed"]
       /\ Goes(c, [Free EXCEPT !.pc = "wakeLoad", !.root = "child",
                               !.stack = <<[child |-> k, attempt |-> 1]>>])
  /\ UNCHANGED <<way, aggregate, fault, failed, replayed, raced>>

-----------------------------------------------------------------------------
(* launch_subflows_for *)

LaunchLoad(c) ==
  /\ At(c, "launch")
  /\ Goes(c, IF Waiting = {} THEN Launched(c)
             ELSE [call[c] EXCEPT !.pc = "find", !.waiting = Waiting])
  /\ UNCHANGED <<way, aggregate, child, fault, failed, replayed, raced>>

\* Calls that found no child of the visit and have yet to create it.  To find
\* none beside them is noted, and counts as two faults.
Creators(visit) == {d \in Caller : call[d].pc = "create" /\ call[d].visit = visit}
Overlap(visit) ==
  IF Creators(visit) = {} THEN UNCHANGED <<raced, fault>>
  ELSE raced' = raced \cup {visit} /\ fault + 2 <= Faults /\ fault' = fault + 2

\* find_child_instances, after the load: an unlaunched visit of that copy.
\* Nothing keeps two launches from finding the same.
LaunchFind(c) ==
  LET missing == {visit \in call[c].waiting : ~Already(visit)}
  IN  /\ At(c, "find")
      /\ \/ missing = {} /\ Goes(c, Launched(c)) /\ UNCHANGED <<raced, fault>>
         \/ \E visit \in missing :
              /\ Goes(c, [call[c] EXCEPT !.pc = "create", !.visit = visit, !.waiting = {}])
              /\ Overlap(visit)
      /\ UNCHANGED <<way, aggregate, child, failed, replayed>>

Finished_Always(state) == TRUE   \* mutant
Finished(state) == state = "Completed"

\* start_process_inner of the child.  One that is over at once is reported.
LaunchCreate(c) ==
  LET visit == call[c].visit
  IN  /\ At(c, "create") /\ Len(child) < MaxChild
      /\ \E state \in {"Active", "Completed"} :
           /\ child' = Append(child, [token |-> visit[1], node |-> visit[2], state |-> state])
           /\ Goes(c, IF Finished(state)
                      THEN [call[c] EXCEPT !.pc = "wakeLoad", !.visit = NoVisit,
                              !.stack = Append(@, [child |-> Len(child) + 1, attempt |-> 1])]
                      ELSE [call[c] EXCEPT !.pc = "launch", !.visit = NoVisit])
      /\ UNCHANGED <<way, aggregate, fault, failed, replayed, raced>>

\* No binding for the sub-process, or its definition is not deployed.
LaunchRefused(c) ==
  /\ At(c, "create")
  /\ way[call[c].visit[1]][call[c].visit[2]] = "fragile"
  /\ Goes(c, [call[c] EXCEPT !.pc = "markLoad"])
  /\ UNCHANGED <<way, aggregate, child, fault, failed, replayed, raced>>

\* mark_subflow_incident
MarkLoad(c) ==
  /\ At(c, "markLoad")
  /\ Goes(c, [call[c] EXCEPT !.pc = "mark", !.fresh = TRUE])
  /\ UNCHANGED <<way, aggregate, child, fault, failed, replayed, raced>>

\* Every token that waits at the node becomes an incident, those whose child
\* runs included.
MarkSave(c) ==
  /\ At(c, "mark")
  /\ IF call[c].fresh
     THEN /\ tok' = [t \in Token |->
                       IF /\ way[t] = way[call[c].visit[1]]
                          /\ <<t, call[c].visit[2]>> \in Waiting
                       THEN "Incident" ELSE tok[t]]
          /\ call' = Stale([call EXCEPT ![c].pc = "launch", ![c].visit = NoVisit])
          /\ UNCHANGED <<failed, replayed>>
     ELSE tok' = tok /\ Conflict(c)
  /\ UNCHANGED <<way, parent, at, child, fault, raced>>

-----------------------------------------------------------------------------
(* complete_subflow and advance_parent_after_subflow *)

\* The token has to wait for a sub-process; for which one is not asked.
WakeLoad(c) ==
  /\ At(c, "wakeLoad")
  /\ Goes(c, IF tok[child[Top(c).child].token] = "Subflow"
             THEN [call[c] EXCEPT !.pc = "wakeSave", !.fresh = TRUE]
             ELSE Reported(c))
  /\ UNCHANGED <<way, aggregate, child, fault, failed, replayed, raced>>

\* After the save the report goes on to launch what the token came to, still
\* inside the attempt.
WakeSave(c) ==
  /\ At(c, "wakeSave")
  /\ IF call[c].fresh
     THEN /\ MoveOn(child[Top(c).child].token)
          /\ call' = Stale([call EXCEPT ![c] = IF parent' = "Completed" THEN Reported(c)
                                               ELSE [@ EXCEPT !.pc = "launch"]])
          /\ UNCHANGED <<failed, replayed>>
     ELSE Conflict(c) /\ UNCHANGED aggregate
  /\ UNCHANGED <<way, child, fault, raced>>

-----------------------------------------------------------------------------
(* cancel_process, suspend_process, resume_process *)

Applies_Running(op, state) == state = IF op = "resume" THEN "Suspended" ELSE "Active"  \* mutant

\* Any other state is answered with the instance as it is.
Applies(op, state) ==
  CASE op = "cancel" -> ~Over(state)
    [] op = "suspend" -> state = "Active"
    [] op = "resume" -> state = "Suspended"
Outcome == [cancel |-> "Terminated", suspend |-> "Suspended", resume |-> "Active"]

OperatorLoad(c) ==
  /\ At(c, "idle") /\ Fault
  /\ \E op \in Op :
       /\ Applies(op, parent)
       /\ Goes(c, [Free EXCEPT !.pc = "opFind", !.op = op, !.fresh = TRUE])
  /\ UNCHANGED <<way, aggregate, child, failed, replayed, raced>>

OperatorFind(c) ==
  /\ At(c, "opFind")
  /\ Goes(c, [call[c] EXCEPT
                !.pc = "cascade", !.listed = Len(child),
                !.todo = {k \in DOMAIN child : Applies(call[c].op, child[k].state)}])
  /\ UNCHANGED <<way, aggregate, child, fault, failed, replayed, raced>>

\* The same call on a child, which looks at the child's state again.
CascadeOne(c) ==
  /\ At(c, "cascade")
  /\ \E k \in call[c].todo :
       /\ child' = IF Applies(call[c].op, child[k].state)
                   THEN [child EXCEPT ![k].state = Outcome[call[c].op]] ELSE child
       /\ Goes(c, [call[c] EXCEPT !.todo = @ \ {k}])
  /\ UNCHANGED <<way, aggregate, fault, failed, replayed, raced>>

\* Somebody saved that child in between: `?` ends the call on the parent.
CascadeFails(c) ==
  /\ At(c, "cascade") /\ call[c].todo # {}
  /\ Goes(c, Free)
  /\ UNCHANGED <<way, aggregate, child, fault, failed, replayed, raced>>

OperatorSave(c) ==
  /\ At(c, "cascade") /\ call[c].todo = {}
  /\ IF call[c].fresh
     THEN /\ parent' = Outcome[call[c].op]
          /\ tok' = IF call[c].op = "cancel" THEN [t \in Token |-> "Ended"] ELSE tok
          /\ call' = Stale([call EXCEPT ![c] = Free])
     ELSE UNCHANGED <<parent, tok>> /\ Goes(c, Free)
  /\ UNCHANGED <<way, at, child, fault, failed, replayed, raced>>

-----------------------------------------------------------------------------

Crash(c) ==
  /\ Fault
  /\ call[c].pc \in CrashPoints
  /\ Goes(c, Free)
  /\ UNCHANGED <<way, aggregate, child, failed, replayed, raced>>

\* A call that moves none of these tokens saves the parent.
OtherSave ==
  /\ Fault
  /\ \E c \in Caller : call[c].fresh
  /\ call' = Stale(call)
  /\ UNCHANGED <<way, aggregate, child, failed, replayed, raced>>

\* What a call under way does next.
Step(c) ==
  \/ LaunchLoad(c) \/ LaunchFind(c) \/ LaunchCreate(c) \/ LaunchRefused(c)
  \/ MarkLoad(c) \/ MarkSave(c) \/ WakeLoad(c) \/ WakeSave(c)
  \/ OperatorFind(c) \/ CascadeOne(c) \/ OperatorSave(c)

Next ==
  \/ \E c \in Caller :
       \/ Step(c)
       \/ CompleteTask(c) \/ RetryIncident(c) \/ CompleteChild(c)
       \/ OperatorLoad(c) \/ CascadeFails(c) \/ Crash(c)
  \/ OtherSave

\* A call under way goes on; people and operators may stay away.
Fairness == \A c \in Caller : WF_vars(Step(c))

Spec == Init /\ [][Next]_vars
FairSpec == Spec /\ Fairness
-----------------------------------------------------------------------------

\* A visit of a call activity has one child ("防重复启动", launch_subflows_for),
\* although the launch that looks for it and the one that creates it are calls
\* of their own and every report starts another launch: a second one only where
\* a launch looked while another was about to create.
OneChild ==
  \A k, l \in DOMAIN child : VisitOf(k) = VisitOf(l) => k = l \/ VisitOf(k) \in raced

\* A visit never has two: two launches that look before either creates break it.
NoDuplicate == \A k, l \in DOMAIN child : VisitOf(k) = VisitOf(l) => k = l

\* A token leaves a call activity only when the child launched there is
\* completed, whatever fails, is retried, marked, saved or cancelled meanwhile.
\* There are two ways past one without its child, for a report asks only whether
\* its token waits, not where: the report of the activity before starts over
\* after it has moved the token, or the activity before has two children.
Astray == replayed \cup {visit[1] : visit \in raced}
Passed(t) ==
  \A n \in 1 .. at[t] - 1 :
    way[t][n] # "task" =>
      \E k \in DOMAIN child : child[k] = [token |-> t, node |-> n, state |-> "Completed"]
PassedByChild == \A t \in Token \ Astray : Passed(t)

\* The replay of a report changes nothing that has been done: complete_subflow
\* calls it idempotent ("推进逻辑天然幂等：父令牌 WaitingSubflow 幂等检查收敛").
ReplayConverges == \A t \in Token : Passed(t)

\* Cancelling the parent ends every child that was there when it looked, those
\* suspended too, whoever completes or suspends them meanwhile.
CancelReaches ==
  [][parent' = "Terminated" /\ parent # "Terminated" =>
       \E c \in Caller : call[c].pc = "cascade" /\ call[c] # call'[c]
                         /\ \A k \in 1 .. call[c].listed : Over(child[k].state)]_vars

\* A token does not wait in silence at a call activity for a child that was
\* never launched or is completed: it is launched, or woken, in the end, or the
\* call that should have done it has failed ("静默吞掉冲突 = 父流程永久卡死且零信号").
Unserved(t) ==
  /\ tok[t] = "Subflow" /\ way[t][at[t]] = "call" /\ <<t, at[t]>> \notin failed
  /\ \A k \in DOMAIN child :
       VisitOf(k) = <<t, at[t]>> => child[k].state = "Completed"
Served == \A t \in Token : Unserved(t) ~> ~Unserved(t)
=============================================================================
