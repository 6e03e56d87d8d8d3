----------------------------- MODULE TokenKernel -----------------------------
(***************************************************************************)
(* The aggregate of one process instance and Engine::run_to_wait, the loop *)
(* that moves its tokens until each of them waits for something outside.   *)
(*                                                                         *)
(* Every engine call has the same shape: load the aggregate, change it,    *)
(* run_to_wait, save it.  wk is the private copy a call works on and db is *)
(* what is stored; SnapshotStore shows that calls on one instance behave   *)
(* as if they ran one after the other, so here one call runs at a time.    *)
(* The calls themselves are in ProcessEngine; the actions of this module   *)
(* are the arms of the loop's match, one node visit each.                  *)
(*                                                                         *)
(* Simplifications:                                                        *)
(*  - the loop takes any Active token (the code takes the first of a       *)
(*    vector whose order the database does not fix);                       *)
(*  - a completed task is forgotten, except that one exists (handled);     *)
(*    a finished multi-instance scope is forgotten altogether;             *)
(*  - ids are drawn from bounded sets; a token id is never used again;     *)
(*  - a timer is its token, its node and the repetitions it has left; when *)
(*    it is due is left open;                                              *)
(*  - variables, assignees, candidates and history records are left out.   *)
(***************************************************************************)
EXTENDS FlowDefinition

CONSTANTS MaxToken, MaxTask, MaxScope

VARIABLES
  flow,   \* the instance's definition_key
  db,     \* the stored aggregate
  wk,     \* the aggregate of the call that runs
  op      \* the call that runs, [name |-> "idle"] between calls

kernel == <<flow, db, wk, op>>

TokenId == 1 .. MaxToken
TaskId == 1 .. MaxTask
ScopeId == 1 .. MaxScope
WaitState == {"Waiting", "WaitingTimer", "WaitingMessage", "WaitingEventGateway",
              "WaitingAsync", "WaitingSubflow", "Joining", "Incident"}
TokenState == WaitState \cup {"None", "Active", "Ended", "Removed"}

NoToken == [state |-> "None", node |-> "", via |-> ""]
GoneToken == [state |-> "Removed", node |-> "", via |-> ""]
NoTask == [state |-> "None", token |-> 0, node |-> "", parent |-> 0]

\* `via` is the node a token came from: no part of the program, kept to say
\* which incoming flow a token used.
AnyNode(f) == Node(f) \cup {""}
Token(f) == [state : TokenState, node : AnyNode(f), via : AnyNode(f)]
Task(f) == [state : {"None", "Open", "Suspended"}, token : TokenId \cup {0},
            node : AnyNode(f), parent : TaskId \cup {0}]
Timer(f) == [token : TokenId, node : Node(f), left : Nat \cup {-1}]
\* An open multi-instance scope: `next` sub-instances exist or existed, and
\* the call that runs still has to expand those up to `due`.
Scope(f) ==
  [id : ScopeId, node : Node(f), sequential : BOOLEAN, early : BOOLEAN,
   total : Nat, completed : Nat, next : Nat, due : Nat]

Aggregate(f) ==
  [inst : {"None", "Active", "Suspended", "Completed", "Terminated"},
   token : [TokenId -> Token(f)],
   task : [TaskId -> Task(f)],
   timer : SUBSET Timer(f),
   scope : SUBSET Scope(f),
   handled : BOOLEAN]

Absent ==
  [inst |-> "None",
   token |-> [t \in TokenId |-> NoToken],
   task |-> [k \in TaskId |-> NoTask],
   timer |-> {}, scope |-> {}, handled |-> FALSE]

Terminal(a) == a.inst \in {"Completed", "Terminated"}
Tokens(a, states) == {t \in TokenId : a.token[t].state \in states}
Open(a) == {k \in TaskId : a.task[k].state = "Open"}
Alive(a) == Tokens(a, WaitState \cup {"Active"})

-----------------------------------------------------------------------------
(* The changes the engine makes to an aggregate. *)

NextToken(a) == 1 + Cardinality({t \in TokenId : a.token[t].state # "None"})

\* An id for a new task: neither taken nor named by a live task as its parent.
FreeTask(a) ==
  {k \in TaskId : /\ a.task[k].state = "None"
                  /\ \A c \in TaskId : a.task[c].state # "None" => a.task[c].parent # k}
HasFreeTask(a) == FreeTask(a) # {}
NextTask(a) == CHOOSE k \in FreeTask(a) : TRUE

Halt(a, t, state) == [a EXCEPT !.token[t].state = state]
Place(a, t, n) ==
  [a EXCEPT !.token[t] = [state |-> "Active", node |-> n, via |-> a.token[t].node]]
PassOn(a, t) == Place(a, t, FirstOut(flow, a.token[t].node))
DropTokens(a, gone) ==
  [a EXCEPT !.token = [t \in TokenId |->
     IF t \in gone THEN GoneToken ELSE @[t]]]

\* One token per target: t itself takes the first, new tokens the others.
Split(a, t, targets) ==
  LET first == NextToken(a) - 2
  IN  [a EXCEPT !.token = [u \in TokenId |->
         CASE u = t -> [state |-> "Active", node |-> targets[1], via |-> @[t].node]
           [] u - first \in 2 .. Len(targets) ->
                [state |-> "Active", node |-> targets[u - first], via |-> @[t].node]
           [] OTHER -> @[u]]]
RoomFor(a, more) == NextToken(a) + more <= MaxToken + 1

DropTasks(a, gone) ==
  [a EXCEPT !.task = [k \in TaskId |-> IF k \in gone THEN NoTask ELSE @[k]]]
TasksOf(a, t) == {k \in TaskId : a.task[k].state # "None" /\ a.task[k].token = t}
TasksAt(a, n) == {k \in TaskId : a.task[k].state # "None" /\ a.task[k].node = n}
LiveTasks(a) == {k \in TaskId : a.task[k].state # "None"}

\* Mutant of DropTimers: the timers stay.
DropTimers_None(a, t) == a

DropTimers(a, t) == [a EXCEPT !.timer = {j \in @ : j.token # t}]

\* task.completed = true.
Complete(a, done) == [DropTasks(a, done) EXCEPT !.handled = @ \/ done # {}]

AddTask(a, t, n, parent) ==
  [a EXCEPT !.task[NextTask(a)] =
     [state |-> "Open", token |-> t, node |-> n, parent |-> parent]]

\* Mutant of EndAll: armed timers stay.
EndAll_KeepsTimers(a) ==
  [a EXCEPT !.token = [t \in TokenId |->
              IF t \in Alive(a) THEN [@[t] EXCEPT !.state = "Ended"] ELSE @[t]],
            !.scope = {}]

\* Every token Ended, no timer and no open scope: what TerminateEndEvent, an
\* error event subprocess, jump_to, withdraw and cancel have in common.
EndAll(a) ==
  [a EXCEPT !.token = [t \in TokenId |->
              IF t \in Alive(a) THEN [@[t] EXCEPT !.state = "Ended"] ELSE @[t]],
            !.timer = {},
            !.scope = {}]

ScopesAt(a, n) == {s \in a.scope : s.node = n}
FreeScope(a) == {i \in ScopeId : \A s \in a.scope : s.id # i}
HasFreeScope(a) == FreeScope(a) # {}
NextScope(a) == CHOOSE i \in FreeScope(a) : TRUE

-----------------------------------------------------------------------------
(* run_to_wait: one action per kind of node an Active token can be at. *)

Running == op.name \notin {"idle", "batch"}

\* A call visits the Active token t at a node of one of these kinds.
Visit(t, kinds) ==
  /\ Running
  /\ wk.token[t].state = "Active"
  /\ KindOf(flow, wk.token[t].node) \in kinds

Here(t) == wk.token[t].node
Set(a) == wk' = a /\ UNCHANGED <<flow, db, op>>

\* Nodes a token passes through on its only flow.
PassThrough(t) ==
  /\ Visit(t, {"start", "businessRule", "subProcess", "boundaryTimer",
               "boundaryError", "errorStart"})
  /\ Out(flow, Here(t)) # <<>>
  /\ Set(PassOn(wk, t))

\* endEvent, and the end of an embedded sub-process that has no way out.
End(t) ==
  /\ Visit(t, {"end", "subProcess", "eventSubProcess"})
  /\ Out(flow, Here(t)) = <<>>
  /\ Set(Halt(wk, t, "Ended"))

\* TerminateEndEvent: open tasks become completed ones.
TerminateEnd(t) ==
  /\ Visit(t, {"terminateEnd"})
  /\ Set(Complete(EndAll(wk), LiveTasks(wk)))

\* The condition that holds first decides; when none holds and there is no
\* default the call fails (Discard).
ExclusiveGateway(t) ==
  /\ Visit(t, {"exclusive"})
  /\ \E n \in Targets(flow, Here(t)) : Set(Place(wk, t, n))

\* A service task for a worker: an AsyncJob is appended to the snapshot and
\* the token parks.
ParkAsync(t) ==
  /\ Visit(t, {"serviceTask"})
  /\ Here(t) \in Def[flow].async
  /\ wk' = Halt(wk, t, "WaitingAsync")
  /\ op' = [op EXCEPT !.jobs = @ \cup {[token |-> t, node |-> Here(t)]}]
  /\ UNCHANGED <<flow, db>>

\* A delegate called in place.  A BPMN error goes to a matching boundary event
\* of the task, else to an error event subprocess, which ends everything
\* else; any other failure parks the token as an incident.
ServiceTask(t) ==
  /\ Visit(t, {"serviceTask"})
  /\ Here(t) \notin Def[flow].async
  /\ \E answer \in Def[flow].throws[Here(t)] :
       LET boundary == BoundaryErrorsFor(flow, Here(t), answer)
           starts == ErrorStartsFor(flow, answer)
       IN \/ answer = "ok" /\ Set(PassOn(wk, t))
          \/ /\ answer = "failed"
             /\ Set(Halt(wk, t, "Incident"))
          \/ /\ answer \notin {"ok", "failed"}
             /\ boundary = {} /\ starts = {}
             /\ Set(Halt(wk, t, "Incident"))
          \/ /\ answer \notin {"ok", "failed"}
             /\ \E b \in boundary : Set(Place(wk, t, FirstOut(flow, b)))
          \/ /\ answer \notin {"ok", "failed"}
             /\ boundary = {}
             /\ RoomFor(wk, 1)
             /\ \E e \in starts :
                  Set([Complete(EndAll(wk), LiveTasks(wk)) EXCEPT
                         !.token[NextToken(wk)] = [state |-> "Active", via |-> Here(t),
                                                   node |-> FirstOut(flow, e)]])

\* Tokens parked at a joining gateway.
Parked(a, n) == {u \in TokenId : a.token[u].state = "Joining" /\ a.token[u].node = n}

\* One of the parked tokens survives and leaves for `targets`; the others are
\* removed.
Merge(a, n, targets) ==
  /\ RoomFor(a, Len(targets) - 1)
  /\ \E u \in Parked(a, n) :
       Set(Split(DropTokens(a, Parked(a, n) \ {u}), u, targets))

\* fork_token: a parallel gateway with one incoming flow.
ParallelFork(t) ==
  /\ Visit(t, {"parallel"})
  /\ InDegree(flow, Here(t)) <= 1
  /\ RoomFor(wk, Len(Out(flow, Here(t))) - 1)
  /\ Set(Split(wk, t, Out(flow, Here(t))))

\* Mutants of Arrived: a join that opens one token early, one that waits for
\* one too many.
Arrived_Early(a, n) == Cardinality(Parked(a, n)) >= InDegree(flow, n) - 1
Arrived_Late(a, n) == Cardinality(Parked(a, n)) > InDegree(flow, n)

\* A joining parallel gateway counts the tokens parked at it.
Arrived(a, n) == Cardinality(Parked(a, n)) >= InDegree(flow, n)

ParallelJoin(t) ==
  LET n == Here(t)
      parked == Halt(wk, t, "Joining")
  IN  /\ Visit(t, {"parallel"})
      /\ InDegree(flow, n) > 1
      /\ IF Arrived(parked, n) THEN Merge(parked, n, Out(flow, n)) ELSE Set(parked)

\* The flows an inclusive gateway takes: those whose condition holds, or the
\* default flow.
Increasing(pick) == \A i, j \in DOMAIN pick : i < j => pick[i] < pick[j]
Chosen(f, n) ==
  UNION {{[i \in 1 .. m |-> Out(f, n)[pick[i]]] :
            pick \in {p \in [1 .. m -> DOMAIN Out(f, n)] : Increasing(p)}} :
           m \in 1 .. Len(Out(f, n))}

\* Another token that is not parked here may still come.
OthersPending(a, n) ==
  \E u \in Alive(a) \ Parked(a, n) : CanReach(flow, a.token[u].node, n)

InclusiveFork(t) ==
  /\ Visit(t, {"inclusive"})
  /\ InDegree(flow, Here(t)) <= 1
  /\ \E targets \in Chosen(flow, Here(t)) :
       /\ RoomFor(wk, Len(targets) - 1)
       /\ Set(Split(wk, t, targets))

InclusiveJoin(t) ==
  LET n == Here(t)
      parked == Halt(wk, t, "Joining")
  IN  /\ Visit(t, {"inclusive"})
      /\ InDegree(flow, n) > 1
      /\ IF OthersPending(parked, n)
         THEN Set(parked)
         ELSE \E targets \in Chosen(flow, n) : Merge(parked, n, targets)

\* The timers of token t at these boundary or catch events are armed.
Armed(a, t, events) ==
  [a EXCEPT !.timer = @ \cup
     {[token |-> t, node |-> e, left |-> Repeat(flow, e)] : e \in events}]

\* A plain user task: one task, the token waits, boundary timers are armed
\* but for those whose expression cannot be evaluated.
EnterUserTask(t) ==
  LET n == Here(t)
  IN  /\ Visit(t, {"userTask"})
      /\ n \notin DOMAIN Def[flow].mi
      /\ HasFreeTask(wk)
      /\ \E skipped \in SUBSET (BoundaryTimersOn(flow, n) \cap Def[flow].fragile) :
           Set(Halt(Armed(AddTask(wk, t, n, 0), t, BoundaryTimersOn(flow, n) \ skipped),
                    t, "Waiting"))

\* A multi-instance user task: an empty collection is passed over; otherwise
\* the token is replaced by sub-instances, all of them or the first.
EnterMultiInstance(t) ==
  LET n == Here(t)
  IN  /\ Visit(t, {"userTask"})
      /\ n \in DOMAIN Def[flow].mi
      /\ \E total \in Def[flow].mi[n].sizes :
           \/ total = 0 /\ Set(PassOn(wk, t))
           \/ /\ total > 0
              /\ HasFreeScope(wk)
              /\ Set([DropTokens(wk, {t}) EXCEPT !.scope = @ \cup
                       {[id |-> NextScope(wk), node |-> n, total |-> total,
                         completed |-> 0, next |-> 0,
                         sequential |-> Def[flow].mi[n].sequential,
                         early |-> Def[flow].mi[n].early,
                         due |-> IF Def[flow].mi[n].sequential THEN 1 ELSE total]}])

\* expand_mi_element: the next sub-instance, a token that waits and its task.
\* It runs before anything else of the loop.
Expand(s) ==
  /\ Running
  /\ s \in wk.scope
  /\ s.next < s.due
  /\ RoomFor(wk, 1)
  /\ HasFreeTask(wk)
  /\ Set([AddTask(wk, NextToken(wk), s.node, 0) EXCEPT
            !.token[NextToken(wk)] = [state |-> "Waiting", node |-> s.node, via |-> s.node],
            !.scope = (@ \ {s}) \cup {[s EXCEPT !.next = @ + 1]}])

\* callActivity: the sub-process is launched after the save.
ParkSubflow(t) ==
  /\ Visit(t, {"callActivity"})
  /\ Set(Halt(wk, t, "WaitingSubflow"))

ParkMessage(t) ==
  /\ Visit(t, {"messageCatch"})
  /\ Set(Halt(wk, t, "WaitingMessage"))

\* attach_intermediate_timer, or an incident when its expression fails.
ParkTimer(t) ==
  /\ Visit(t, {"timerCatch"})
  /\ \/ Set(Halt(Armed(wk, t, {Here(t)}), t, "WaitingTimer"))
     \/ /\ Here(t) \in Def[flow].fragile
        /\ Set(Halt(wk, t, "Incident"))

\* The event gateway arms every timer behind it, in the order of its flows.
\* One that fails leaves an incident, and the timers before it stay armed.
ParkEventGateway(t) ==
  LET out == Out(flow, Here(t))
      timers(upto) == {out[i] : i \in 1 .. upto} \cap OfKind(flow, "timerCatch")
  IN  /\ Visit(t, {"eventGateway"})
      /\ \/ Set(Halt(Armed(wk, t, timers(Len(out))), t, "WaitingEventGateway"))
         \/ \E i \in DOMAIN out :
              /\ out[i] \in Def[flow].fragile
              /\ Set(Halt(Armed(wk, t, timers(i - 1)), t, "Incident"))

Expanding == \E s \in wk.scope : s.next < s.due

Step(t) ==
  /\ ~Expanding
  /\ \/ PassThrough(t) \/ End(t) \/ TerminateEnd(t) \/ ExclusiveGateway(t)
     \/ ParkAsync(t) \/ ServiceTask(t)
     \/ ParallelFork(t) \/ ParallelJoin(t) \/ InclusiveFork(t) \/ InclusiveJoin(t)
     \/ EnterUserTask(t) \/ EnterMultiInstance(t)
     \/ ParkSubflow(t) \/ ParkMessage(t) \/ ParkTimer(t) \/ ParkEventGateway(t)

\* The loop is over when no token is Active; an instance all of whose tokens
\* have ended is Completed, whatever it was before.
Settled == Running /\ ~Expanding /\ Tokens(wk, {"Active"}) = {}
Concluded(a) ==
  IF Alive(a) = {} /\ Tokens(a, {"Ended"}) # {} THEN [a EXCEPT !.inst = "Completed"] ELSE a
=============================================================================
