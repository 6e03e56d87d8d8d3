------------------------ MODULE ProcessEngineProofs ------------------------
(***************************************************************************)
(* What the calls of the engine keep of an instance, whatever its          *)
(* definition, however many tokens, tasks and scopes it may have, and in   *)
(* whatever order the calls come: a token that waits at a user task and    *)
(* the task it waits for belong together, a suspended task has the         *)
(* temporary one that opens it again, timers and those who wait for them   *)
(* belong together, a running instance has something to go on with, the    *)
(* scopes of a multi-instance node count who waits there, parallel joins   *)
(* wait for every flow, and nothing is left to do once the instance is     *)
(* over.                                                                   *)
(*                                                                         *)
(* The invariant has five parts. TInv holds of every definition and every  *)
(* set of calls: the stored aggregate and the copy a call works on are     *)
(* well-formed (Good), and each living token rests where something can     *)
(* take it on. NInv holds of all of them too: an instance that runs has a  *)
(* living token, or the call at work is about to put one down or to        *)
(* conclude (Lively, Trace). KInv says what the promises on tasks and      *)
(* timers need (Kept, Over); it holds where Careful does, which rules out  *)
(* the two ways in which the code loses them. SInv says that the scopes    *)
(* are right (Counted, Full); it needs, beside Careful, that a token comes *)
(* to a multi-instance node only when nobody is there (Alone), and as that *)
(* is a fact of the whole run it is a hypothesis on the behaviour. JInv    *)
(* says that tokens come to a join over its flows; it needs Careful and    *)
(* Direct, and to conclude that they came over each, OnePerFlow.           *)
(*                                                                         *)
(* Every action makes one or two of a few changes, each of which keeps     *)
(* Kept by a lemma of its own: tokens that nothing belongs to move         *)
(* (Drifts), a token sits down with a task and timers (Sits), parks with   *)
(* timers (Arms), goes and takes what belongs to it along (Frees), a task  *)
(* gets or loses a temporary one (Signs, Unsigns), a timer is armed again  *)
(* (Refires), or everything is ended (Bare). Moves says which of these a   *)
(* step makes of the stored aggregate and of the copy; NInv and SInv are   *)
(* kept by whatever is one of them, without another look at the actions.   *)
(* JInv is about the flows a token takes, which Moves does not tell: each  *)
(* action is one or more of tokens that stay, come over a flow, or leave a *)
(* join that is open (Comes, Walks, Turns).                                *)
(***************************************************************************)
EXTENDS ProcessEngine, FiniteSetTheorems, TLAPS

-----------------------------------------------------------------------------
(* Well-formed aggregates. *)

\* The token x has a place in the run.
Lives(x) == x.state \notin {"None", "Removed", "Ended"}

\* A token is on its way, waits, or has ended.
Noted(a) == \E t \in TokenId : a.token[t].state \notin {"None", "Removed"}

\* Token ids are drawn in order.
Dense(a) == \E n \in 0 .. MaxToken : \A t \in TokenId : a.token[t].state # "None" <=> t <= n

\* The state a token rests in fits the node it rests at.
RestsAt(f, state, n) ==
  \/ state \in {"Active", "Incident", "WaitingMessage"}
  \/ state = "Joining" /\ KindOf(f, n) \in {"parallel", "inclusive"} /\ InDegree(f, n) > 1
  \/ state = "Waiting" /\ KindOf(f, n) = "userTask"
  \/ state = "WaitingTimer" /\ KindOf(f, n) = "timerCatch"
  \/ state = "WaitingEventGateway" /\ KindOf(f, n) = "eventGateway"
  \/ state = "WaitingAsync" /\ KindOf(f, n) = "serviceTask"
  \/ state = "WaitingSubflow" /\ KindOf(f, n) = "callActivity"

\* A token is at a node of the definition.
Placed(f, a) ==
  \A t \in TokenId : Lives(a.token[t]) =>
    a.token[t].node \in Node(f) /\ RestsAt(f, a.token[t].state, a.token[t].node)

\* A task is at a user task and has a token that exists or existed.
TasksPlaced(f, a) ==
  \A k \in LiveTasks(a) :
    /\ a.task[k].token \in TokenId /\ a.token[a.task[k].token].state # "None"
    /\ a.task[k].node \in OfKind(f, "userTask")

\* Only boundary timers repeat.
TimersPlaced(f, a) ==
  \A j \in a.timer :
    /\ KindOf(f, j.node) \in {"timerCatch", "boundaryTimer"}
    /\ KindOf(f, j.node) = "timerCatch" => j.left = 0

ScopesPlaced(f, a) == \A s \in a.scope : s.node \in DOMAIN Def[f].mi

\* An aggregate the engine can load and work on.
Good(f, a) ==
  /\ a \in Aggregate(f)
  /\ Dense(a) /\ Placed(f, a) /\ TasksPlaced(f, a) /\ TimersPlaced(f, a)
  /\ ScopesPlaced(f, a)

\* Only service tasks have jobs.
ServiceJob(f) == [token : TokenId, node : OfKind(f, "serviceTask")]

\* Between two steps of a call, and between two calls.
TInv ==
  /\ flow \in Flow
  /\ Good(flow, db) /\ Good(flow, wk)
  /\ op \in [name : CallName \cup {"idle", "batch", "start"}, jobs : SUBSET ServiceJob(flow),
             row : ServiceJob(flow) \cup {NoJob}]
  /\ op.name = "idle" => op = Idle /\ wk = db
  /\ asyncJob \subseteq ServiceJob(flow)
  /\ deadLetter \subseteq ServiceJob(flow)

-----------------------------------------------------------------------------
(* What belongs together. *)

\* The instances the promises are proved for: a task that waits for a temporary
\* one is not rejected meanwhile (reject_task takes the token and leaves the
\* other task behind), and no timer behind an event gateway has an expression
\* that may fail (those armed before it would stay).
Careful(f) ==
  /\ ~({"addSign", "reject"} \subseteq Calls[f])
  /\ \A g \in OfKind(f, "eventGateway") : Targets(f, g) \cap Def[f].fragile = {}

\* Every task has its token waiting at its node; every waiting token has one
\* open task.
Held(a) ==
  /\ \A k \in LiveTasks(a) :
       /\ a.token[a.task[k].token].state = "Waiting"
       /\ a.token[a.task[k].token].node = a.task[k].node
  /\ \A t \in Tokens(a, {"Waiting"}) : \E k \in Open(a) : a.task[k].token = t
  /\ \A k, l \in Open(a) : a.task[k].token = a.task[l].token => k = l

ParentOf(a, c) == a.task[c].parent

\* The tasks of one token form a chain that begins with a task of its own and
\* in which each suspended task is followed by its temporary one.
Chained(a) ==
  /\ \A c \in LiveTasks(a) : ParentOf(a, c) # 0 =>
       /\ a.task[ParentOf(a, c)].state = "Suspended"
       /\ a.task[ParentOf(a, c)].token = a.task[c].token
  /\ \A c, d \in LiveTasks(a) : ParentOf(a, c) = ParentOf(a, d) =>
       \/ c = d
       \/ ParentOf(a, c) = 0 /\ a.task[c].token # a.task[d].token
  /\ \A k \in LiveTasks(a) : a.task[k].state = "Suspended" =>
       \E c \in LiveTasks(a) : ParentOf(a, c) = k
  /\ \A S \in SUBSET LiveTasks(a) : S # {} => \E k \in S : ParentOf(a, k) \notin S

\* No task was ever signed in for another.
Unsigned(a) == \A k \in LiveTasks(a) : a.task[k].state = "Open" /\ ParentOf(a, k) = 0

\* Timer j has the wait it was armed for; nobody waits for a boundary timer at
\* a multi-instance node.
HostedIn(f, a, j) ==
  \/ /\ KindOf(f, j.node) = "boundaryTimer"
     /\ a.token[j.token].state = "Waiting"
     /\ a.token[j.token].node = Def[f].host[j.node]
     /\ Def[f].host[j.node] \notin DOMAIN Def[f].mi
  \/ /\ KindOf(f, j.node) = "timerCatch" /\ a.token[j.token].state = "WaitingTimer"
     /\ a.token[j.token].node = j.node
  \/ /\ KindOf(f, j.node) = "timerCatch" /\ a.token[j.token].state = "WaitingEventGateway"
     /\ j.node \in Targets(f, a.token[j.token].node)

\* Token t has a timer of node n.
ArmedAt(a, t, n) == \E j \in a.timer : j.token = t /\ j.node = n

\* The timers a token at node n waits for.
MustArm(f, n) ==
  IF KindOf(f, n) = "timerCatch" THEN {n}
  ELSE IF KindOf(f, n) = "eventGateway" THEN Targets(f, n) \cap OfKind(f, "timerCatch")
  ELSE {}
\* Timers and those who wait for them belong together.
Clocked(f, a) ==
  /\ \A j \in a.timer : HostedIn(f, a, j)
  /\ \A t \in Tokens(a, {"WaitingTimer", "WaitingEventGateway"}) :
       \A n \in MustArm(f, a.token[t].node) : ArmedAt(a, t, n)

\* Whoever waits at a user task has each timer that may take the task away.
Escalates(f, a) ==
  \A t \in Tokens(a, {"Waiting"}) :
       LET n == a.token[t].node
       IN  n \notin DOMAIN Def[f].mi =>
             \A b \in BoundaryTimersOn(f, n) \cap (Def[f].cancel \ Def[f].fragile) :
               ArmedAt(a, t, b)

\* All of it.
Kept(f, a) ==
  /\ Held(a) /\ Chained(a) /\ Clocked(f, a)
  /\ "addSign" \notin Calls[f] => Unsigned(a)
  /\ ("withdraw" \in Calls[f] => Def[f].cancel \subseteq Def[f].fragile) => Escalates(f, a)

\* Nothing is left to do.
Clean(a) == Alive(a) = {} /\ LiveTasks(a) = {} /\ a.timer = {} /\ a.scope = {}
\* An instance that is over has nothing left to do.
Over(f, a) == "retryDeadLetter" \notin Calls[f] => (Terminal(a) => Clean(a))

-----------------------------------------------------------------------------
(* Aggregates. *)

InstState == {"None", "Active", "Suspended", "Completed", "Terminated"}

\* An aggregate is a record of six fields.
Fields(a) ==
  a = [inst |-> a.inst, token |-> a.token, task |-> a.task, timer |-> a.timer,
       scope |-> a.scope, handled |-> a.handled]

LEMMA AggregateIs ==
  ASSUME NEW f, NEW a
  PROVE  a \in Aggregate(f) <=>
           /\ Fields(a)
           /\ a.inst \in InstState
           /\ a.token \in [TokenId -> Token(f)]
           /\ a.task \in [TaskId -> Task(f)]
           /\ a.timer \subseteq Timer(f)
           /\ a.scope \subseteq Scope(f)
           /\ a.handled \in BOOLEAN
BY DEF Aggregate, Fields, InstState

\* b is a with other tokens.
OtherTokens(a, b) ==
  /\ Fields(b)
  /\ b.inst = a.inst /\ b.task = a.task /\ b.timer = a.timer
  /\ b.scope = a.scope /\ b.handled = a.handled

LEMMA TokensSet ==
  ASSUME NEW a, Fields(a), NEW tokens
  PROVE  /\ OtherTokens(a, [a EXCEPT !.token = tokens])
         /\ [a EXCEPT !.token = tokens].token = tokens
BY DEF Fields, OtherTokens

LEMMA HaltIs ==
  ASSUME NEW f, NEW a \in Aggregate(f), NEW t \in TokenId, NEW state
  PROVE  /\ OtherTokens(a, Halt(a, t, state))
         /\ Halt(a, t, state).token =
              [a.token EXCEPT ![t] = [state |-> state, node |-> a.token[t].node, via |-> a.token[t].via]]
<1>1. Fields(a) /\ a.token \in [TokenId -> Token(f)]
  BY AggregateIs
<1>2. Halt(a, t, state) = [a EXCEPT !.token = [a.token EXCEPT ![t] = [a.token[t] EXCEPT !.state = state]]]
  BY DEF Halt
<1>3. [a.token[t] EXCEPT !.state = state] =
        [state |-> state, node |-> a.token[t].node, via |-> a.token[t].via]
  BY <1>1 DEF Token
<1> QED
  BY <1>1, <1>2, <1>3, TokensSet

LEMMA PlaceIs ==
  ASSUME NEW f, NEW a \in Aggregate(f), NEW t \in TokenId, NEW n
  PROVE  /\ OtherTokens(a, Place(a, t, n))
         /\ Place(a, t, n).token =
              [a.token EXCEPT ![t] = [state |-> "Active", node |-> n, via |-> a.token[t].node]]
<1>1. Fields(a) /\ a.token \in [TokenId -> Token(f)]
  BY AggregateIs
<1>2. Place(a, t, n) = [a EXCEPT !.token = [a.token EXCEPT ![t] =
                          [state |-> "Active", node |-> n, via |-> a.token[t].node]]]
  BY DEF Place
<1> QED
  BY <1>1, <1>2, TokensSet

LEMMA DropTokensIs ==
  ASSUME NEW f, NEW a \in Aggregate(f), NEW gone
  PROVE  /\ OtherTokens(a, DropTokens(a, gone))
         /\ DropTokens(a, gone).token =
              [t \in TokenId |-> IF t \in gone THEN GoneToken ELSE a.token[t]]
<1> DEFINE left == [t \in TokenId |-> IF t \in gone THEN GoneToken ELSE a.token[t]]
<1>1. Fields(a) /\ a.token \in [TokenId -> Token(f)]
  BY AggregateIs
<1>2. DropTokens(a, gone) = [a EXCEPT !.token = left]
  BY DEF DropTokens
<1> HIDE DEF left
<1>3. OtherTokens(a, DropTokens(a, gone)) /\ DropTokens(a, gone).token = left
  BY <1>1, <1>2, TokensSet
<1> QED
  BY <1>3 DEF left

LEMMA EndAllIs ==
  ASSUME NEW f, NEW a \in Aggregate(f)
  PROVE  /\ Fields(EndAll(a))
         /\ EndAll(a).inst = a.inst /\ EndAll(a).task = a.task
         /\ EndAll(a).timer = {} /\ EndAll(a).scope = {} /\ EndAll(a).handled = a.handled
         /\ EndAll(a).token =
              [t \in TokenId |-> IF t \in Alive(a)
                 THEN [state |-> "Ended", node |-> a.token[t].node, via |-> a.token[t].via]
                 ELSE a.token[t]]
<1> DEFINE ended == [t \in TokenId |-> IF t \in Alive(a)
                       THEN [a.token[t] EXCEPT !.state = "Ended"] ELSE a.token[t]]
           same == [t \in TokenId |-> IF t \in Alive(a)
                      THEN [state |-> "Ended", node |-> a.token[t].node, via |-> a.token[t].via]
                      ELSE a.token[t]]
<1>1. Fields(a) /\ a.token \in [TokenId -> Token(f)]
  BY AggregateIs
<1>2. EndAll(a) = [a EXCEPT !.token = ended, !.timer = {}, !.scope = {}]
  BY DEF EndAll
<1>3. \A t \in TokenId : [a.token[t] EXCEPT !.state = "Ended"] =
        [state |-> "Ended", node |-> a.token[t].node, via |-> a.token[t].via]
  BY <1>1 DEF Token
<1>4. ended = same
  BY <1>3
<1> HIDE DEF ended, same
<1>5. /\ Fields(EndAll(a))
      /\ EndAll(a).inst = a.inst /\ EndAll(a).task = a.task
      /\ EndAll(a).timer = {} /\ EndAll(a).scope = {} /\ EndAll(a).handled = a.handled
      /\ EndAll(a).token = ended
  BY <1>1, <1>2 DEF Fields
<1> QED
  BY <1>4, <1>5 DEF same

\* Tasks.
OtherTasks(a, b) ==
  /\ Fields(b)
  /\ b.inst = a.inst /\ b.token = a.token /\ b.timer = a.timer /\ b.scope = a.scope

LEMMA DropTasksIs ==
  ASSUME NEW f, NEW a \in Aggregate(f), NEW gone
  PROVE  /\ OtherTasks(a, DropTasks(a, gone)) /\ DropTasks(a, gone).handled = a.handled
         /\ DropTasks(a, gone).task =
              [k \in TaskId |-> IF k \in gone THEN NoTask ELSE a.task[k]]
<1> DEFINE left == [k \in TaskId |-> IF k \in gone THEN NoTask ELSE a.task[k]]
<1>1. Fields(a)
  BY AggregateIs
<1>2. DropTasks(a, gone) = [a EXCEPT !.task = left]
  BY DEF DropTasks
<1> HIDE DEF left
<1>3. /\ OtherTasks(a, DropTasks(a, gone)) /\ DropTasks(a, gone).handled = a.handled
      /\ DropTasks(a, gone).task = left
  BY <1>1, <1>2 DEF Fields, OtherTasks
<1> QED
  BY <1>3 DEF left

LEMMA CompleteIs ==
  ASSUME NEW f, NEW a \in Aggregate(f), NEW done
  PROVE  /\ OtherTasks(a, Complete(a, done)) /\ Complete(a, done).handled \in BOOLEAN
         /\ Complete(a, done).task =
              [k \in TaskId |-> IF k \in done THEN NoTask ELSE a.task[k]]
<1> DEFINE b == DropTasks(a, done)
           left == [k \in TaskId |-> IF k \in done THEN NoTask ELSE a.task[k]]
<1>1. /\ OtherTasks(a, b) /\ b.handled = a.handled /\ b.task = left
      /\ a.handled \in BOOLEAN
  BY DropTasksIs, AggregateIs
<1>2. Complete(a, done) = [b EXCEPT !.handled = @ \/ done # {}]
  BY DEF Complete
<1> HIDE DEF b, left
<1>3. /\ OtherTasks(a, Complete(a, done)) /\ Complete(a, done).handled \in BOOLEAN
      /\ Complete(a, done).task = left
  BY <1>1, <1>2 DEF OtherTasks, Fields
<1> QED
  BY <1>3 DEF left

LEMMA AddTaskIs ==
  ASSUME NEW f, NEW a \in Aggregate(f), NEW t, NEW n, NEW parent
  PROVE  /\ OtherTasks(a, AddTask(a, t, n, parent)) /\ AddTask(a, t, n, parent).handled = a.handled
         /\ AddTask(a, t, n, parent).task = [a.task EXCEPT ![NextTask(a)] =
              [state |-> "Open", token |-> t, node |-> n, parent |-> parent]]
<1>1. Fields(a)
  BY AggregateIs
<1> DEFINE new == [a.task EXCEPT ![NextTask(a)] =
              [state |-> "Open", token |-> t, node |-> n, parent |-> parent]]
<1>2. AddTask(a, t, n, parent) = [a EXCEPT !.task = new]
  BY DEF AddTask
<1> HIDE DEF new
<1>3. /\ OtherTasks(a, AddTask(a, t, n, parent)) /\ AddTask(a, t, n, parent).handled = a.handled
      /\ AddTask(a, t, n, parent).task = new
  BY <1>1, <1>2 DEF Fields, OtherTasks
<1> QED
  BY <1>3 DEF new

\* Timers.
OtherTimers(a, b) ==
  /\ Fields(b)
  /\ b.inst = a.inst /\ b.token = a.token /\ b.task = a.task /\ b.scope = a.scope
  /\ b.handled = a.handled

LEMMA DropTimersIs ==
  ASSUME NEW f, NEW a \in Aggregate(f), NEW t
  PROVE  /\ OtherTimers(a, DropTimers(a, t))
         /\ DropTimers(a, t).timer = {j \in a.timer : j.token # t}
<1> DEFINE left == {j \in a.timer : j.token # t}
<1>1. Fields(a) /\ DropTimers(a, t) = [a EXCEPT !.timer = left]
  BY AggregateIs DEF DropTimers
<1> HIDE DEF left
<1>2. OtherTimers(a, DropTimers(a, t)) /\ DropTimers(a, t).timer = left
  BY <1>1 DEF Fields, OtherTimers
<1> QED
  BY <1>2 DEF left

LEMMA ArmedIs ==
  ASSUME NEW f, NEW a \in Aggregate(f), NEW t, NEW events
  PROVE  /\ OtherTimers(a, Armed(a, t, events))
         /\ Armed(a, t, events).timer =
              a.timer \cup {[token |-> t, node |-> e, left |-> Repeat(flow, e)] : e \in events}
<1> DEFINE more ==
             a.timer \cup {[token |-> t, node |-> e, left |-> Repeat(flow, e)] : e \in events}
<1>1. Fields(a) /\ Armed(a, t, events) = [a EXCEPT !.timer = more]
  BY AggregateIs DEF Armed
<1> HIDE DEF more
<1>2. OtherTimers(a, Armed(a, t, events)) /\ Armed(a, t, events).timer = more
  BY <1>1 DEF Fields, OtherTimers
<1> QED
  BY <1>2 DEF more

\* Token ids that are in use are the first ones.
LEMMA NextTokenIs ==
  ASSUME NEW a, NEW n \in 0 .. MaxToken,
         \A t \in TokenId : a.token[t].state # "None" <=> t <= n
  PROVE  NextToken(a) = n + 1
<1> DEFINE used == {t \in TokenId : a.token[t].state # "None"}
<1>1. used = 1 .. n
  BY CallsAssumption DEF TokenId
<1>2. Cardinality(1 .. n) = n
  BY FS_Interval, CallsAssumption
<1>3. NextToken(a) = 1 + Cardinality(used)
  BY DEF NextToken
<1> HIDE DEF used
<1> QED
  BY <1>1, <1>2, <1>3

LEMMA SameDense ==
  ASSUME NEW a, NEW b, Dense(a),
         \A t \in TokenId : a.token[t].state # "None" <=> b.token[t].state # "None"
  PROVE  Dense(b)
BY DEF Dense

\* There is room for `more` tokens: they are the next ones.
LEMMA Room ==
  ASSUME NEW a, Dense(a), NEW more \in Nat, RoomFor(a, more)
  PROVE  /\ NextToken(a) \in Nat \ {0} /\ NextToken(a) + more - 1 \in 0 .. MaxToken
         /\ \A t \in TokenId : a.token[t].state # "None" <=> t < NextToken(a)
<1>1. PICK n \in 0 .. MaxToken : \A t \in TokenId : a.token[t].state # "None" <=> t <= n
  BY DEF Dense
<1>2. NextToken(a) = n + 1
  BY <1>1, NextTokenIs
<1> QED
  BY <1>1, <1>2, CallsAssumption DEF RoomFor, TokenId

-----------------------------------------------------------------------------
(* The graph of a definition. *)

LEMMA GraphIs ==
  ASSUME NEW f \in Flow, NEW n \in Node(f)
  PROVE  /\ KindOf(f, n) \in Kind /\ Out(f, n) \in Seq(Node(f))
         /\ OutDegreeOk(KindOf(f, n), Len(Out(f, n)))
         /\ Targets(f, n) \subseteq Node(f)
<1>1. /\ KindOf(f, n) \in Kind /\ Out(f, n) \in Seq(Node(f))
      /\ OutDegreeOk(KindOf(f, n), Len(Out(f, n)))
  BY DefAssumption DEF KindOf, Out
<1>2. Targets(f, n) \subseteq Node(f)
  BY <1>1 DEF Targets, Range
<1> QED
  BY <1>1, <1>2

LEMMA WayOut ==
  ASSUME NEW f \in Flow, NEW n \in Node(f),
         \/ Out(f, n) # <<>>
         \/ KindOf(f, n) \notin {"end", "terminateEnd", "eventSubProcess", "subProcess"}
  PROVE  FirstOut(f, n) \in Node(f)
<1> DEFINE kind == KindOf(f, n)
           degree == Len(Out(f, n))
<1>1. kind \in Kind /\ degree \in Nat /\ OutDegreeOk(kind, degree) /\ Out(f, n) \in Seq(Node(f))
  BY GraphIs
<1>2. ASSUME kind \notin {"end", "terminateEnd", "eventSubProcess", "subProcess"}
      PROVE  degree > 0
  <2> HIDE DEF kind, degree
  <2>1. CASE kind \in {"exclusive", "parallel", "inclusive"}
    BY <1>1, <2>1 DEF OutDegreeOk
  <2>2. CASE kind = "eventGateway"
    BY <1>1, <2>2 DEF OutDegreeOk
  <2>3. CASE kind \notin {"exclusive", "parallel", "inclusive", "eventGateway"}
    BY <1>1, <1>2, <2>3 DEF OutDegreeOk
  <2> QED
    BY <2>1, <2>2, <2>3
<1>3. degree > 0
  BY <1>1, <1>2
<1> QED
  BY <1>1, <1>3 DEF FirstOut

-----------------------------------------------------------------------------
(* What keeps an aggregate well-formed. *)

LEMMA GoodIs ==
  ASSUME NEW f, NEW a, Good(f, a)
  PROVE  /\ a \in Aggregate(f) /\ Fields(a)
         /\ a.token \in [TokenId -> Token(f)] /\ a.task \in [TaskId -> Task(f)]
         /\ Dense(a) /\ Placed(f, a) /\ TasksPlaced(f, a) /\ TimersPlaced(f, a)
         /\ ScopesPlaced(f, a)
BY AggregateIs DEF Good

LEMMA GoodTokens ==
  ASSUME NEW f, NEW a, Good(f, a), NEW b, OtherTokens(a, b),
         b.token \in [TokenId -> Token(f)], Dense(b), Placed(f, b),
         \A t \in TokenId : a.token[t].state # "None" => b.token[t].state # "None"
  PROVE  Good(f, b)
<1>1. b \in Aggregate(f)
  BY AggregateIs DEF Good, OtherTokens
<1>2. TasksPlaced(f, b)
  BY DEF Good, OtherTokens, TasksPlaced, LiveTasks
<1>3. TimersPlaced(f, b) /\ ScopesPlaced(f, b)
  BY DEF Good, OtherTokens, TimersPlaced, ScopesPlaced
<1> QED
  BY <1>1, <1>2, <1>3 DEF Good

LEMMA MoveGood ==
  ASSUME NEW f, NEW a, Good(f, a), NEW t \in TokenId, a.token[t].state # "None",
         NEW x \in Token(f), x.state # "None",
         Lives(x) => x.node \in Node(f) /\ RestsAt(f, x.state, x.node),
         NEW b, OtherTokens(a, b), b.token = [a.token EXCEPT ![t] = x]
  PROVE  Good(f, b)
<1>1. /\ a.token \in [TokenId -> Token(f)]
      /\ \A u \in TokenId : b.token[u] = IF u = t THEN x ELSE a.token[u]
  BY GoodIs
<1>2. b.token \in [TokenId -> Token(f)]
  BY <1>1
<1>3. \A u \in TokenId : a.token[u].state # "None" <=> b.token[u].state # "None"
  BY <1>1
<1>4. Dense(b)
  BY <1>3, SameDense, GoodIs
<1>5. Placed(f, b)
  BY <1>1, GoodIs DEF Placed
<1> QED
  BY <1>2, <1>3, <1>4, <1>5, GoodTokens

LEMMA HaltGood ==
  ASSUME NEW f, NEW a, Good(f, a), NEW t \in TokenId, a.token[t].state # "None",
         NEW state \in TokenState, state \notin {"None", "Removed"},
         \/ state = "Ended"
         \/ a.token[t].node \in Node(f) /\ RestsAt(f, state, a.token[t].node)
  PROVE  Good(f, Halt(a, t, state))
<1> DEFINE x == [state |-> state, node |-> a.token[t].node, via |-> a.token[t].via]
<1>1. a \in Aggregate(f) /\ a.token[t] \in Token(f)
  BY GoodIs
<1>2. x \in Token(f) /\ x.state = state /\ x.node = a.token[t].node
  BY <1>1 DEF Token
<1>3. OtherTokens(a, Halt(a, t, state)) /\ Halt(a, t, state).token = [a.token EXCEPT ![t] = x]
  BY <1>1, HaltIs
<1> HIDE DEF x
<1> QED
  BY <1>1, <1>2, <1>3, MoveGood DEF Lives

LEMMA PlaceGood ==
  ASSUME NEW f, NEW a, Good(f, a), NEW t \in TokenId, a.token[t].state # "None",
         NEW n \in Node(f)
  PROVE  Good(f, Place(a, t, n))
<1> DEFINE x == [state |-> "Active", node |-> n, via |-> a.token[t].node]
<1>1. a \in Aggregate(f) /\ a.token[t] \in Token(f)
  BY GoodIs
<1>2. x \in Token(f) /\ x.state = "Active" /\ x.node = n
  BY <1>1 DEF Token, TokenState, AnyNode
<1>3. OtherTokens(a, Place(a, t, n)) /\ Place(a, t, n).token = [a.token EXCEPT ![t] = x]
  BY <1>1, PlaceIs
<1> HIDE DEF x
<1> QED
  BY <1>2, <1>3, MoveGood DEF Lives, RestsAt

LEMMA DropTokensGood ==
  ASSUME NEW f, NEW a, Good(f, a), NEW gone,
         \A t \in gone : t \in TokenId /\ a.token[t].state # "None"
  PROVE  Good(f, DropTokens(a, gone))
<1> DEFINE b == DropTokens(a, gone)
<1>1. a \in Aggregate(f) /\ a.token \in [TokenId -> Token(f)]
  BY GoodIs
<1>2. OtherTokens(a, b) /\ b.token = [t \in TokenId |-> IF t \in gone THEN GoneToken ELSE a.token[t]]
  BY <1>1, DropTokensIs
<1> HIDE DEF b
<1>3. \A t \in TokenId : b.token[t] = IF t \in gone THEN GoneToken ELSE a.token[t]
  BY <1>2
<1>4. GoneToken \in Token(f) /\ GoneToken.state = "Removed"
  BY DEF GoneToken, Token, TokenState, AnyNode
<1>5. b.token \in [TokenId -> Token(f)]
  BY <1>1, <1>2, <1>4
<1>6. \A t \in TokenId : a.token[t].state # "None" <=> b.token[t].state # "None"
  BY <1>3, <1>4
<1>7. Dense(b)
  BY <1>6, SameDense, GoodIs
<1>8. Placed(f, b)
  BY <1>3, <1>4, GoodIs DEF Placed, Lives
<1>9. Good(f, b)
  BY <1>2, <1>5, <1>6, <1>7, <1>8, GoodTokens
<1> QED
  BY <1>9 DEF b

LEMMA EndAllGood ==
  ASSUME NEW f, NEW a, Good(f, a)
  PROVE  Good(f, EndAll(a))
<1> DEFINE b == EndAll(a)
           e(t) == [state |-> "Ended", node |-> a.token[t].node, via |-> a.token[t].via]
<1>1. a \in Aggregate(f) /\ a.token \in [TokenId -> Token(f)]
  BY GoodIs
<1>2. /\ Fields(b) /\ b.inst = a.inst /\ b.task = a.task
      /\ b.timer = {} /\ b.scope = {} /\ b.handled = a.handled
      /\ b.token = [t \in TokenId |-> IF t \in Alive(a) THEN e(t) ELSE a.token[t]]
  BY <1>1, EndAllIs
<1> HIDE DEF b
<1>3. \A t \in TokenId : e(t) \in Token(f) /\ e(t).state = "Ended" /\ e(t).node = a.token[t].node
  BY <1>1 DEF Token, TokenState
<1> HIDE DEF e
<1>4. \A t \in TokenId : b.token[t] = IF t \in Alive(a) THEN e(t) ELSE a.token[t]
  BY <1>2
<1>5. b.token \in [TokenId -> Token(f)]
  BY <1>1, <1>2, <1>3
<1>6. b \in Aggregate(f)
  BY <1>1, <1>2, <1>5, AggregateIs
<1>7. \A t \in Alive(a) : t \in TokenId /\ Lives(a.token[t])
  BY DEF Alive, Tokens, Lives, WaitState
<1>8. \A t \in TokenId : a.token[t].state # "None" <=> b.token[t].state # "None"
  BY <1>3, <1>4, <1>7 DEF Lives
<1>9. Dense(b)
  BY <1>8, SameDense, GoodIs
<1>10. Placed(f, b)
  BY <1>3, <1>4, GoodIs DEF Placed, Lives
<1>11. TasksPlaced(f, b)
  BY <1>2, <1>8, GoodIs DEF TasksPlaced, LiveTasks
<1>12. TimersPlaced(f, b) /\ ScopesPlaced(f, b)
  BY <1>2 DEF TimersPlaced, ScopesPlaced
<1>13. Good(f, b)
  BY <1>6, <1>9, <1>10, <1>11, <1>12 DEF Good
<1> QED
  BY <1>13 DEF b

\* Fewer tasks.
LEMMA GoodFewerTasks ==
  ASSUME NEW f, NEW a, Good(f, a), NEW gone, NEW b, OtherTasks(a, b), b.handled \in BOOLEAN,
         b.task = [k \in TaskId |-> IF k \in gone THEN NoTask ELSE a.task[k]]
  PROVE  /\ Good(f, b) /\ LiveTasks(b) = LiveTasks(a) \ gone
         /\ \A k \in LiveTasks(b) : b.task[k] = a.task[k]
<1>1. a \in Aggregate(f) /\ a.task \in [TaskId -> Task(f)]
  BY GoodIs
<1>2. NoTask \in Task(f) /\ NoTask.state = "None"
  BY DEF NoTask, Task, AnyNode
<1>3. b.task \in [TaskId -> Task(f)] /\ \A k \in TaskId : b.task[k] = IF k \in gone THEN NoTask ELSE a.task[k]
  BY <1>1, <1>2
<1>4. LiveTasks(b) = LiveTasks(a) \ gone /\ \A k \in LiveTasks(b) : b.task[k] = a.task[k]
  BY <1>2, <1>3 DEF LiveTasks
<1>5. b \in Aggregate(f)
  BY <1>1, <1>3, AggregateIs DEF OtherTasks
<1>6. TasksPlaced(f, b)
  BY <1>4, GoodIs DEF TasksPlaced, OtherTasks
<1>7. Dense(b) /\ Placed(f, b) /\ TimersPlaced(f, b) /\ ScopesPlaced(f, b)
  BY GoodIs, SameDense DEF OtherTasks, Placed, TimersPlaced, ScopesPlaced
<1> QED
  BY <1>4, <1>5, <1>6, <1>7 DEF Good

LEMMA DropTasksGood ==
  ASSUME NEW f, NEW a, Good(f, a), NEW gone
  PROVE  Good(f, DropTasks(a, gone)) /\ Good(f, Complete(a, gone))
<1> DEFINE b == DropTasks(a, gone)
           c == Complete(a, gone)
           left == [k \in TaskId |-> IF k \in gone THEN NoTask ELSE a.task[k]]
<1>1. a \in Aggregate(f) /\ a.handled \in BOOLEAN
  BY GoodIs, AggregateIs
<1>2. OtherTasks(a, b) /\ b.handled \in BOOLEAN /\ b.task = left
  BY <1>1, DropTasksIs
<1>3. OtherTasks(a, c) /\ c.handled \in BOOLEAN /\ c.task = left
  BY <1>1, CompleteIs
<1> HIDE DEF b, c
<1>4. Good(f, b)
  BY <1>2, GoodFewerTasks
<1>5. Good(f, c)
  BY <1>3, GoodFewerTasks
<1> QED
  BY <1>4, <1>5 DEF b, c

LEMMA OtherTimersGood ==
  ASSUME NEW f, NEW a, Good(f, a), NEW b, OtherTimers(a, b), b.timer \subseteq Timer(f),
         TimersPlaced(f, b)
  PROVE  Good(f, b)
<1>1. b \in Aggregate(f)
  BY AggregateIs, GoodIs DEF OtherTimers
<1>2. Dense(b) /\ Placed(f, b) /\ ScopesPlaced(f, b)
  BY GoodIs, SameDense DEF OtherTimers, Placed, ScopesPlaced
<1>3. TasksPlaced(f, b)
  BY GoodIs DEF OtherTimers, TasksPlaced, LiveTasks
<1> QED
  BY <1>1, <1>2, <1>3 DEF Good

LEMMA DropTimersGood ==
  ASSUME NEW f, NEW a, Good(f, a), NEW t
  PROVE  Good(f, DropTimers(a, t))
<1>1. a \in Aggregate(f) /\ a.timer \subseteq Timer(f)
  BY GoodIs, AggregateIs
<1>2. /\ OtherTimers(a, DropTimers(a, t))
      /\ DropTimers(a, t).timer = {j \in a.timer : j.token # t}
  BY <1>1, DropTimersIs
<1>3. TimersPlaced(f, DropTimers(a, t)) /\ DropTimers(a, t).timer \subseteq Timer(f)
  BY <1>1, <1>2, GoodIs DEF TimersPlaced
<1> QED
  BY <1>2, <1>3, OtherTimersGood

\* What is armed is typed, and fires once unless it is a boundary timer.
LEMMA RepeatTyped ==
  ASSUME NEW f \in Flow, NEW e \in OfKind(f, "timerCatch") \cup OfKind(f, "boundaryTimer")
  PROVE  Repeat(f, e) \in Nat \cup {-1} /\ (KindOf(f, e) = "timerCatch" => Repeat(f, e) = 0)
<1>1. /\ DOMAIN Def[f].repeat \subseteq OfKind(f, "boundaryTimer")
      /\ Range(Def[f].repeat) \subseteq Nat \cup {-1}
  BY DefAssumption
<1>2. e \in DOMAIN Def[f].repeat => Repeat(f, e) \in Nat \cup {-1} /\ KindOf(f, e) = "boundaryTimer"
  BY <1>1 DEF Repeat, Range, OfKind
<1>3. e \notin DOMAIN Def[f].repeat => Repeat(f, e) = 0
  BY DEF Repeat
<1> QED
  BY <1>2, <1>3

LEMMA ArmedGood ==
  ASSUME NEW f, f = flow, f \in Flow, NEW a, Good(f, a), NEW t \in TokenId,
         NEW events \in SUBSET (OfKind(f, "timerCatch") \cup OfKind(f, "boundaryTimer"))
  PROVE  Good(f, Armed(a, t, events))
<1> DEFINE armed == {[token |-> t, node |-> e, left |-> Repeat(f, e)] : e \in events}
<1>1. a \in Aggregate(f) /\ a.timer \subseteq Timer(f)
  BY GoodIs, AggregateIs
<1>2. /\ OtherTimers(a, Armed(a, t, events))
      /\ Armed(a, t, events).timer = a.timer \cup armed
  BY <1>1, ArmedIs
<1>3. \A j \in armed :
        /\ j \in Timer(f) /\ KindOf(f, j.node) \in {"timerCatch", "boundaryTimer"}
        /\ KindOf(f, j.node) = "timerCatch" => j.left = 0
  <2> SUFFICES ASSUME NEW e \in events,
                      NEW j, j = [token |-> t, node |-> e, left |-> Repeat(f, e)]
               PROVE  /\ j \in Timer(f) /\ KindOf(f, j.node) \in {"timerCatch", "boundaryTimer"}
                      /\ KindOf(f, j.node) = "timerCatch" => j.left = 0
    OBVIOUS
  <2>1. /\ Repeat(f, e) \in Nat \cup {-1} /\ (KindOf(f, e) = "timerCatch" => Repeat(f, e) = 0)
        /\ e \in Node(f) /\ KindOf(f, e) \in {"timerCatch", "boundaryTimer"}
    BY RepeatTyped DEF OfKind
  <2> QED
    BY <2>1 DEF Timer
<1> HIDE DEF armed
<1>4. TimersPlaced(f, Armed(a, t, events)) /\ Armed(a, t, events).timer \subseteq Timer(f)
  BY <1>1, <1>2, <1>3, GoodIs DEF TimersPlaced
<1> QED
  BY <1>2, <1>4, OtherTimersGood

LEMMA FreeTaskIs ==
  ASSUME NEW a, HasFreeTask(a)
  PROVE  /\ NextTask(a) \in TaskId /\ NextTask(a) \notin LiveTasks(a)
         /\ \A c \in LiveTasks(a) : a.task[c].parent # NextTask(a)
<1>1. NextTask(a) \in FreeTask(a)
  BY DEF HasFreeTask, NextTask
<1> QED
  BY <1>1 DEF FreeTask, LiveTasks

NewTask(t, n, parent) == [state |-> "Open", token |-> t, node |-> n, parent |-> parent]

LEMMA AddTaskGood ==
  ASSUME NEW f, NEW a, Good(f, a), HasFreeTask(a), NEW t \in TokenId,
         a.token[t].state # "None", NEW n \in OfKind(f, "userTask"),
         NEW parent \in TaskId \cup {0}
  PROVE  /\ Good(f, AddTask(a, t, n, parent))
         /\ OtherTasks(a, AddTask(a, t, n, parent))
         /\ AddTask(a, t, n, parent).handled = a.handled
         /\ LiveTasks(AddTask(a, t, n, parent)) = LiveTasks(a) \cup {NextTask(a)}
         /\ AddTask(a, t, n, parent).task = [a.task EXCEPT ![NextTask(a)] = NewTask(t, n, parent)]
<1> DEFINE b == AddTask(a, t, n, parent)
           x == NewTask(t, n, parent)
<1>1. a \in Aggregate(f) /\ a.task \in [TaskId -> Task(f)]
  BY GoodIs
<1>2. /\ OtherTasks(a, b) /\ b.handled = a.handled /\ b.task = [a.task EXCEPT ![NextTask(a)] = x]
  BY <1>1, AddTaskIs DEF NewTask
<1>3. x \in Task(f) /\ x.state = "Open" /\ x.token = t /\ x.node = n
  BY DEF Task, OfKind, AnyNode, NewTask
<1> HIDE DEF b, x
<1>4. \A k \in TaskId : b.task[k] = IF k = NextTask(a) THEN x ELSE a.task[k]
  BY <1>1, <1>2
<1>5. b.task \in [TaskId -> Task(f)]
  BY <1>1, <1>2, <1>3
<1>6. b \in Aggregate(f)
  BY <1>1, <1>2, <1>5, AggregateIs DEF OtherTasks
<1>7. LiveTasks(b) = LiveTasks(a) \cup {NextTask(a)}
  BY <1>3, <1>4, FreeTaskIs DEF LiveTasks
<1>8. TasksPlaced(f, b)
  BY <1>2, <1>3, <1>4, <1>7, GoodIs DEF TasksPlaced, OtherTasks, LiveTasks
<1>9. Dense(b) /\ Placed(f, b) /\ TimersPlaced(f, b) /\ ScopesPlaced(f, b)
  BY <1>2, GoodIs, SameDense DEF OtherTasks, Placed, TimersPlaced, ScopesPlaced
<1>10. Good(f, b)
  BY <1>6, <1>8, <1>9 DEF Good
<1> QED
  BY <1>2, <1>7, <1>10 DEF b, x

\* A task changes its state.
Restated(a, k, state) == [a EXCEPT !.task[k].state = state]

LEMMA TaskStateGood ==
  ASSUME NEW f, NEW a, Good(f, a), NEW k \in LiveTasks(a), NEW state \in {"Open", "Suspended"}
  PROVE  LET b == Restated(a, k, state)
         IN  /\ Good(f, b) /\ OtherTasks(a, b) /\ LiveTasks(b) = LiveTasks(a)
             /\ b.task[k].state = state /\ b.task[k].token = a.task[k].token
             /\ b.task[k].node = a.task[k].node /\ ParentOf(b, k) = ParentOf(a, k)
             /\ \A l \in TaskId : l # k => b.task[l] = a.task[l]
<1> DEFINE b == [a EXCEPT !.task[k].state = state]
           x == [a.task[k] EXCEPT !.state = state]
<1>1. /\ a \in Aggregate(f) /\ a.task \in [TaskId -> Task(f)] /\ k \in TaskId
      /\ a.handled \in BOOLEAN /\ Fields(a)
  BY GoodIs, AggregateIs DEF LiveTasks
<1>2. /\ OtherTasks(a, b) /\ b.handled = a.handled /\ b.task = [a.task EXCEPT ![k] = x]
  <2>1. b = [a EXCEPT !.task = [a.task EXCEPT ![k] = x]]
    OBVIOUS
  <2> HIDE DEF b, x
  <2> QED
    BY <1>1, <2>1 DEF Fields, OtherTasks
<1>3. /\ x \in Task(f) /\ x.state = state /\ x.token = a.task[k].token /\ x.node = a.task[k].node
      /\ x.parent = a.task[k].parent
  BY <1>1 DEF Task
<1> HIDE DEF b, x
<1>4. \A l \in TaskId : b.task[l] = IF l = k THEN x ELSE a.task[l]
  BY <1>1, <1>2
<1>5. b.task \in [TaskId -> Task(f)]
  BY <1>1, <1>2, <1>3
<1>6. b \in Aggregate(f)
  BY <1>1, <1>2, <1>5, AggregateIs DEF OtherTasks
<1>7. LiveTasks(b) = LiveTasks(a)
  BY <1>1, <1>3, <1>4 DEF LiveTasks
<1>8. TasksPlaced(f, b)
  BY <1>2, <1>3, <1>4, <1>7, GoodIs DEF TasksPlaced, OtherTasks, LiveTasks
<1>9. Dense(b) /\ Placed(f, b) /\ TimersPlaced(f, b) /\ ScopesPlaced(f, b)
  BY <1>2, GoodIs, SameDense DEF OtherTasks, Placed, TimersPlaced, ScopesPlaced
<1>10. Good(f, b)
  BY <1>6, <1>8, <1>9 DEF Good
<1> QED
  <2>1. /\ Good(f, b) /\ OtherTasks(a, b) /\ LiveTasks(b) = LiveTasks(a)
        /\ b.task[k].state = state /\ b.task[k].token = a.task[k].token
        /\ b.task[k].node = a.task[k].node /\ ParentOf(b, k) = ParentOf(a, k)
        /\ \A l \in TaskId : l # k => b.task[l] = a.task[l]
    BY <1>1, <1>2, <1>3, <1>4, <1>7, <1>10 DEF ParentOf
  <2> QED
    BY <2>1 DEF b, Restated

\* The id of the next token is free.
LEMMA NextFree ==
  ASSUME NEW f, NEW a, Good(f, a), RoomFor(a, 1)
  PROVE  /\ NextToken(a) \in TokenId /\ a.token[NextToken(a)].state = "None"
         /\ \A t \in TokenId : a.token[t].state # "None" <=> t < NextToken(a)
<1>1. /\ NextToken(a) \in 1 .. MaxToken
      /\ \A t \in TokenId : a.token[t].state # "None" <=> t < NextToken(a)
  BY GoodIs, Room, CallsAssumption
<1> QED
  BY <1>1 DEF TokenId

LEMMA DenseNext ==
  ASSUME NEW f, NEW a, Good(f, a), RoomFor(a, 1), NEW b,
         \A t \in TokenId :
           b.token[t].state # "None" <=> t = NextToken(a) \/ a.token[t].state # "None"
  PROVE  Dense(b)
<1>1. PICK m \in TokenId : m = NextToken(a)
  BY NextFree
<1>2. \A t \in TokenId : b.token[t].state # "None" <=> t <= m
  BY <1>1, NextFree DEF TokenId
<1>3. m \in 0 .. MaxToken
  BY CallsAssumption DEF TokenId
<1> QED
  BY <1>2, <1>3 DEF Dense

\* A token more.
LEMMA NewTokenGood ==
  ASSUME NEW f, NEW a, Good(f, a), RoomFor(a, 1),
         NEW x \in Token(f), Lives(x), x.node \in Node(f), RestsAt(f, x.state, x.node),
         NEW b, OtherTokens(a, b), b.token \in [TokenId -> Token(f)],
         \A t \in TokenId : b.token[t] = IF t = NextToken(a) THEN x ELSE a.token[t]
  PROVE  Good(f, b)
<1>1. Dense(b)
  <2>1. \A t \in TokenId : b.token[t].state # "None" <=> t = NextToken(a) \/ a.token[t].state # "None"
    BY DEF Lives
  <2> QED
    BY <2>1, DenseNext
<1>2. Placed(f, b)
  BY GoodIs DEF Placed
<1>3. \A t \in TokenId : a.token[t].state # "None" => b.token[t].state # "None"
  BY DEF Lives
<1> QED
  BY <1>1, <1>2, <1>3, GoodTokens

\* The same token ids are in use.
SameNone(a, b) == \A t \in TokenId : a.token[t].state = "None" <=> b.token[t].state = "None"

LEMMA SameNextToken ==
  ASSUME NEW a, NEW b, SameNone(a, b)
  PROVE  NextToken(a) = NextToken(b) /\ \A m : RoomFor(a, m) <=> RoomFor(b, m)
<1>1. {t \in TokenId : a.token[t].state # "None"} = {t \in TokenId : b.token[t].state # "None"}
  BY DEF SameNone
<1> QED
  BY <1>1 DEF NextToken, RoomFor

\* Token t leaves for the first target, the tokens that are new for the others;
\* all come from the node where t was.
LEMMA SplitIs ==
  ASSUME NEW f, NEW a, Good(f, a), NEW t \in TokenId, a.token[t].state # "None",
         NEW targets \in Seq(Node(f)), targets # <<>>, RoomFor(a, Len(targets) - 1)
  PROVE  /\ OtherTokens(a, Split(a, t, targets))
         /\ \A u \in TokenId :
              LET x == Split(a, t, targets).token[u]
              IN  \/ /\ u = t \/ a.token[u].state = "None"
                     /\ x \in Token(f) /\ x.state = "Active" /\ x.node \in Node(f)
                     /\ x.node \in Range(targets) /\ x.via = a.token[t].node
                  \/ u # t /\ x = a.token[u]
         /\ Split(a, t, targets).token \in [TokenId -> Token(f)]
         /\ Dense(Split(a, t, targets))
<1> DEFINE b == Split(a, t, targets)
           first == NextToken(a) - 2
           x(n) == [state |-> "Active", node |-> n, via |-> a.token[t].node]
           next == [u \in TokenId |->
                     CASE u = t -> x(targets[1])
                       [] u - first \in 2 .. Len(targets) -> x(targets[u - first])
                       [] OTHER -> a.token[u]]
<1>1. /\ a \in Aggregate(f) /\ Fields(a) /\ a.token \in [TokenId -> Token(f)]
  BY GoodIs
<1>2. b = [a EXCEPT !.token = next]
  BY DEF Split
<1>3. OtherTokens(a, b) /\ b.token = next
  <2> HIDE DEF b, next
  <2> QED
    BY <1>1, <1>2, TokensSet
<1> HIDE DEF b
<1>4. PICK len \in Nat \ {0} : len = Len(targets)
  OBVIOUS
<1>5. /\ NextToken(a) \in Nat \ {0} /\ NextToken(a) + len - 2 \in 0 .. MaxToken
      /\ \A u \in TokenId : a.token[u].state # "None" <=> u < NextToken(a)
  <2>1. len - 1 \in Nat /\ RoomFor(a, len - 1)
    BY <1>4
  <2>2. PICK more \in Nat : more = len - 1
    BY <2>1
  <2>3. /\ NextToken(a) \in Nat \ {0} /\ NextToken(a) + more - 1 \in 0 .. MaxToken
        /\ \A u \in TokenId : a.token[u].state # "None" <=> u < NextToken(a)
    BY <2>1, <2>2, Room, GoodIs
  <2> QED
    BY <2>2, <2>3
<1>6. /\ \A i \in 1 .. len : targets[i] \in Node(f) /\ targets[i] \in Range(targets)
      /\ 1 \in 1 .. len
  BY <1>4 DEF Range
<1>7. \A n \in Node(f) : x(n) \in Token(f) /\ x(n).state = "Active" /\ x(n).node = n
  BY <1>1 DEF Token, TokenState, AnyNode
<1>13. \A n \in Node(f) : x(n).via = a.token[t].node
  OBVIOUS
<1> HIDE DEF x
<1>8. PICK m \in Nat \ {0} : m = NextToken(a)
  BY <1>5
<1>9. \A u \in TokenId : b.token[u] =
        CASE u = t -> x(targets[1])
          [] u - (m - 2) \in 2 .. len -> x(targets[u - (m - 2)])
          [] OTHER -> a.token[u]
  BY <1>3, <1>4, <1>8
<1>10. ASSUME NEW u \in TokenId
       PROVE  /\ \/ /\ u = t \/ a.token[u].state = "None"
                    /\ b.token[u] \in Token(f) /\ b.token[u].state = "Active"
                    /\ b.token[u].node \in Node(f)
                    /\ b.token[u].node \in Range(targets) /\ b.token[u].via = a.token[t].node
                 \/ u # t /\ b.token[u] = a.token[u]
              /\ b.token[u].state # "None" <=> u <= m + len - 2
  <2>0. u \in Nat /\ t \in Nat /\ t < m
    BY <1>5, <1>8 DEF TokenId
  <2>1. CASE u = t
    <3>0. u - (m - 2) \notin 2 .. len
      BY <2>0, <2>1
    <3>1. b.token[u] = x(targets[1])
      BY <1>9, <2>1, <3>0
    <3>2. u <= m + len - 2
      BY <2>0, <2>1
    <3>3. targets[1] \in Node(f) /\ targets[1] \in Range(targets)
      BY <1>6
    <3>4. /\ b.token[u] \in Token(f) /\ b.token[u].state = "Active"
          /\ b.token[u].node \in Node(f)
          /\ b.token[u].node \in Range(targets) /\ b.token[u].via = a.token[t].node
      BY <1>7, <1>13, <3>1, <3>3
    <3> QED
      BY <2>1, <3>2, <3>4
  <2>2. CASE u # t /\ u - (m - 2) \in 2 .. len
    <3>1. b.token[u] = x(targets[u - (m - 2)])
      BY <1>9, <2>2
    <3>2. u - (m - 2) \in 1 .. len /\ ~(u < m)
      BY <2>0, <2>2
    <3>3. /\ a.token[u].state = "None"
          /\ targets[u - (m - 2)] \in Node(f) /\ targets[u - (m - 2)] \in Range(targets)
      BY <1>5, <1>6, <1>8, <3>2
    <3> QED
      BY <1>7, <1>13, <2>0, <2>2, <3>1, <3>3
  <2>3. CASE u # t /\ u - (m - 2) \notin 2 .. len
    <3>1. b.token[u] = a.token[u]
      BY <1>9, <2>3
    <3>2. u < m \/ u > m + len - 2
      BY <2>0, <2>3
    <3>3. a.token[u].state # "None" <=> u < m
      BY <1>5, <1>8
    <3> QED
      BY <2>0, <2>3, <3>1, <3>2, <3>3
  <2> QED
    BY <2>1, <2>2, <2>3
<1>11. b.token \in [TokenId -> Token(f)]
  <2>1. \A u \in TokenId : b.token[u] \in Token(f)
    BY <1>1, <1>10
  <2>2. b.token = [u \in TokenId |-> b.token[u]]
    BY <1>3
  <2> QED
    BY <2>1, <2>2
<1>12. Dense(b)
  <2>1. m + len - 2 \in 0 .. MaxToken
    BY <1>5, <1>8
  <2> QED
    BY <1>10, <2>1 DEF Dense
<1> QED
  BY <1>3, <1>10, <1>11, <1>12 DEF b

LEMMA SplitGood ==
  ASSUME NEW f, NEW a, Good(f, a), NEW t \in TokenId, a.token[t].state # "None",
         NEW targets \in Seq(Node(f)), targets # <<>>, RoomFor(a, Len(targets) - 1)
  PROVE  Good(f, Split(a, t, targets))
<1> DEFINE b == Split(a, t, targets)
<1>1. /\ OtherTokens(a, b) /\ b.token \in [TokenId -> Token(f)] /\ Dense(b)
      /\ \A u \in TokenId :
           \/ b.token[u].state = "Active" /\ b.token[u].node \in Node(f)
           \/ b.token[u] = a.token[u]
  BY SplitIs
<1> HIDE DEF b
<1>2. Placed(f, b)
  BY <1>1, GoodIs DEF Placed, RestsAt
<1>3. \A u \in TokenId : a.token[u].state # "None" => b.token[u].state # "None"
  BY <1>1
<1>4. Good(f, b)
  BY <1>1, <1>2, <1>3, GoodTokens
<1> QED
  BY <1>4 DEF b

-----------------------------------------------------------------------------
(* Steps of a run that leave tasks and timers alone. *)

\* A token that no task or timer belongs to.
Bound == {"Waiting", "WaitingTimer", "WaitingEventGateway"}

\* Only such tokens change.
Shifts(a, b) ==
  /\ OtherTokens(a, b)
  /\ \A u \in TokenId :
       \/ b.token[u] = a.token[u]
       \/ a.token[u].state \notin Bound /\ b.token[u].state \notin Bound

LEMMA ShiftsTrans ==
  ASSUME NEW a, NEW b, NEW c, Shifts(a, b), Shifts(b, c)
  PROVE  Shifts(a, c)
BY DEF Shifts, OtherTokens

LEMMA HaltShifts ==
  ASSUME NEW f, NEW a, Good(f, a), NEW t \in TokenId, a.token[t].state \notin Bound,
         NEW state, state \notin Bound
  PROVE  Shifts(a, Halt(a, t, state)) /\ Halt(a, t, state).token[t].state = state
<1>1. a \in Aggregate(f) /\ a.token \in [TokenId -> Token(f)]
  BY GoodIs
<1> DEFINE b == Halt(a, t, state)
           x == [state |-> state, node |-> a.token[t].node, via |-> a.token[t].via]
<1>2. OtherTokens(a, b) /\ b.token = [a.token EXCEPT ![t] = x] /\ x.state = state
  BY <1>1, HaltIs
<1> HIDE DEF b, x
<1>3. Shifts(a, b) /\ b.token[t].state = state
  BY <1>1, <1>2 DEF Shifts
<1> QED
  BY <1>3 DEF b

LEMMA PlaceShifts ==
  ASSUME NEW f, NEW a, Good(f, a), NEW t \in TokenId, a.token[t].state \notin Bound, NEW n
  PROVE  Shifts(a, Place(a, t, n)) /\ Place(a, t, n).token[t].state = "Active"
<1>1. a \in Aggregate(f) /\ a.token \in [TokenId -> Token(f)]
  BY GoodIs
<1> DEFINE b == Place(a, t, n)
           x == [state |-> "Active", node |-> n, via |-> a.token[t].node]
<1>2. OtherTokens(a, b) /\ b.token = [a.token EXCEPT ![t] = x] /\ x.state = "Active"
  BY <1>1, PlaceIs
<1> HIDE DEF b, x
<1>3. Shifts(a, b) /\ b.token[t].state = "Active"
  BY <1>1, <1>2 DEF Shifts, Bound
<1> QED
  BY <1>3 DEF b

LEMMA DropTokensShifts ==
  ASSUME NEW f, NEW a, Good(f, a), NEW gone, \A t \in gone : a.token[t].state \notin Bound
  PROVE  Shifts(a, DropTokens(a, gone))
<1>1. a \in Aggregate(f) /\ a.token \in [TokenId -> Token(f)]
  BY GoodIs
<1> DEFINE b == DropTokens(a, gone)
<1>2. /\ OtherTokens(a, b)
      /\ b.token = [t \in TokenId |-> IF t \in gone THEN GoneToken ELSE a.token[t]]
  BY <1>1, DropTokensIs
<1> HIDE DEF b
<1>3. \A u \in TokenId : b.token[u] = IF u \in gone THEN GoneToken ELSE a.token[u]
  BY <1>2
<1>4. GoneToken.state \notin Bound
  BY DEF GoneToken, Bound
<1>5. Shifts(a, b)
  BY <1>2, <1>3, <1>4 DEF Shifts
<1> QED
  BY <1>5 DEF b

LEMMA SplitShifts ==
  ASSUME NEW f, NEW a, Good(f, a), NEW t \in TokenId,
         a.token[t].state \notin Bound \cup {"None"},
         NEW targets \in Seq(Node(f)), targets # <<>>, RoomFor(a, Len(targets) - 1)
  PROVE  Shifts(a, Split(a, t, targets)) /\ Split(a, t, targets).token[t].state = "Active"
<1> DEFINE b == Split(a, t, targets)
<1>1. /\ OtherTokens(a, b)
      /\ \A u \in TokenId :
           \/ (u = t \/ a.token[u].state = "None") /\ b.token[u].state = "Active"
           \/ u # t /\ b.token[u] = a.token[u]
  BY SplitIs
<1> HIDE DEF b
<1>2. Shifts(a, b) /\ b.token[t].state = "Active"
  BY <1>1 DEF Shifts, Bound
<1> QED
  BY <1>2 DEF b

\* What a call that visits token t can rely on.
LEMMA Visited ==
  ASSUME TInv, NEW t \in TokenId, NEW kinds, Visit(t, kinds)
  PROVE  /\ flow \in Flow /\ Good(flow, wk) /\ op.name # "idle" /\ op.name # "batch"
         /\ wk.token[t].state = "Active" /\ wk.token[t].state \notin Bound \cup {"None"}
         /\ Lives(wk.token[t])
         /\ Here(t) = wk.token[t].node /\ Here(t) \in Node(flow)
         /\ KindOf(flow, Here(t)) \in kinds
<1>1. Good(flow, wk) /\ wk.token[t].state = "Active" /\ flow \in Flow
  BY DEF TInv, Visit
<1> QED
  BY <1>1, GoodIs DEF Visit, Running, Here, Placed, Bound, Lives

\* Parking where nothing binds, and going on to a node.
LEMMA ParkRuns ==
  ASSUME TInv, NEW t \in TokenId, NEW kinds, Visit(t, kinds),
         NEW state \in {"Ended", "Joining", "Incident", "WaitingMessage",
                        "WaitingAsync", "WaitingSubflow"},
         state = "Ended" \/ RestsAt(flow, state, Here(t))
  PROVE  /\ Good(flow, Halt(wk, t, state)) /\ Shifts(wk, Halt(wk, t, state))
         /\ Noted(Halt(wk, t, state))
         /\ Halt(wk, t, state).token[t].state = state
<1>1. /\ Good(flow, wk) /\ Here(t) = wk.token[t].node /\ Here(t) \in Node(flow)
      /\ wk.token[t].state \notin Bound \cup {"None"}
  BY Visited
<1>2. state \in TokenState /\ state \notin {"None", "Removed"} /\ state \notin Bound
  BY DEF TokenState, WaitState, Bound
<1>3. Halt(wk, t, state).token[t].state = state /\ Shifts(wk, Halt(wk, t, state))
  BY <1>1, <1>2, HaltShifts
<1>4. Noted(Halt(wk, t, state))
  BY <1>2, <1>3 DEF Noted
<1> QED
  BY <1>1, <1>2, <1>3, <1>4, HaltGood

LEMMA GoesOn ==
  ASSUME TInv, NEW t \in TokenId, NEW kinds, Visit(t, kinds), NEW n \in Node(flow)
  PROVE  /\ Good(flow, Place(wk, t, n)) /\ Shifts(wk, Place(wk, t, n))
         /\ Noted(Place(wk, t, n))
<1>1. /\ Good(flow, Place(wk, t, n)) /\ Shifts(wk, Place(wk, t, n))
      /\ Place(wk, t, n).token[t].state = "Active"
  BY Visited, PlaceGood, PlaceShifts
<1> QED
  BY <1>1 DEF Noted

\* A step of these: the copy stays well-formed, and only loose tokens move.
Runs == Good(flow, wk') /\ Shifts(wk, wk') /\ Noted(wk')

LEMMA PassThroughRuns ==
  ASSUME TInv, NEW t \in TokenId, PassThrough(t)
  PROVE  Runs
<1>1. PICK kinds : Visit(t, kinds)
  BY DEF PassThrough
<1>2. Out(flow, Here(t)) # <<>> /\ wk' = Place(wk, t, FirstOut(flow, Here(t)))
  BY DEF PassThrough, Set, PassOn, Here
<1>3. FirstOut(flow, Here(t)) \in Node(flow)
  BY <1>1, <1>2, WayOut, Visited
<1> QED
  BY <1>1, <1>2, <1>3, GoesOn DEF Runs

LEMMA EndRuns ==
  ASSUME TInv, NEW t \in TokenId, End(t)
  PROVE  Runs
<1>1. PICK kinds : Visit(t, kinds)
  BY DEF End
<1>2. wk' = Halt(wk, t, "Ended")
  BY DEF End, Set
<1> QED
  BY <1>1, <1>2, ParkRuns DEF Runs

LEMMA ExclusiveGatewayRuns ==
  ASSUME TInv, NEW t \in TokenId, ExclusiveGateway(t)
  PROVE  Runs
<1>1. PICK kinds : Visit(t, kinds)
  BY DEF ExclusiveGateway
<1>2. PICK n \in Targets(flow, Here(t)) : wk' = Place(wk, t, n)
  BY DEF ExclusiveGateway, Set
<1>3. n \in Node(flow)
  BY <1>1, GraphIs, Visited
<1> QED
  BY <1>1, <1>2, <1>3, GoesOn DEF Runs

LEMMA ParkAsyncRuns ==
  ASSUME TInv, NEW t \in TokenId, ParkAsync(t)
  PROVE  Runs /\ [token |-> t, node |-> Here(t)] \in ServiceJob(flow)
<1>1. Visit(t, {"serviceTask"})
  BY DEF ParkAsync
<1>2. KindOf(flow, Here(t)) = "serviceTask" /\ Here(t) \in Node(flow)
  BY <1>1, Visited
<1>3. wk' = Halt(wk, t, "WaitingAsync") /\ RestsAt(flow, "WaitingAsync", Here(t))
  BY <1>2 DEF ParkAsync, RestsAt
<1> QED
  BY <1>1, <1>2, <1>3, ParkRuns DEF Runs, ServiceJob, OfKind

LEMMA ParkSubflowRuns ==
  ASSUME TInv, NEW t \in TokenId, ParkSubflow(t)
  PROVE  Runs
<1>1. Visit(t, {"callActivity"})
  BY DEF ParkSubflow
<1>2. KindOf(flow, Here(t)) = "callActivity"
  BY <1>1, Visited
<1>3. wk' = Halt(wk, t, "WaitingSubflow") /\ RestsAt(flow, "WaitingSubflow", Here(t))
  BY <1>2 DEF ParkSubflow, RestsAt, Set
<1> QED
  BY <1>1, <1>3, ParkRuns DEF Runs

LEMMA ParkMessageRuns ==
  ASSUME TInv, NEW t \in TokenId, ParkMessage(t)
  PROVE  Runs
<1>1. Visit(t, {"messageCatch"})
  BY DEF ParkMessage
<1>2. wk' = Halt(wk, t, "WaitingMessage") /\ RestsAt(flow, "WaitingMessage", Here(t))
  BY DEF ParkMessage, RestsAt, Set
<1> QED
  BY <1>1, <1>2, ParkRuns DEF Runs

-----------------------------------------------------------------------------
(* Forks and joins. *)

LEMMA ChosenTyped ==
  ASSUME NEW f \in Flow, NEW n \in Node(f), NEW targets \in Chosen(f, n)
  PROVE  targets \in Seq(Node(f)) /\ targets # <<>>
<1>1. PICK m \in 1 .. Len(Out(f, n)) : \E pick \in [1 .. m -> DOMAIN Out(f, n)] :
        targets = [i \in 1 .. m |-> Out(f, n)[pick[i]]]
  BY DEF Chosen
<1>2. PICK pick \in [1 .. m -> DOMAIN Out(f, n)] : targets = [i \in 1 .. m |-> Out(f, n)[pick[i]]]
  BY <1>1
<1>3. Out(f, n) \in Seq(Node(f)) /\ m \in Nat \ {0}
  BY GraphIs
<1>4. \A i \in 1 .. m : Out(f, n)[pick[i]] \in Node(f)
  BY <1>3
<1>5. targets \in [1 .. m -> Node(f)]
  BY <1>2, <1>4
<1>6. targets \in Seq(Node(f)) /\ Len(targets) = m
  BY <1>3, <1>5
<1> QED
  BY <1>3, <1>6

LEMMA ForkRuns ==
  ASSUME TInv, NEW t \in TokenId, NEW kinds, Visit(t, kinds),
         NEW targets \in Seq(Node(flow)), targets # <<>>, RoomFor(wk, Len(targets) - 1)
  PROVE  /\ Good(flow, Split(wk, t, targets)) /\ Shifts(wk, Split(wk, t, targets))
         /\ Noted(Split(wk, t, targets))
<1>1. /\ Good(flow, Split(wk, t, targets)) /\ Shifts(wk, Split(wk, t, targets))
      /\ Split(wk, t, targets).token[t].state = "Active"
  BY Visited, SplitGood, SplitShifts
<1> QED
  BY <1>1 DEF Noted

LEMMA WaysOut ==
  ASSUME NEW f \in Flow, NEW n \in Node(f), KindOf(f, n) \in {"parallel", "inclusive"}
  PROVE  Out(f, n) \in Seq(Node(f)) /\ Out(f, n) # <<>>
<1>1. /\ Out(f, n) \in Seq(Node(f)) /\ OutDegreeOk(KindOf(f, n), Len(Out(f, n)))
  BY GraphIs
<1>2. PICK degree \in Nat : degree = Len(Out(f, n))
  BY <1>1
<1>3. OutDegreeOk("parallel", degree) => degree > 0
  BY DEF OutDegreeOk
<1>4. OutDegreeOk("inclusive", degree) => degree > 0
  BY DEF OutDegreeOk
<1> QED
  BY <1>1, <1>2, <1>3, <1>4

\* The merge of tokens that all wait at a join.
LEMMA MergeRuns ==
  ASSUME TInv, NEW a, Good(flow, a), Shifts(wk, a), NEW n,
         NEW targets \in Seq(Node(flow)), targets # <<>>, Merge(a, n, targets)
  PROVE  Runs
<1>1. RoomFor(a, Len(targets) - 1)
  BY DEF Merge
<1>2. PICK u \in Parked(a, n) : wk' = Split(DropTokens(a, Parked(a, n) \ {u}), u, targets)
  BY DEF Merge, Set
<1> DEFINE gone == Parked(a, n) \ {u}
           c == DropTokens(a, gone)
<1>3. u \in TokenId /\ a.token[u].state = "Joining"
  BY DEF Parked
<1>4. \A v \in gone : v \in TokenId /\ a.token[v].state = "Joining"
  BY DEF Parked
<1> HIDE DEF gone
<1>5. Good(flow, c) /\ Shifts(a, c)
  BY <1>4, DropTokensGood, DropTokensShifts DEF Bound
<1>6. u \notin gone
  BY DEF gone
<1>7. c.token = [v \in TokenId |-> IF v \in gone THEN GoneToken ELSE a.token[v]]
  BY DropTokensIs, GoodIs
<1> HIDE DEF c
<1>8. SameNone(a, c) /\ c.token[u] = a.token[u]
  <2>1. GoneToken.state = "Removed"
    BY DEF GoneToken
  <2>2. \A v \in TokenId : c.token[v] = IF v \in gone THEN GoneToken ELSE a.token[v]
    BY <1>7
  <2> QED
    BY <1>3, <1>4, <1>6, <2>1, <2>2 DEF SameNone
<1>9. RoomFor(c, Len(targets) - 1)
  BY <1>1, <1>8, SameNextToken
<1>10. /\ Good(flow, Split(c, u, targets)) /\ Shifts(c, Split(c, u, targets))
       /\ Split(c, u, targets).token[u].state = "Active"
  BY <1>3, <1>5, <1>8, <1>9, SplitGood, SplitShifts DEF Bound
<1>11. wk' = Split(c, u, targets)
  BY <1>2 DEF c, gone
<1> QED
  BY <1>3, <1>5, <1>10, <1>11, ShiftsTrans DEF Runs, Noted

LEMMA ParallelForkRuns ==
  ASSUME TInv, NEW t \in TokenId, ParallelFork(t)
  PROVE  Runs
<1>1. Visit(t, {"parallel"})
  BY DEF ParallelFork
<1>2. Out(flow, Here(t)) \in Seq(Node(flow)) /\ Out(flow, Here(t)) # <<>>
  BY <1>1, Visited, WaysOut
<1> QED
  BY <1>1, <1>2, ForkRuns DEF ParallelFork, Set, Runs

LEMMA InclusiveForkRuns ==
  ASSUME TInv, NEW t \in TokenId, InclusiveFork(t)
  PROVE  Runs
<1>1. Visit(t, {"inclusive"})
  BY DEF InclusiveFork
<1>2. PICK targets \in Chosen(flow, Here(t)) :
        RoomFor(wk, Len(targets) - 1) /\ wk' = Split(wk, t, targets)
  BY DEF InclusiveFork, Set
<1>3. targets \in Seq(Node(flow)) /\ targets # <<>>
  BY <1>1, Visited, ChosenTyped
<1> QED
  BY <1>1, <1>2, <1>3, ForkRuns DEF Runs

LEMMA ParallelJoinRuns ==
  ASSUME TInv, NEW t \in TokenId, ParallelJoin(t)
  PROVE  Runs
<1> DEFINE a == Halt(wk, t, "Joining")
<1>1. Visit(t, {"parallel"})
  BY DEF ParallelJoin
<1>2. Good(flow, a) /\ Shifts(wk, a) /\ Noted(a)
  <2>1. KindOf(flow, Here(t)) = "parallel" /\ InDegree(flow, Here(t)) > 1
    BY <1>1, Visited DEF ParallelJoin
  <2> QED
    BY <1>1, <2>1, ParkRuns DEF RestsAt
<1>3. Out(flow, Here(t)) \in Seq(Node(flow)) /\ Out(flow, Here(t)) # <<>>
  BY <1>1, Visited, WaysOut
<1>4. Merge(a, Here(t), Out(flow, Here(t))) \/ wk' = a
  BY DEF ParallelJoin, Set
<1> HIDE DEF a
<1> QED
  BY <1>2, <1>3, <1>4, MergeRuns DEF Runs

LEMMA InclusiveJoinRuns ==
  ASSUME TInv, NEW t \in TokenId, InclusiveJoin(t)
  PROVE  Runs
<1> DEFINE a == Halt(wk, t, "Joining")
<1>1. Visit(t, {"inclusive"})
  BY DEF InclusiveJoin
<1>2. Good(flow, a) /\ Shifts(wk, a) /\ Noted(a)
  <2>1. KindOf(flow, Here(t)) = "inclusive" /\ InDegree(flow, Here(t)) > 1
    BY <1>1, Visited DEF InclusiveJoin
  <2> QED
    BY <1>1, <2>1, ParkRuns DEF RestsAt
<1>3. \A targets \in Chosen(flow, Here(t)) : targets \in Seq(Node(flow)) /\ targets # <<>>
  BY <1>1, Visited, ChosenTyped
<1>4. (\E targets \in Chosen(flow, Here(t)) : Merge(a, Here(t), targets)) \/ wk' = a
  BY DEF InclusiveJoin, Set
<1> HIDE DEF a
<1> QED
  BY <1>2, <1>3, <1>4, MergeRuns DEF Runs

-----------------------------------------------------------------------------
(* The other changes. *)

LEMMA InstGood ==
  ASSUME NEW f, NEW a, Good(f, a), NEW i \in InstState
  PROVE  LET b == [a EXCEPT !.inst = i]
         IN  /\ Good(f, b) /\ b.inst = i /\ b.token = a.token /\ b.task = a.task
             /\ b.timer = a.timer /\ b.scope = a.scope
<1> DEFINE b == [a EXCEPT !.inst = i]
<1>1. /\ Fields(b) /\ b.inst = i /\ b.token = a.token /\ b.task = a.task
      /\ b.timer = a.timer /\ b.scope = a.scope /\ b.handled = a.handled
  BY GoodIs DEF Fields
<1> HIDE DEF b
<1>2. b \in Aggregate(f)
  BY <1>1, AggregateIs, GoodIs
<1>3. Dense(b) /\ Placed(f, b) /\ TimersPlaced(f, b) /\ ScopesPlaced(f, b)
  BY <1>1, GoodIs, SameDense DEF Placed, TimersPlaced, ScopesPlaced
<1>4. TasksPlaced(f, b)
  BY <1>1, GoodIs DEF TasksPlaced, LiveTasks
<1>5. Good(f, b)
  BY <1>2, <1>3, <1>4 DEF Good
<1> QED
  BY <1>1, <1>5 DEF b

\* b is a with other scopes.
OtherScopes(a, b) ==
  /\ Fields(b)
  /\ b.inst = a.inst /\ b.token = a.token /\ b.task = a.task /\ b.timer = a.timer
  /\ b.handled = a.handled

LEMMA ScopesGood ==
  ASSUME NEW f, NEW a, Good(f, a), NEW scopes \in SUBSET Scope(f),
         \A s \in scopes : s.node \in DOMAIN Def[f].mi
  PROVE  LET b == [a EXCEPT !.scope = scopes]
         IN  Good(f, b) /\ OtherScopes(a, b) /\ b.scope = scopes
<1> DEFINE b == [a EXCEPT !.scope = scopes]
<1>1. OtherScopes(a, b) /\ b.scope = scopes
  BY GoodIs DEF Fields, OtherScopes
<1> HIDE DEF b
<1>2. b \in Aggregate(f)
  BY <1>1, AggregateIs, GoodIs DEF OtherScopes
<1>3. Dense(b) /\ Placed(f, b) /\ TimersPlaced(f, b) /\ ScopesPlaced(f, b)
  BY <1>1, GoodIs, SameDense DEF OtherScopes, Placed, TimersPlaced, ScopesPlaced
<1>4. TasksPlaced(f, b)
  BY <1>1, GoodIs DEF OtherScopes, TasksPlaced, LiveTasks
<1>5. Good(f, b)
  BY <1>2, <1>3, <1>4 DEF Good
<1> QED
  BY <1>1, <1>5 DEF b

\* A token that nothing belongs to is added.
LEMMA LooseToken ==
  ASSUME NEW f, NEW a, Good(f, a), RoomFor(a, 1), NEW n \in Node(f), NEW via \in AnyNode(f)
  PROVE  LET b == [a EXCEPT !.token[NextToken(a)] =
                     [state |-> "Active", node |-> n, via |-> via]]
         IN  /\ Good(f, b) /\ Shifts(a, b) /\ NextToken(a) \in TokenId
             /\ b.token[NextToken(a)].state = "Active"
<1> DEFINE x == [state |-> "Active", node |-> n, via |-> via]
           tokens == [a.token EXCEPT ![NextToken(a)] = x]
           b == [a EXCEPT !.token = tokens]
<1>1. /\ x \in Token(f) /\ x.state = "Active" /\ x.node \in Node(f)
      /\ Lives(x) /\ RestsAt(f, x.state, x.node)
  BY DEF Token, TokenState, AnyNode, Lives, RestsAt
<1> HIDE DEF x
<1>2. OtherTokens(a, b) /\ b.token = tokens
  <2> HIDE DEF tokens
  <2> QED
    BY TokensSet, GoodIs
<1> HIDE DEF b
<1>3. /\ NextToken(a) \in TokenId /\ a.token[NextToken(a)].state = "None"
      /\ b.token \in [TokenId -> Token(f)]
      /\ \A t \in TokenId : b.token[t] = IF t = NextToken(a) THEN x ELSE a.token[t]
  BY <1>1, <1>2, NextFree, GoodIs
<1>4. Good(f, b) /\ Shifts(a, b)
  BY <1>1, <1>2, <1>3, NewTokenGood DEF Shifts, Bound
<1>5. b.token[NextToken(a)].state = "Active"
  BY <1>1, <1>3
<1> QED
  BY <1>3, <1>4, <1>5 DEF b, x

\* Those tokens, which nothing belongs to, take another state.
Restates(a, b, those, state) ==
  /\ Shifts(a, b) /\ (Noted(a) => Noted(b))
  /\ \A t \in those : b.token[t].state = state

\* Live tokens take another state where they are.
LEMMA RestateGood ==
  ASSUME NEW f, NEW a, Good(f, a), NEW those \in SUBSET TokenId,
         NEW state \in {"Active", "Incident"},
         \A t \in those : Lives(a.token[t]) /\ a.token[t].state \notin Bound,
         NEW b, b = [a EXCEPT !.token = [t \in TokenId |->
                       IF t \in those THEN [@[t] EXCEPT !.state = state] ELSE @[t]]]
  PROVE  Good(f, b) /\ Restates(a, b, those, state)
<1> DEFINE x(t) == [a.token[t] EXCEPT !.state = state]
           tokens == [t \in TokenId |-> IF t \in those THEN x(t) ELSE a.token[t]]
           c == [a EXCEPT !.token = tokens]
<1> USE DEF x
<1>14. b = c
  OBVIOUS
<1>1. a.token \in [TokenId -> Token(f)]
  BY GoodIs
<1>2. \A t \in TokenId : x(t) \in Token(f) /\ x(t).state = state /\ x(t).node = a.token[t].node
  BY <1>1 DEF Token, TokenState, WaitState
<1> HIDE DEF x
<1>3. OtherTokens(a, b) /\ b.token = tokens
  <2> HIDE DEF tokens
  <2>1. OtherTokens(a, c) /\ c.token = tokens
    BY TokensSet, GoodIs
  <2> QED
    BY <1>14, <2>1
<1> HIDE DEF c
<1>4. \A t \in TokenId : b.token[t] = IF t \in those THEN x(t) ELSE a.token[t]
  BY <1>3
<1>5. b.token \in [TokenId -> Token(f)]
  BY <1>1, <1>2, <1>3
<1>6. \A t \in TokenId : a.token[t].state # "None" <=> b.token[t].state # "None"
  BY <1>2, <1>4 DEF Lives
<1>7. Dense(b)
  <2>1. PICK n \in 0 .. MaxToken : \A t \in TokenId : a.token[t].state # "None" <=> t <= n
    BY GoodIs DEF Dense
  <2>2. \A t \in TokenId : b.token[t].state # "None" <=> t <= n
    BY <1>6, <2>1
  <2> QED
    BY <2>2 DEF Dense
<1>8. Placed(f, b)
  BY <1>2, <1>4, GoodIs DEF Placed, RestsAt
<1>9. Good(f, b)
  BY <1>3, <1>5, <1>6, <1>7, <1>8, GoodTokens
<1>10. Shifts(a, b)
  BY <1>2, <1>3, <1>4 DEF Shifts, Bound
<1>11. \A t \in those : b.token[t].state = state
  BY <1>2, <1>4
<1>12. Noted(a) => Noted(b)
  BY <1>4, <1>11 DEF Noted
<1>13. Restates(a, b, those, state)
  BY <1>10, <1>11, <1>12 DEF Restates
<1> QED
  BY <1>9, <1>13

\* A token waits at a user task, with its task.
LEMMA SeatedGood ==
  ASSUME NEW f, NEW a, Good(f, a), RoomFor(a, 1), HasFreeTask(a),
         NEW n \in OfKind(f, "userTask"), NEW via \in AnyNode(f)
  PROVE  LET m == NextToken(a)
             w == [state |-> "Waiting", node |-> n, via |-> via]
             b == [AddTask(a, m, n, 0) EXCEPT !.token[m] = w]
         IN  /\ Good(f, b) /\ m \in TokenId /\ a.token[m].state = "None"
             /\ b.inst = a.inst /\ b.timer = a.timer /\ b.scope = a.scope
             /\ b.token = [a.token EXCEPT ![m] = w]
             /\ b.task = [a.task EXCEPT ![NextTask(a)] = NewTask(m, n, 0)]
             /\ LiveTasks(b) = LiveTasks(a) \cup {NextTask(a)}
<1> DEFINE m == NextToken(a)
           w == [state |-> "Waiting", node |-> n, via |-> via]
           tokens == [a.token EXCEPT ![m] = w]
           c == [a EXCEPT !.token = tokens]
           d == AddTask(a, m, n, 0)
           b == [d EXCEPT !.token = tokens]
<1>1. /\ w \in Token(f) /\ Lives(w) /\ w.node \in Node(f)
      /\ w.state = "Waiting" /\ RestsAt(f, w.state, w.node)
  BY DEF Token, TokenState, WaitState, AnyNode, OfKind, Lives, RestsAt
<1> HIDE DEF w
<1>2. OtherTokens(a, c) /\ c.token = tokens
  <2> HIDE DEF tokens
  <2> QED
    BY TokensSet, GoodIs
<1>3. m \in TokenId /\ a.token[m].state = "None"
  BY NextFree
<1>4. /\ OtherTasks(a, d) /\ d.handled = a.handled
      /\ d.task = [a.task EXCEPT ![NextTask(a)] = NewTask(m, n, 0)]
  BY GoodIs, AddTaskIs DEF NewTask
<1>5. OtherTokens(d, b) /\ b.token = tokens
  <2> HIDE DEF tokens, d
  <2> QED
    BY <1>4, TokensSet DEF OtherTasks
<1>6. b = [d EXCEPT !.token[m] = w]
  <2>1. d.token = a.token
    BY <1>4 DEF OtherTasks
  <2> HIDE DEF d
  <2> QED
    BY <2>1
<1> HIDE DEF b, c, d
<1>7. /\ c.token \in [TokenId -> Token(f)]
      /\ \A t \in TokenId : c.token[t] = IF t = m THEN w ELSE a.token[t]
  BY <1>1, <1>2, <1>3, GoodIs
<1>8. Good(f, c)
  BY <1>1, <1>2, <1>7, NewTokenGood
<1>9. FreeTask(c) = FreeTask(a) /\ LiveTasks(c) = LiveTasks(a) /\ c.task = a.task
  BY <1>2 DEF FreeTask, LiveTasks, OtherTokens
<1>10. NextTask(c) = NextTask(a) /\ HasFreeTask(c) /\ c.token[m].state # "None"
  BY <1>1, <1>3, <1>7, <1>9 DEF NextTask, HasFreeTask
<1> HIDE DEF m
<1> DEFINE e == AddTask(c, m, n, 0)
<1>11. /\ Good(f, e) /\ LiveTasks(e) = LiveTasks(a) \cup {NextTask(a)}
       /\ e.task = [a.task EXCEPT ![NextTask(a)] = NewTask(m, n, 0)]
       /\ OtherTasks(c, e) /\ e.handled = c.handled
  BY <1>3, <1>8, <1>9, <1>10, AddTaskGood
<1> HIDE DEF e
<1>12. e = b
  <2>1. /\ Fields(e) /\ Fields(b)
        /\ e.inst = b.inst /\ e.token = b.token /\ e.task = b.task /\ e.timer = b.timer
        /\ e.scope = b.scope /\ e.handled = b.handled
    BY <1>2, <1>4, <1>5, <1>11 DEF OtherTasks, OtherTokens
  <2> HIDE DEF tokens
  <2> QED
    BY <2>1 DEF Fields
<1>13. /\ b.inst = a.inst /\ b.timer = a.timer /\ b.scope = a.scope /\ b.token = tokens
       /\ b.task = [a.task EXCEPT ![NextTask(a)] = NewTask(m, n, 0)]
  BY <1>4, <1>5 DEF OtherTasks, OtherTokens
<1> QED
  BY <1>3, <1>6, <1>11, <1>12, <1>13 DEF d, w, m

-----------------------------------------------------------------------------
(* What ends everything. *)

\* c is what is left of a: its tokens keep their ids, and nothing is to do.
Cleared(a, c) == SameNone(a, c) /\ c.inst = a.inst /\ Clean(c) /\ (Noted(a) => Noted(c))

LEMMA EndAllClears ==
  ASSUME NEW f, NEW a, Good(f, a)
  PROVE  LET c == EndAll(a)
         IN  /\ Good(f, c) /\ SameNone(a, c) /\ c.inst = a.inst /\ LiveTasks(c) = LiveTasks(a)
             /\ Alive(c) = {} /\ c.timer = {} /\ c.scope = {} /\ (Noted(a) => Noted(c))
<1> DEFINE c == EndAll(a)
           e(t) == [state |-> "Ended", node |-> a.token[t].node, via |-> a.token[t].via]
<1>1. Good(f, c)
  BY EndAllGood
<1>2. /\ c.inst = a.inst /\ c.task = a.task /\ c.timer = {} /\ c.scope = {}
      /\ c.token = [t \in TokenId |-> IF t \in Alive(a) THEN e(t) ELSE a.token[t]]
  BY GoodIs, EndAllIs
<1> HIDE DEF c
<1>3. \A t \in TokenId : e(t).state = "Ended"
  OBVIOUS
<1> HIDE DEF e
<1>4. \A t \in TokenId : c.token[t] = IF t \in Alive(a) THEN e(t) ELSE a.token[t]
  BY <1>2
<1>5. "None" \notin WaitState \cup {"Active"} /\ "Ended" \notin WaitState \cup {"Active"}
  BY DEF WaitState
<1>6. SameNone(a, c)
  BY <1>3, <1>4, <1>5 DEF SameNone, Alive, Tokens
<1>7. Alive(c) = {}
  BY <1>3, <1>4, <1>5 DEF Alive, Tokens
<1>8. LiveTasks(c) = LiveTasks(a)
  BY <1>2 DEF LiveTasks
<1>9. Noted(a) => Noted(c)
  BY <1>3, <1>4 DEF Noted
<1> QED
  BY <1>1, <1>2, <1>6, <1>7, <1>8, <1>9 DEF c

LEMMA ClearedIs ==
  ASSUME NEW f, NEW a, Good(f, a)
  PROVE  LET c == DropTasks(EndAll(a), LiveTasks(a))
             d == Complete(EndAll(a), LiveTasks(a))
         IN  Good(f, c) /\ Cleared(a, c) /\ Good(f, d) /\ Cleared(a, d)
<1> DEFINE e == EndAll(a)
<1>1. /\ Good(f, e) /\ SameNone(a, e) /\ e.inst = a.inst /\ LiveTasks(e) = LiveTasks(a)
      /\ Alive(e) = {} /\ e.timer = {} /\ e.scope = {} /\ (Noted(a) => Noted(e))
  BY EndAllClears
<1> HIDE DEF e
<1>2. ASSUME NEW b, OtherTasks(e, b), b.handled \in BOOLEAN,
             b.task = [k \in TaskId |-> IF k \in LiveTasks(a) THEN NoTask ELSE e.task[k]]
      PROVE  Good(f, b) /\ Cleared(a, b)
  <2>1. Good(f, b) /\ LiveTasks(b) = LiveTasks(e) \ LiveTasks(a)
    BY <1>1, <1>2, GoodFewerTasks
  <2>2. LiveTasks(b) = {}
    BY <1>1, <2>1
  <2>3. b.token = e.token /\ b.inst = e.inst /\ b.timer = e.timer /\ b.scope = e.scope
    BY <1>2 DEF OtherTasks
  <2>4. Alive(b) = {} /\ SameNone(a, b) /\ (Noted(a) => Noted(b))
    BY <1>1, <2>3 DEF Alive, Tokens, SameNone, Noted
  <2> QED
    BY <1>1, <2>1, <2>2, <2>3, <2>4 DEF Cleared, Clean
<1> DEFINE c == DropTasks(e, LiveTasks(a))
           d == Complete(e, LiveTasks(a))
<1>3. e \in Aggregate(f) /\ e.handled \in BOOLEAN
  BY <1>1, GoodIs, AggregateIs
<1>4. /\ OtherTasks(e, c) /\ c.handled \in BOOLEAN
      /\ c.task = [k \in TaskId |-> IF k \in LiveTasks(a) THEN NoTask ELSE e.task[k]]
  BY <1>3, DropTasksIs
<1>5. /\ OtherTasks(e, d) /\ d.handled \in BOOLEAN
      /\ d.task = [k \in TaskId |-> IF k \in LiveTasks(a) THEN NoTask ELSE e.task[k]]
  BY <1>3, CompleteIs
<1> HIDE DEF c, d
<1>6. Good(f, c) /\ Cleared(a, c) /\ Good(f, d) /\ Cleared(a, d)
  BY <1>2, <1>4, <1>5
<1> QED
  BY <1>6 DEF c, d, e

-----------------------------------------------------------------------------
(* The shapes a step has. *)

\* A step of the run.
LEMMA SetInv ==
  ASSUME TInv, op.name # "idle", Good(flow, wk'), UNCHANGED <<flow, db, op>>,
         UNCHANGED Tables
  PROVE  TInv'
BY DEF TInv, Tables, Good, Aggregate, Token, Task, Timer, Scope, Placed, TasksPlaced,
       TimersPlaced, ScopesPlaced, Dense, ServiceJob

\* A call on an instance that begins a run, and one that saves at once.
LEMMA BeginInv ==
  ASSUME TInv, NEW call \in CallName \cup {"batch", "start"}, NEW a, Good(flow, a), Begin(call, a),
         op = Idle, asyncJob' \subseteq asyncJob, deadLetter' = deadLetter
  PROVE  TInv'
<1>1. /\ wk' = a /\ db' = db /\ flow' = flow
      /\ op' = [name |-> call, jobs |-> {}, row |-> NoJob]
  BY DEF Begin, Idle
<1>2. Good(flow, db)' /\ Good(flow, wk)' /\ flow' \in Flow
  BY <1>1 DEF TInv
<1>3. /\ op'.name = call /\ call # "idle"
      /\ op' \in [name : CallName \cup {"idle", "batch", "start"},
                  jobs : SUBSET ServiceJob(flow'), row : ServiceJob(flow') \cup {NoJob}]
  BY <1>1 DEF CallName
<1>4. asyncJob' \subseteq ServiceJob(flow)' /\ deadLetter' \subseteq ServiceJob(flow)'
  BY <1>1 DEF TInv, ServiceJob
<1> QED
  BY <1>2, <1>3, <1>4 DEF TInv

LEMMA SaveInv ==
  ASSUME TInv, NEW a, Good(flow, a), Save(a), op = Idle,
         asyncJob' \subseteq ServiceJob(flow), deadLetter' \subseteq ServiceJob(flow)
  PROVE  TInv'
<1>1. wk' = a /\ db' = a /\ flow' = flow /\ op' = op /\ op.name = "idle"
  BY DEF Save, Idle
<1>2. Good(flow, db)' /\ Good(flow, wk)' /\ flow' \in Flow
  BY <1>1 DEF TInv
<1>3. op' = Idle /\ op'.name = "idle" /\ wk' = db'
  BY <1>1
<1>4. op' \in [name : CallName \cup {"idle", "batch", "start"},
               jobs : SUBSET ServiceJob(flow'), row : ServiceJob(flow') \cup {NoJob}]
  BY <1>1 DEF TInv
<1>5. asyncJob' \subseteq ServiceJob(flow)' /\ deadLetter' \subseteq ServiceJob(flow)'
  BY <1>1
<1> QED
  BY <1>2, <1>3, <1>4, <1>5 DEF TInv

\* Only the side tables change.
LEMMA TablesInv ==
  ASSUME TInv, UNCHANGED kernel, asyncJob' \subseteq ServiceJob(flow),
         deadLetter' \subseteq ServiceJob(flow)
  PROVE  TInv'
BY DEF TInv, kernel

LEMMA MayIs ==
  ASSUME TInv, NEW call, May(call)
  PROVE  /\ op = Idle /\ op.name = "idle" /\ flow \in Flow /\ Good(flow, db)
         /\ db.inst # "None" /\ call \in Calls[flow]
BY DEF TInv, May, Idle

-----------------------------------------------------------------------------
(* The absent instance, and its start. *)

LEMMA AbsentGood ==
  ASSUME NEW f \in Flow
  PROVE  Good(f, Absent) /\ Clean(Absent) /\ NextToken(Absent) = 1 /\ RoomFor(Absent, 1)
<1> DEFINE tokens == [t \in TokenId |-> NoToken]
           tasks == [k \in TaskId |-> NoTask]
<1>1. NoToken \in Token(f) /\ NoToken.state = "None"
  BY DEF NoToken, Token, TokenState, AnyNode
<1>2. NoTask \in Task(f) /\ NoTask.state = "None"
  BY DEF NoTask, Task, AnyNode
<1>3. tokens \in [TokenId -> Token(f)] /\ tasks \in [TaskId -> Task(f)]
  BY <1>1, <1>2
<1>4. \A t \in TokenId : tokens[t] = NoToken
  OBVIOUS
<1>5. \A k \in TaskId : tasks[k] = NoTask
  OBVIOUS
<1>6. Absent = [inst |-> "None", token |-> tokens, task |-> tasks, timer |-> {},
                scope |-> {}, handled |-> FALSE]
  BY DEF Absent
<1> HIDE DEF tokens, tasks
<1>7. /\ Fields(Absent) /\ Absent.inst = "None" /\ Absent.token = tokens
      /\ Absent.task = tasks /\ Absent.timer = {} /\ Absent.scope = {}
      /\ Absent.handled = FALSE
  BY <1>6 DEF Fields
<1>8. Absent \in Aggregate(f)
  BY <1>3, <1>7, AggregateIs DEF InstState
<1>9. LiveTasks(Absent) = {} /\ Alive(Absent) = {}
  BY <1>1, <1>2, <1>4, <1>5, <1>7 DEF LiveTasks, Alive, Tokens, WaitState
<1>10. \A t \in TokenId : Absent.token[t].state # "None" <=> t <= 0
  BY <1>1, <1>4, <1>7, CallsAssumption DEF TokenId
<1>11. Dense(Absent) /\ NextToken(Absent) = 1
  <2>1. 0 \in 0 .. MaxToken
    BY CallsAssumption
  <2>2. NextToken(Absent) = 0 + 1
    BY <1>10, <2>1, NextTokenIs
  <2> QED
    BY <1>10, <2>1, <2>2 DEF Dense
<1>12. Placed(f, Absent)
  BY <1>1, <1>4, <1>7 DEF Placed, Lives
<1>13. TasksPlaced(f, Absent) /\ TimersPlaced(f, Absent) /\ ScopesPlaced(f, Absent)
  BY <1>7, <1>9 DEF TasksPlaced, TimersPlaced, ScopesPlaced
<1>14. RoomFor(Absent, 1)
  BY <1>11, CallsAssumption DEF RoomFor
<1> QED
  BY <1>7, <1>8, <1>9, <1>11, <1>12, <1>13, <1>14 DEF Good, Clean

LEMMA InitTypes == Init => TInv
<1> SUFFICES ASSUME Init PROVE TInv
  OBVIOUS
<1>1. Good(flow, Absent)
  BY AbsentGood DEF Init
<1>2. Idle \in [name : CallName \cup {"idle", "batch", "start"},
                jobs : SUBSET ServiceJob(flow), row : ServiceJob(flow) \cup {NoJob}]
  BY DEF Idle
<1> QED
  BY <1>1, <1>2 DEF Init, TInv, Idle

\* The aggregate of an instance that starts.
LEMMA Started ==
  ASSUME NEW f \in Flow
  PROVE  LET b == [Absent EXCEPT !.inst = "Active",
                     !.token[1] = [state |-> "Active", node |-> Def[f].start, via |-> ""]]
         IN  /\ Good(f, b) /\ b.inst = "Active" /\ LiveTasks(b) = {} /\ b.timer = {}
             /\ b.scope = {} /\ \A t \in TokenId : b.token[t].state \notin Bound
             /\ Noted(b)
<1> DEFINE x == [state |-> "Active", node |-> Def[f].start, via |-> ""]
           c == [Absent EXCEPT !.token[NextToken(Absent)] = x]
           d == [c EXCEPT !.inst = "Active"]
<1>1. /\ Good(f, Absent) /\ Clean(Absent) /\ NextToken(Absent) = 1 /\ RoomFor(Absent, 1)
      /\ Def[f].start \in Node(f)
  BY AbsentGood, DefAssumption
<1>2. Good(f, c) /\ Shifts(Absent, c) /\ 1 \in TokenId /\ c.token[1].state = "Active"
  BY <1>1, LooseToken DEF AnyNode
<1>3. [Absent EXCEPT !.inst = "Active", !.token[1] = x] = d
  BY <1>1
<1> HIDE DEF c
<1>4. /\ Good(f, d) /\ d.inst = "Active" /\ d.token = c.token /\ d.task = c.task
      /\ d.timer = c.timer /\ d.scope = c.scope
  BY <1>2, InstGood DEF InstState
<1> HIDE DEF d, x
<1>5. c.task = Absent.task /\ c.timer = {} /\ c.scope = {}
  BY <1>1, <1>2 DEF Shifts, OtherTokens, Clean
<1>6. \A t \in TokenId : Absent.token[t].state \notin Bound
  BY <1>1 DEF Clean, Alive, Tokens, Bound, WaitState
<1>7. \A t \in TokenId : d.token[t].state \notin Bound
  BY <1>2, <1>4, <1>6 DEF Shifts
<1>8. LiveTasks(d) = {}
  BY <1>1, <1>4, <1>5 DEF LiveTasks, Clean
<1>9. d.timer = {} /\ d.scope = {}
  BY <1>4, <1>5
<1>10. Noted(d)
  BY <1>2, <1>4 DEF Noted
<1> QED
  BY <1>3, <1>4, <1>7, <1>8, <1>9, <1>10 DEF x

-----------------------------------------------------------------------------
(* What keeps tasks, timers and the tokens that wait for them together. *)

LEMMA EndsTyped ==
  ASSUME NEW f, NEW a, Good(f, a)
  PROVE  /\ \A k \in LiveTasks(a) :
              /\ k \in TaskId /\ a.task[k].token \in TokenId
              /\ a.task[k].state \in {"Open", "Suspended"}
              /\ a.task[k].node \in OfKind(f, "userTask")
              /\ ParentOf(a, k) \in TaskId \cup {0}
         /\ \A j \in a.timer :
              /\ j \in Timer(f) /\ j.token \in TokenId /\ j.node \in Node(f)
              /\ KindOf(f, j.node) \in {"timerCatch", "boundaryTimer"}
              /\ KindOf(f, j.node) = "timerCatch" => j.left = 0
<1>1. /\ a.task \in [TaskId -> Task(f)] /\ a.timer \subseteq Timer(f)
      /\ TasksPlaced(f, a) /\ TimersPlaced(f, a)
  BY GoodIs, AggregateIs
<1>2. ASSUME NEW k \in LiveTasks(a)
      PROVE  /\ k \in TaskId /\ a.task[k].token \in TokenId
             /\ a.task[k].state \in {"Open", "Suspended"}
             /\ a.task[k].node \in OfKind(f, "userTask")
             /\ ParentOf(a, k) \in TaskId \cup {0}
  <2>1. k \in TaskId /\ a.task[k] \in Task(f) /\ a.task[k].state # "None"
    BY <1>1 DEF LiveTasks
  <2> QED
    BY <1>1, <2>1 DEF TasksPlaced, Task, ParentOf
<1>3. ASSUME NEW j \in a.timer
      PROVE  /\ j \in Timer(f) /\ j.token \in TokenId /\ j.node \in Node(f)
             /\ KindOf(f, j.node) \in {"timerCatch", "boundaryTimer"}
             /\ KindOf(f, j.node) = "timerCatch" => j.left = 0
  BY <1>1 DEF Timer, TimersPlaced
<1> QED
  BY <1>2, <1>3

\* Only tokens that nothing belongs to change.
Drifts(a, b) ==
  /\ b.task = a.task /\ b.timer = a.timer
  /\ \A u \in TokenId :
       \/ b.token[u] = a.token[u]
       \/ a.token[u].state \notin Bound /\ b.token[u].state \notin Bound

LEMMA KeptDrifts ==
  ASSUME NEW f, NEW a, Good(f, a), Kept(f, a), NEW b, Drifts(a, b)
  PROVE  Kept(f, b)
<1>1. LiveTasks(b) = LiveTasks(a) /\ Open(b) = Open(a) /\ b.task = a.task /\ b.timer = a.timer
  BY DEF Drifts, LiveTasks, Open
<1>2. \A u \in TokenId :
        \/ b.token[u] = a.token[u]
        \/ a.token[u].state \notin Bound /\ b.token[u].state \notin Bound
  BY DEF Drifts
<1>3. \A t \in Tokens(b, Bound) : t \in Tokens(a, Bound) /\ b.token[t] = a.token[t]
  BY <1>2 DEF Tokens
<1>4. \A t \in TokenId : a.token[t].state \in Bound => b.token[t] = a.token[t]
  BY <1>2
<1>5. Held(b)
  BY <1>1, <1>3, <1>4, EndsTyped DEF Held, Kept, Tokens, Bound
<1>6. Chained(b) /\ (Unsigned(a) => Unsigned(b))
  BY <1>1 DEF Kept, Chained, Unsigned, ParentOf
<1>7. \A t, n : ArmedAt(b, t, n) <=> ArmedAt(a, t, n)
  BY <1>1 DEF ArmedAt
<1>8. \A j \in b.timer : HostedIn(f, b, j)
  BY <1>1, <1>4, EndsTyped DEF Kept, Clocked, HostedIn, Bound
<1>9. Clocked(f, b)
  BY <1>3, <1>7, <1>8 DEF Kept, Clocked, Tokens, Bound
<1>10. Escalates(f, a) => Escalates(f, b)
  BY <1>3, <1>7 DEF Escalates, Tokens, Bound
<1> QED
  BY <1>5, <1>6, <1>9, <1>10 DEF Kept

\* Nothing waits and nothing belongs to anything.
Bare(b) ==
  LiveTasks(b) = {} /\ b.timer = {} /\ \A t \in TokenId : b.token[t].state \notin Bound

LEMMA KeptBare ==
  ASSUME NEW f, NEW b, Bare(b)
  PROVE  Kept(f, b)
<1>1. LiveTasks(b) = {} /\ Open(b) = {} /\ b.timer = {} /\ Tokens(b, Bound) = {}
  BY DEF Bare, Open, LiveTasks, Tokens
<1>2. Tokens(b, {"Waiting"}) = {} /\ Tokens(b, {"WaitingTimer", "WaitingEventGateway"}) = {}
  BY <1>1 DEF Tokens, Bound
<1>3. Held(b) /\ Chained(b) /\ Unsigned(b)
  BY <1>1, <1>2 DEF Held, Chained, Unsigned
<1>4. Clocked(f, b) /\ Escalates(f, b)
  BY <1>1, <1>2 DEF Clocked, Escalates
<1> QED
  BY <1>3, <1>4 DEF Kept

LEMMA CleanBare ==
  ASSUME NEW a, Clean(a)
  PROVE  Bare(a)
BY DEF Clean, Bare, Alive, Tokens, Bound, WaitState

\* A token t comes to wait at the user task n with a new task k, and the
\* boundary timers of a plain one are armed.
Sits(f, a, b, t, k, n) ==
  /\ t \in TokenId /\ a.token[t].state \notin Bound
  /\ b.token[t].state = "Waiting" /\ b.token[t].node = n
  /\ \A u \in TokenId : u # t => b.token[u] = a.token[u]
  /\ k \notin LiveTasks(a) /\ \A c \in LiveTasks(a) : ParentOf(a, c) # k
  /\ k # 0
  /\ LiveTasks(b) = LiveTasks(a) \cup {k}
  /\ b.task[k] = NewTask(t, n, 0)
  /\ \A c \in LiveTasks(a) : b.task[c] = a.task[c]
  /\ a.timer \subseteq b.timer
  /\ \A j \in b.timer \ a.timer :
       j.token = t /\ j.node \in BoundaryTimersOn(f, n) /\ n \notin DOMAIN Def[f].mi
  /\ \/ n \in DOMAIN Def[f].mi
     \/ \A e \in BoundaryTimersOn(f, n) \ Def[f].fragile : ArmedAt(b, t, e)
     \/ "withdraw" \in Calls[f]

LEMMA KeptSits ==
  ASSUME NEW f, NEW a, Good(f, a), Kept(f, a), NEW b, NEW t, NEW k, NEW n, Sits(f, a, b, t, k, n)
  PROVE  Kept(f, b)
<1>1. /\ b.task[k].state = "Open" /\ b.task[k].token = t /\ b.task[k].node = n
      /\ ParentOf(b, k) = 0 /\ \A c \in LiveTasks(a) : b.task[c] = a.task[c]
      /\ LiveTasks(b) = LiveTasks(a) \cup {k} /\ k \notin LiveTasks(a)
      /\ \A c \in LiveTasks(a) : ParentOf(a, c) # k
      /\ t \in TokenId /\ k # 0
  BY DEF Sits, NewTask, ParentOf
<1>2. /\ b.token[t].state = "Waiting" /\ b.token[t].node = n /\ a.token[t].state \notin Bound
      /\ \A u \in TokenId : u # t => b.token[u] = a.token[u]
  BY DEF Sits
<1>3. \A c \in LiveTasks(a) : ParentOf(b, c) = ParentOf(a, c)
  BY <1>1 DEF ParentOf
<1>4. \A c \in LiveTasks(a) : a.task[c].token # t
  BY <1>2 DEF Kept, Held, Bound
<1>5. Open(b) = Open(a) \cup {k} /\ Open(a) \subseteq LiveTasks(a) /\ LiveTasks(a) \subseteq TaskId
  <2>1. Open(a) \subseteq LiveTasks(a) /\ Open(b) \subseteq LiveTasks(b)
    BY DEF Open, LiveTasks
  <2>2. \A c \in LiveTasks(a) : c \in TaskId
    BY DEF LiveTasks
  <2>3. \A c \in LiveTasks(b) : c \in TaskId
    BY DEF LiveTasks
  <2>4. \A c \in LiveTasks(a) : c \in Open(b) <=> c \in Open(a)
    BY <1>1, <2>2 DEF Open
  <2>5. k \in Open(b)
    BY <1>1, <2>3 DEF Open
  <2> QED
    BY <1>1, <2>1, <2>2, <2>4, <2>5
<1>6. Held(b)
  <2>1. \A c \in LiveTasks(b) :
          /\ b.token[b.task[c].token].state = "Waiting"
          /\ b.token[b.task[c].token].node = b.task[c].node
    BY <1>1, <1>2, <1>4, EndsTyped DEF Kept, Held
  <2>2. \A u \in Tokens(b, {"Waiting"}) : \E c \in Open(b) : b.task[c].token = u
    <3> SUFFICES ASSUME NEW u \in Tokens(b, {"Waiting"})
                 PROVE  \E c \in Open(b) : b.task[c].token = u
      OBVIOUS
    <3>1. CASE u = t
      BY <1>1, <1>5, <3>1
    <3>2. CASE u # t
      <4>1. u \in Tokens(a, {"Waiting"})
        BY <1>2, <3>2 DEF Tokens
      <4>2. PICK c \in Open(a) : a.task[c].token = u
        BY <4>1 DEF Kept, Held
      <4> QED
        BY <1>1, <1>5, <4>2
    <3> QED
      BY <3>1, <3>2
  <2>3. \A c, d \in Open(b) : b.task[c].token = b.task[d].token => c = d
    BY <1>1, <1>4, <1>5 DEF Kept, Held
  <2> QED
    BY <2>1, <2>2, <2>3 DEF Held
<1>7. Chained(b)
  <2>1. \A c \in LiveTasks(b) : ParentOf(b, c) # 0 =>
          /\ b.task[ParentOf(b, c)].state = "Suspended"
          /\ b.task[ParentOf(b, c)].token = b.task[c].token
    <3> SUFFICES ASSUME NEW c \in LiveTasks(b), ParentOf(b, c) # 0
                 PROVE  /\ b.task[ParentOf(b, c)].state = "Suspended"
                        /\ b.task[ParentOf(b, c)].token = b.task[c].token
      OBVIOUS
    <3>1. c \in LiveTasks(a) /\ ParentOf(a, c) # 0 /\ ParentOf(b, c) = ParentOf(a, c)
      BY <1>1, <1>3
    <3>2. /\ a.task[ParentOf(a, c)].state = "Suspended"
          /\ a.task[ParentOf(a, c)].token = a.task[c].token
          /\ ParentOf(a, c) \in TaskId
      BY <3>1, EndsTyped DEF Kept, Chained
    <3>3. ParentOf(a, c) \in LiveTasks(a)
      BY <3>2 DEF LiveTasks
    <3> QED
      BY <1>1, <3>1, <3>2, <3>3
  <2>2. \A c, d \in LiveTasks(b) : ParentOf(b, c) = ParentOf(b, d) =>
          \/ c = d
          \/ ParentOf(b, c) = 0 /\ b.task[c].token # b.task[d].token
    BY <1>1, <1>3, <1>4 DEF Kept, Chained
  <2>3. \A c \in LiveTasks(b) : b.task[c].state = "Suspended" =>
          \E d \in LiveTasks(b) : ParentOf(b, d) = c
    BY <1>1, <1>3 DEF Kept, Chained
  <2>4. ASSUME NEW S \in SUBSET LiveTasks(b), S # {}
        PROVE  \E c \in S : ParentOf(b, c) \notin S
    <3>1. CASE S \ {k} = {}
      <4>1. S = {k}
        BY <2>4, <3>1
      <4> QED
        BY <1>1, <4>1
    <3>2. CASE S \ {k} # {}
      <4>1. S \ {k} \in SUBSET LiveTasks(a)
        BY <1>1
      <4>2. PICK c \in S \ {k} : ParentOf(a, c) \notin S \ {k}
        BY <3>2, <4>1 DEF Kept, Chained
      <4>3. ParentOf(b, c) = ParentOf(a, c) /\ ParentOf(a, c) # k
        BY <1>1, <1>3, <4>1, <4>2
      <4> QED
        BY <4>2, <4>3
    <3> QED
      BY <3>1, <3>2
  <2> QED
    BY <2>1, <2>2, <2>3, <2>4 DEF Chained
<1>8. Unsigned(a) => Unsigned(b)
  BY <1>1, <1>3 DEF Unsigned
<1>9. \A u, e : ArmedAt(a, u, e) => ArmedAt(b, u, e)
  BY DEF Sits, ArmedAt
<1>10. \A j \in a.timer : HostedIn(f, a, j) /\ j.token # t
  BY <1>2 DEF Kept, Clocked, HostedIn, Bound
<1>11. \A j \in b.timer : HostedIn(f, b, j)
  <2> SUFFICES ASSUME NEW j \in b.timer PROVE HostedIn(f, b, j)
    OBVIOUS
  <2>1. CASE j \in a.timer
    BY <1>2, <1>10, <2>1, EndsTyped DEF HostedIn
  <2>2. CASE j \notin a.timer
    BY <1>2, <2>2 DEF Sits, HostedIn, BoundaryTimersOn, OfKind
  <2> QED
    BY <2>1, <2>2
<1>12. Clocked(f, b)
  <2>1. \A u \in Tokens(b, {"WaitingTimer", "WaitingEventGateway"}) :
          u \in Tokens(a, {"WaitingTimer", "WaitingEventGateway"}) /\ b.token[u] = a.token[u]
    BY <1>2 DEF Tokens
  <2> QED
    BY <1>9, <1>11, <2>1 DEF Clocked, Kept
<1>13. ASSUME Escalates(f, a), "withdraw" \in Calls[f] => Def[f].cancel \subseteq Def[f].fragile
       PROVE  Escalates(f, b)
  <2> SUFFICES ASSUME NEW u \in Tokens(b, {"Waiting"}), b.token[u].node \notin DOMAIN Def[f].mi,
                      NEW e \in BoundaryTimersOn(f, b.token[u].node) \cap (Def[f].cancel \ Def[f].fragile)
               PROVE  ArmedAt(b, u, e)
    BY DEF Escalates
  <2>1. CASE u = t
    BY <1>2, <1>13, <2>1 DEF Sits
  <2>2. CASE u # t
    <3>1. u \in Tokens(a, {"Waiting"}) /\ b.token[u] = a.token[u]
      BY <1>2, <2>2 DEF Tokens
    <3> QED
      BY <1>9, <1>13, <3>1 DEF Escalates
  <2> QED
    BY <2>1, <2>2
<1> QED
  BY <1>6, <1>7, <1>8, <1>12, <1>13 DEF Kept

\* A token t comes to wait for timers, which are armed.
Arms(f, a, b, t) ==
  /\ t \in TokenId /\ a.token[t].state \notin Bound
  /\ b.token[t].state \in {"WaitingTimer", "WaitingEventGateway"}
  /\ \A u \in TokenId : u # t => b.token[u] = a.token[u]
  /\ b.task = a.task
  /\ a.timer \subseteq b.timer
  /\ \A j \in b.timer \ a.timer : HostedIn(f, b, j)
  /\ \A n \in MustArm(f, b.token[t].node) : ArmedAt(b, t, n)

LEMMA KeptArms ==
  ASSUME NEW f, NEW a, Good(f, a), Kept(f, a), NEW b, NEW t, Arms(f, a, b, t)
  PROVE  Kept(f, b)
<1>1. /\ LiveTasks(b) = LiveTasks(a) /\ Open(b) = Open(a) /\ b.task = a.task
      /\ t \in TokenId /\ a.token[t].state \notin Bound
      /\ b.token[t].state \in {"WaitingTimer", "WaitingEventGateway"}
      /\ \A u \in TokenId : u # t => b.token[u] = a.token[u]
  BY DEF Arms, LiveTasks, Open
<1>2. \A u \in TokenId : a.token[u].state \in Bound => b.token[u] = a.token[u]
  BY <1>1
<1>3. Tokens(b, {"Waiting"}) = Tokens(a, {"Waiting"})
  BY <1>1 DEF Tokens, Bound
<1>4. \A u \in Tokens(b, {"Waiting"}) : b.token[u] = a.token[u]
  BY <1>1 DEF Tokens, Bound
<1>5. Held(b)
  BY <1>1, <1>2, <1>3, EndsTyped DEF Held, Kept, Bound
<1>6. Chained(b) /\ (Unsigned(a) => Unsigned(b))
  BY <1>1 DEF Kept, Chained, Unsigned, ParentOf
<1>7. \A u, n : ArmedAt(a, u, n) => ArmedAt(b, u, n)
  BY DEF Arms, ArmedAt
<1>8. \A j \in a.timer : HostedIn(f, b, j)
  BY <1>2, EndsTyped DEF Kept, Clocked, HostedIn, Bound
<1>9. \A j \in b.timer : HostedIn(f, b, j)
  BY <1>8 DEF Arms
<1>10. \A u \in Tokens(b, {"WaitingTimer", "WaitingEventGateway"}) :
         \A n \in MustArm(f, b.token[u].node) : ArmedAt(b, u, n)
  <2> SUFFICES ASSUME NEW u \in Tokens(b, {"WaitingTimer", "WaitingEventGateway"}),
                      NEW n \in MustArm(f, b.token[u].node)
               PROVE  ArmedAt(b, u, n)
    OBVIOUS
  <2>1. CASE u = t
    BY <2>1 DEF Arms
  <2>2. CASE u # t
    <3>1. u \in Tokens(a, {"WaitingTimer", "WaitingEventGateway"}) /\ b.token[u] = a.token[u]
      BY <1>1, <2>2 DEF Tokens
    <3> QED
      BY <1>7, <3>1 DEF Kept, Clocked
  <2> QED
    BY <2>1, <2>2
<1>11. Clocked(f, b)
  BY <1>9, <1>10 DEF Clocked
<1>12. Escalates(f, a) => Escalates(f, b)
  BY <1>3, <1>4, <1>7 DEF Escalates
<1> QED
  BY <1>5, <1>6, <1>11, <1>12 DEF Kept

\* The tokens in `freed` wait no more, and what belonged to them is gone.
Frees(a, b, freed) ==
  /\ \A u \in TokenId \ freed : b.token[u] = a.token[u]
  /\ \A u \in freed : b.token[u].state \notin Bound
  /\ LiveTasks(b) = {k \in LiveTasks(a) : a.task[k].token \notin freed}
  /\ \A k \in LiveTasks(b) : b.task[k] = a.task[k]
  /\ b.timer = {j \in a.timer : j.token \notin freed}

LEMMA KeptFrees ==
  ASSUME NEW f, NEW a, Good(f, a), Kept(f, a), NEW b, NEW freed, Frees(a, b, freed)
  PROVE  Kept(f, b)
<1>1. /\ \A u \in TokenId \ freed : b.token[u] = a.token[u]
      /\ \A u \in freed : b.token[u].state \notin Bound
      /\ \A k \in LiveTasks(b) : k \in LiveTasks(a) /\ a.task[k].token \notin freed /\ b.task[k] = a.task[k]
      /\ \A k \in LiveTasks(a) : a.task[k].token \notin freed => k \in LiveTasks(b)
      /\ b.timer = {j \in a.timer : j.token \notin freed}
  BY DEF Frees
<1>2. \A k \in LiveTasks(b) : ParentOf(b, k) = ParentOf(a, k)
  BY <1>1 DEF ParentOf
<1>3. \A k : k \in Open(b) <=> k \in Open(a) /\ a.task[k].token \notin freed
  BY <1>1 DEF Open, LiveTasks
<1>4. \A u \in Tokens(b, Bound) : u \in Tokens(a, Bound) /\ u \notin freed /\ b.token[u] = a.token[u]
  BY <1>1 DEF Tokens
<1>5. Held(b)
  <2>1. \A k \in LiveTasks(b) :
          /\ b.token[b.task[k].token].state = "Waiting"
          /\ b.token[b.task[k].token].node = b.task[k].node
    BY <1>1, EndsTyped DEF Kept, Held
  <2>2. \A u \in Tokens(b, {"Waiting"}) : \E k \in Open(b) : b.task[k].token = u
    <3> SUFFICES ASSUME NEW u \in Tokens(b, {"Waiting"})
                 PROVE  \E k \in Open(b) : b.task[k].token = u
      OBVIOUS
    <3>1. u \in Tokens(a, {"Waiting"}) /\ u \notin freed
      BY <1>4 DEF Tokens, Bound
    <3>2. PICK k \in Open(a) : a.task[k].token = u
      BY <3>1 DEF Kept, Held
    <3>3. k \in Open(b) /\ k \in LiveTasks(b)
      BY <1>3, <3>1, <3>2 DEF Open, LiveTasks
    <3> QED
      BY <1>1, <3>2, <3>3
  <2>3. \A k, l \in Open(b) : b.task[k].token = b.task[l].token => k = l
    <3>1. \A k \in Open(b) : k \in LiveTasks(b)
      BY DEF Open, LiveTasks
    <3> QED
      BY <1>1, <1>3, <3>1 DEF Kept, Held
  <2> QED
    BY <2>1, <2>2, <2>3 DEF Held
<1>6. Chained(b)
  <2>1. \A c \in LiveTasks(b) : ParentOf(b, c) # 0 =>
          /\ b.task[ParentOf(b, c)].state = "Suspended"
          /\ b.task[ParentOf(b, c)].token = b.task[c].token
    <3> SUFFICES ASSUME NEW c \in LiveTasks(b), ParentOf(b, c) # 0
                 PROVE  /\ b.task[ParentOf(b, c)].state = "Suspended"
                        /\ b.task[ParentOf(b, c)].token = b.task[c].token
      OBVIOUS
    <3>1. c \in LiveTasks(a) /\ ParentOf(a, c) # 0 /\ ParentOf(b, c) = ParentOf(a, c)
      BY <1>1, <1>2
    <3>2. /\ a.task[ParentOf(a, c)].state = "Suspended"
          /\ a.task[ParentOf(a, c)].token = a.task[c].token
          /\ ParentOf(a, c) \in TaskId
      BY <3>1, EndsTyped DEF Kept, Chained
    <3>3. ParentOf(a, c) \in LiveTasks(a)
      BY <3>2 DEF LiveTasks
    <3> QED
      BY <1>1, <3>1, <3>2, <3>3
  <2>2. \A c, d \in LiveTasks(b) : ParentOf(b, c) = ParentOf(b, d) =>
          \/ c = d
          \/ ParentOf(b, c) = 0 /\ b.task[c].token # b.task[d].token
    BY <1>1, <1>2 DEF Kept, Chained
  <2>3. \A k \in LiveTasks(b) : b.task[k].state = "Suspended" =>
          \E c \in LiveTasks(b) : ParentOf(b, c) = k
    <3> SUFFICES ASSUME NEW k \in LiveTasks(b), b.task[k].state = "Suspended"
                 PROVE  \E c \in LiveTasks(b) : ParentOf(b, c) = k
      OBVIOUS
    <3>1. PICK c \in LiveTasks(a) : ParentOf(a, c) = k
      BY <1>1 DEF Kept, Chained
    <3>2. k # 0
      BY <1>1, EndsTyped DEF TaskId
    <3>3. a.task[c].token = a.task[k].token
      BY <3>1, <3>2 DEF Kept, Chained
    <3> QED
      BY <1>1, <1>2, <3>1, <3>3
  <2>4. ASSUME NEW S \in SUBSET LiveTasks(b), S # {}
        PROVE  \E k \in S : ParentOf(b, k) \notin S
    <3>1. S \in SUBSET LiveTasks(a)
      BY <1>1
    <3>2. PICK k \in S : ParentOf(a, k) \notin S
      BY <2>4, <3>1 DEF Kept, Chained
    <3> QED
      BY <1>2, <3>2
  <2> QED
    BY <2>1, <2>2, <2>3, <2>4 DEF Chained
<1>7. Unsigned(a) => Unsigned(b)
  BY <1>1, <1>2 DEF Unsigned
<1>8. \A u, n : ArmedAt(a, u, n) /\ u \notin freed => ArmedAt(b, u, n)
  BY <1>1 DEF ArmedAt
<1>9. \A j \in b.timer : HostedIn(f, b, j)
  BY <1>1, EndsTyped DEF Kept, Clocked, HostedIn
<1>10. Clocked(f, b)
  <2>1. \A u \in Tokens(b, {"WaitingTimer", "WaitingEventGateway"}) :
          /\ u \in Tokens(a, {"WaitingTimer", "WaitingEventGateway"})
          /\ u \notin freed /\ b.token[u] = a.token[u]
    BY <1>4 DEF Tokens, Bound
  <2> QED
    BY <1>8, <1>9, <2>1 DEF Kept, Clocked
<1>11. Escalates(f, a) => Escalates(f, b)
  <2>1. \A u \in Tokens(b, {"Waiting"}) :
          u \in Tokens(a, {"Waiting"}) /\ u \notin freed /\ b.token[u] = a.token[u]
    BY <1>4 DEF Tokens, Bound
  <2> QED
    BY <1>8, <2>1 DEF Escalates
<1> QED
  BY <1>5, <1>6, <1>7, <1>10, <1>11 DEF Kept

\* An open task that is nobody's temporary task is the only one of its token.
LEMMA LoneTask ==
  ASSUME NEW f, NEW a, Good(f, a), Kept(f, a), NEW k \in Open(a), ParentOf(a, k) = 0,
         NEW l \in LiveTasks(a), a.task[l].token = a.task[k].token
  PROVE  l = k
<1> DEFINE S == {m \in LiveTasks(a) : a.task[m].token = a.task[k].token} \ {k}
<1>1. k \in LiveTasks(a) /\ a.task[k].state = "Open"
  BY DEF Open, LiveTasks
<1>2. ASSUME l # k PROVE FALSE
  <2>1. S \in SUBSET LiveTasks(a) /\ S # {}
    BY <1>2
  <2>2. PICK m \in S : ParentOf(a, m) \notin S
    <3> HIDE DEF S
    <3> QED
      BY <2>1 DEF Kept, Chained
  <2>3. m \in LiveTasks(a) /\ a.task[m].token = a.task[k].token /\ m # k
    OBVIOUS
  <2>4. ParentOf(a, m) # 0
    BY <1>1, <2>3 DEF Kept, Chained
  <2>5. /\ a.task[ParentOf(a, m)].state = "Suspended"
        /\ a.task[ParentOf(a, m)].token = a.task[k].token
    BY <2>3, <2>4 DEF Kept, Chained
  <2>6. ParentOf(a, m) # k
    BY <1>1, <2>5
  <2>7. ParentOf(a, m) \notin LiveTasks(a)
    BY <2>2, <2>5, <2>6
  <2>8. ParentOf(a, m) \in TaskId
    BY <2>3, <2>4, EndsTyped
  <2> QED
    BY <2>5, <2>7, <2>8 DEF LiveTasks
<1> QED
  BY <1>2

\* add_sign: k is suspended and c is its temporary task.
Signs(a, b, k, c) ==
  /\ k \in Open(a) /\ c \notin LiveTasks(a) /\ c # 0
  /\ \A d \in LiveTasks(a) : ParentOf(a, d) # c
  /\ b.token = a.token /\ b.timer = a.timer
  /\ LiveTasks(b) = LiveTasks(a) \cup {c}
  /\ \A d \in LiveTasks(a) : d # k => b.task[d] = a.task[d]
  /\ b.task[k].state = "Suspended" /\ b.task[k].token = a.task[k].token
  /\ b.task[k].node = a.task[k].node /\ ParentOf(b, k) = ParentOf(a, k)
  /\ b.task[c] = NewTask(a.task[k].token, a.task[k].node, k)

LEMMA SameWaits ==
  ASSUME NEW f, NEW a, NEW b, b.token = a.token, b.timer = a.timer
  PROVE  /\ Tokens(b, {"Waiting"}) = Tokens(a, {"Waiting"})
         /\ Clocked(f, a) => Clocked(f, b)
         /\ Escalates(f, a) => Escalates(f, b)
<1>1. \A t, n : ArmedAt(b, t, n) <=> ArmedAt(a, t, n)
  BY DEF ArmedAt
<1> QED
  BY <1>1 DEF Tokens, Clocked, Escalates, HostedIn

LEMMA KeptSigns ==
  ASSUME NEW f, NEW a, Good(f, a), Kept(f, a), "addSign" \in Calls[f],
         NEW b, NEW k, NEW c, Signs(a, b, k, c)
  PROVE  Kept(f, b)
<1>1. /\ k \in Open(a) /\ k \in LiveTasks(a) /\ k # c /\ c \notin LiveTasks(a) /\ c # 0
      /\ a.task[k].state = "Open" /\ k # 0
      /\ \A d \in LiveTasks(a) : ParentOf(a, d) # c
      /\ b.token = a.token
      /\ LiveTasks(b) = LiveTasks(a) \cup {c}
  BY DEF Signs, Open, LiveTasks, TaskId
<1>2. /\ b.task[c].state = "Open" /\ b.task[c].token = a.task[k].token
      /\ b.task[c].node = a.task[k].node /\ ParentOf(b, c) = k
      /\ b.task[k].state = "Suspended"
  BY DEF Signs, NewTask, ParentOf
<1>3. \A d \in LiveTasks(a) :
        /\ b.task[d].token = a.task[d].token /\ b.task[d].node = a.task[d].node
        /\ ParentOf(b, d) = ParentOf(a, d)
        /\ d # k => b.task[d].state = a.task[d].state
  BY DEF Signs, ParentOf
<1>4. Open(b) = (Open(a) \ {k}) \cup {c}
  <2>1. \A d \in LiveTasks(b) : d \in TaskId
    BY DEF LiveTasks
  <2>2. \A d : d \in Open(b) => d \in LiveTasks(b) /\ b.task[d].state = "Open"
    BY DEF Open, LiveTasks
  <2>3. \A d : d \in Open(a) <=> d \in LiveTasks(a) /\ a.task[d].state = "Open"
    BY DEF Open, LiveTasks
  <2>4. \A d \in LiveTasks(b) : b.task[d].state = "Open" => d \in Open(b)
    BY <2>1 DEF Open
  <2> QED
    BY <1>1, <1>2, <1>3, <2>2, <2>3, <2>4
<1>5. \A d \in LiveTasks(a) : ParentOf(a, d) # k
  BY <1>1 DEF Kept, Chained
<1>6. Held(b)
  <2>1. \A d \in LiveTasks(b) :
          /\ b.token[b.task[d].token].state = "Waiting"
          /\ b.token[b.task[d].token].node = b.task[d].node
    BY <1>1, <1>2, <1>3 DEF Kept, Held
  <2>2. \A t \in Tokens(b, {"Waiting"}) : \E d \in Open(b) : b.task[d].token = t
    <3> SUFFICES ASSUME NEW t \in Tokens(b, {"Waiting"})
                 PROVE  \E d \in Open(b) : b.task[d].token = t
      OBVIOUS
    <3>1. t \in Tokens(a, {"Waiting"})
      BY <1>1 DEF Tokens
    <3>2. PICK d \in Open(a) : a.task[d].token = t
      BY <3>1 DEF Kept, Held
    <3>3. d \in LiveTasks(a)
      BY <3>2 DEF Open, LiveTasks
    <3> QED
      BY <1>2, <1>3, <1>4, <3>2, <3>3
  <2>3. \A d, e \in Open(b) : b.task[d].token = b.task[e].token => d = e
    <3>1. \A d \in Open(a) : d \in LiveTasks(a)
      BY DEF Open, LiveTasks
    <3>2. \A d, e \in Open(a) : a.task[d].token = a.task[e].token => d = e
      BY DEF Kept, Held
    <3> QED
      BY <1>1, <1>2, <1>3, <1>4, <3>1, <3>2
  <2> QED
    BY <2>1, <2>2, <2>3 DEF Held
<1>7. Chained(b)
  <2>1. \A d \in LiveTasks(b) : ParentOf(b, d) # 0 =>
          /\ b.task[ParentOf(b, d)].state = "Suspended"
          /\ b.task[ParentOf(b, d)].token = b.task[d].token
    <3> SUFFICES ASSUME NEW d \in LiveTasks(b), ParentOf(b, d) # 0
                 PROVE  /\ b.task[ParentOf(b, d)].state = "Suspended"
                        /\ b.task[ParentOf(b, d)].token = b.task[d].token
      OBVIOUS
    <3>1. CASE d = c
      BY <1>1, <1>2, <1>3, <3>1
    <3>2. CASE d # c
      <4>1. d \in LiveTasks(a) /\ ParentOf(a, d) # 0 /\ ParentOf(b, d) = ParentOf(a, d)
        BY <1>1, <1>3, <3>2
      <4>2. /\ a.task[ParentOf(a, d)].state = "Suspended"
            /\ a.task[ParentOf(a, d)].token = a.task[d].token
            /\ ParentOf(a, d) \in TaskId
        BY <4>1, EndsTyped DEF Kept, Chained
      <4>3. ParentOf(a, d) \in LiveTasks(a)
        BY <4>2 DEF LiveTasks
      <4> QED
        BY <1>2, <1>3, <4>1, <4>2, <4>3
    <3> QED
      BY <3>1, <3>2
  <2>2. \A d, e \in LiveTasks(b) : ParentOf(b, d) = ParentOf(b, e) =>
          \/ d = e
          \/ ParentOf(b, d) = 0 /\ b.task[d].token # b.task[e].token
    <3>1. \A d, e \in LiveTasks(a) : ParentOf(a, d) = ParentOf(a, e) =>
            \/ d = e
            \/ ParentOf(a, d) = 0 /\ a.task[d].token # a.task[e].token
      BY DEF Kept, Chained
    <3> QED
      BY <1>1, <1>2, <1>3, <1>5, <3>1
  <2>3. \A d \in LiveTasks(b) : b.task[d].state = "Suspended" =>
          \E e \in LiveTasks(b) : ParentOf(b, e) = d
    <3>1. \A d \in LiveTasks(a) : a.task[d].state = "Suspended" =>
            \E e \in LiveTasks(a) : ParentOf(a, e) = d
      BY DEF Kept, Chained
    <3> QED
      BY <1>1, <1>2, <1>3, <3>1
  <2>4. ASSUME NEW S \in SUBSET LiveTasks(b), S # {}
        PROVE  \E d \in S : ParentOf(b, d) \notin S
    <3>1. CASE S \ {c} = {}
      <4>1. S = {c}
        BY <2>4, <3>1
      <4> QED
        BY <1>1, <1>2, <4>1
    <3>2. CASE S \ {c} # {}
      <4>1. S \ {c} \in SUBSET LiveTasks(a)
        BY <1>1
      <4>2. PICK d \in S \ {c} : ParentOf(a, d) \notin S \ {c}
        BY <3>2, <4>1 DEF Kept, Chained
      <4>3. ParentOf(b, d) = ParentOf(a, d) /\ ParentOf(a, d) # c
        BY <1>1, <1>3, <4>1, <4>2
      <4> QED
        BY <4>2, <4>3
    <3> QED
      BY <3>1, <3>2
  <2> QED
    BY <2>1, <2>2, <2>3, <2>4 DEF Chained
<1> QED
  BY <1>6, <1>7, SameWaits DEF Kept, Signs

\* A temporary task c is done: its parent p is open again.
Unsigns(a, b, c, p) ==
  /\ c \in Open(a) /\ p = ParentOf(a, c) /\ p # 0
  /\ b.token = a.token /\ b.timer = a.timer
  /\ LiveTasks(b) = LiveTasks(a) \ {c}
  /\ \A d \in LiveTasks(b) : d # p => b.task[d] = a.task[d]
  /\ b.task[p].state = "Open" /\ b.task[p].token = a.task[p].token
  /\ b.task[p].node = a.task[p].node /\ ParentOf(b, p) = ParentOf(a, p)

LEMMA KeptUnsigns ==
  ASSUME NEW f, NEW a, Good(f, a), Kept(f, a), NEW b, NEW c, NEW p, Unsigns(a, b, c, p)
  PROVE  Kept(f, b)
<1>1. /\ c \in LiveTasks(a) /\ a.task[c].state = "Open" /\ p = ParentOf(a, c) /\ p # 0
      /\ b.token = a.token /\ LiveTasks(b) = LiveTasks(a) \ {c}
      /\ b.task[p].state = "Open"
  BY DEF Unsigns, Open, LiveTasks
<1>2. /\ a.task[p].state = "Suspended" /\ a.task[p].token = a.task[c].token /\ p \in TaskId
  BY <1>1, EndsTyped DEF Kept, Chained
<1>3. p \in LiveTasks(b) /\ p \in LiveTasks(a) /\ p # c
  BY <1>1, <1>2 DEF LiveTasks
<1>4. \A d \in LiveTasks(b) :
        /\ d \in LiveTasks(a) /\ d # c
        /\ b.task[d].token = a.task[d].token /\ b.task[d].node = a.task[d].node
        /\ ParentOf(b, d) = ParentOf(a, d)
        /\ d # p => b.task[d].state = a.task[d].state
  BY <1>1 DEF Unsigns, ParentOf
<1>5. \A d \in LiveTasks(a) : ParentOf(a, d) = p => d = c
  BY <1>1 DEF Kept, Chained
<1>6. \A d \in LiveTasks(a) : ParentOf(a, d) # c
  <2>1. c # 0
    BY <1>1, EndsTyped DEF TaskId
  <2> QED
    BY <1>1, <2>1 DEF Kept, Chained
<1>7. Open(b) = (Open(a) \ {c}) \cup {p}
  <2>1. \A d \in LiveTasks(b) : d \in TaskId
    BY DEF LiveTasks
  <2>2. \A d : d \in Open(b) => d \in LiveTasks(b) /\ b.task[d].state = "Open"
    BY DEF Open, LiveTasks
  <2>3. \A d : d \in Open(a) <=> d \in LiveTasks(a) /\ a.task[d].state = "Open"
    BY DEF Open, LiveTasks
  <2>4. \A d \in LiveTasks(b) : b.task[d].state = "Open" => d \in Open(b)
    BY <2>1 DEF Open
  <2> QED
    BY <1>1, <1>2, <1>3, <1>4, <2>2, <2>3, <2>4
<1>8. Held(b)
  <2>1. \A d \in LiveTasks(b) :
          /\ b.token[b.task[d].token].state = "Waiting"
          /\ b.token[b.task[d].token].node = b.task[d].node
    BY <1>1, <1>4 DEF Kept, Held
  <2>2. \A t \in Tokens(b, {"Waiting"}) : \E d \in Open(b) : b.task[d].token = t
    <3> SUFFICES ASSUME NEW t \in Tokens(b, {"Waiting"})
                 PROVE  \E d \in Open(b) : b.task[d].token = t
      OBVIOUS
    <3>1. t \in Tokens(a, {"Waiting"})
      BY <1>1 DEF Tokens
    <3>2. PICK d \in Open(a) : a.task[d].token = t
      BY <3>1 DEF Kept, Held
    <3>3. d \in LiveTasks(a)
      BY <3>2 DEF Open, LiveTasks
    <3> QED
      BY <1>1, <1>2, <1>3, <1>4, <1>7, <3>2, <3>3
  <2>3. \A d, e \in Open(b) : b.task[d].token = b.task[e].token => d = e
    <3>1. \A d \in Open(a) : d \in LiveTasks(a)
      BY DEF Open, LiveTasks
    <3>2. \A d, e \in Open(a) : a.task[d].token = a.task[e].token => d = e
      BY DEF Kept, Held
    <3>3. c \in Open(a)
      BY DEF Unsigns
    <3> QED
      BY <1>1, <1>2, <1>3, <1>4, <1>7, <3>1, <3>2, <3>3
  <2> QED
    BY <2>1, <2>2, <2>3 DEF Held
<1>9. Chained(b)
  <2>1. \A d \in LiveTasks(b) : ParentOf(b, d) # 0 =>
          /\ b.task[ParentOf(b, d)].state = "Suspended"
          /\ b.task[ParentOf(b, d)].token = b.task[d].token
    <3> SUFFICES ASSUME NEW d \in LiveTasks(b), ParentOf(b, d) # 0
                 PROVE  /\ b.task[ParentOf(b, d)].state = "Suspended"
                        /\ b.task[ParentOf(b, d)].token = b.task[d].token
      OBVIOUS
    <3>1. /\ d \in LiveTasks(a) /\ ParentOf(a, d) # 0 /\ ParentOf(b, d) = ParentOf(a, d)
          /\ d # c
      BY <1>4
    <3>2. /\ a.task[ParentOf(a, d)].state = "Suspended"
          /\ a.task[ParentOf(a, d)].token = a.task[d].token
          /\ ParentOf(a, d) \in TaskId
      BY <3>1, EndsTyped DEF Kept, Chained
    <3>3. ParentOf(a, d) \in LiveTasks(b) /\ ParentOf(a, d) # p
      BY <1>1, <1>5, <3>1, <3>2 DEF LiveTasks
    <3> QED
      BY <1>4, <3>1, <3>2, <3>3
  <2>2. \A d, e \in LiveTasks(b) : ParentOf(b, d) = ParentOf(b, e) =>
          \/ d = e
          \/ ParentOf(b, d) = 0 /\ b.task[d].token # b.task[e].token
    <3>1. \A d, e \in LiveTasks(a) : ParentOf(a, d) = ParentOf(a, e) =>
            \/ d = e
            \/ ParentOf(a, d) = 0 /\ a.task[d].token # a.task[e].token
      BY DEF Kept, Chained
    <3> QED
      BY <1>4, <3>1
  <2>3. \A d \in LiveTasks(b) : b.task[d].state = "Suspended" =>
          \E e \in LiveTasks(b) : ParentOf(b, e) = d
    <3>1. \A d \in LiveTasks(a) : a.task[d].state = "Suspended" =>
            \E e \in LiveTasks(a) : ParentOf(a, e) = d
      BY DEF Kept, Chained
    <3> QED
      BY <1>1, <1>4, <3>1
  <2>4. ASSUME NEW S \in SUBSET LiveTasks(b), S # {}
        PROVE  \E d \in S : ParentOf(b, d) \notin S
    <3>1. S \in SUBSET LiveTasks(a)
      BY <1>1
    <3>2. PICK d \in S : ParentOf(a, d) \notin S
      BY <2>4, <3>1 DEF Kept, Chained
    <3> QED
      BY <1>4, <3>2
  <2> QED
    BY <2>1, <2>2, <2>3, <2>4 DEF Chained
<1>10. Unsigned(a) => FALSE
  BY <1>1 DEF Unsigned
<1> QED
  BY <1>8, <1>9, <1>10, SameWaits DEF Kept, Unsigns

\* A timer that takes nothing away has fired: it may be armed again.
Refires(f, a, b, j) ==
  /\ j \in a.timer /\ KindOf(f, j.node) = "boundaryTimer" /\ j.node \notin Def[f].cancel
  /\ a.timer \ {j} \subseteq b.timer
  /\ \A i \in b.timer \ a.timer : i.token = j.token /\ i.node = j.node
  /\ b.task = a.task
  /\ \A u \in TokenId :
       \/ b.token[u] = a.token[u]
       \/ a.token[u].state \notin Bound /\ b.token[u].state \notin Bound

LEMMA KeptRefires ==
  ASSUME NEW f \in Flow, NEW a, Good(f, a), Kept(f, a), NEW b, NEW j, Refires(f, a, b, j)
  PROVE  Kept(f, b)
<1>1. LiveTasks(b) = LiveTasks(a) /\ Open(b) = Open(a) /\ b.task = a.task
  BY DEF Refires, LiveTasks, Open
<1>2. \A u \in TokenId :
        \/ b.token[u] = a.token[u]
        \/ a.token[u].state \notin Bound /\ b.token[u].state \notin Bound
  BY DEF Refires
<1>3. \A t \in Tokens(b, Bound) : t \in Tokens(a, Bound) /\ b.token[t] = a.token[t]
  BY <1>2 DEF Tokens
<1>4. \A t \in TokenId : a.token[t].state \in Bound => b.token[t] = a.token[t]
  BY <1>2
<1>5. Held(b)
  BY <1>1, <1>3, <1>4, EndsTyped DEF Held, Kept, Tokens, Bound
<1>6. Chained(b) /\ (Unsigned(a) => Unsigned(b))
  BY <1>1 DEF Kept, Chained, Unsigned, ParentOf
<1>7. \A t, n : ArmedAt(a, t, n) /\ n # j.node => ArmedAt(b, t, n)
  BY DEF Refires, ArmedAt
<1>8. \A i \in b.timer : HostedIn(f, a, i) /\ i.token \in TokenId
  <2> SUFFICES ASSUME NEW i \in b.timer PROVE HostedIn(f, a, i) /\ i.token \in TokenId
    OBVIOUS
  <2>1. HostedIn(f, a, j) /\ j.token \in TokenId
    BY EndsTyped DEF Kept, Clocked, Refires
  <2>2. CASE i \in a.timer
    BY <2>2, EndsTyped DEF Kept, Clocked
  <2>3. CASE i \notin a.timer
    <3>1. i.token = j.token /\ i.node = j.node
      BY <2>3 DEF Refires
    <3> QED
      BY <2>1, <3>1 DEF HostedIn
  <2> QED
    BY <2>2, <2>3
<1>9. \A i \in b.timer : HostedIn(f, b, i)
  BY <1>4, <1>8 DEF HostedIn, Bound
<1>10. Clocked(f, b)
  <2>1. ASSUME NEW t \in Tokens(b, {"WaitingTimer", "WaitingEventGateway"}),
               NEW n \in MustArm(f, b.token[t].node)
        PROVE  ArmedAt(b, t, n)
    <3>1. t \in Tokens(a, {"WaitingTimer", "WaitingEventGateway"}) /\ b.token[t] = a.token[t]
      BY <1>3 DEF Tokens, Bound
    <3>2. ArmedAt(a, t, n)
      BY <2>1, <3>1 DEF Kept, Clocked
    <3>3. KindOf(f, n) = "timerCatch"
      BY DEF MustArm, OfKind
    <3>4. n # j.node
      BY <3>3 DEF Refires
    <3> QED
      BY <1>7, <3>2, <3>4
  <2> QED
    BY <1>9, <2>1 DEF Clocked
<1>11. Escalates(f, a) => Escalates(f, b)
  BY <1>3, <1>7 DEF Escalates, Tokens, Bound, Refires
<1> QED
  BY <1>5, <1>6, <1>10, <1>11 DEF Kept

-----------------------------------------------------------------------------
(* Scopes, and what keeps an instance going. *)

SeatedAt(a, t, n) == a.token[t].state = "Waiting" /\ a.token[t].node = n
Seats(a, n) == {t \in TokenId : SeatedAt(a, t, n)}

\* An open scope accounts for its sub-instances, and no two are at one node.
Counted(a) ==
  /\ \A s \in a.scope :
       /\ s.completed < s.total /\ s.completed <= s.next /\ s.next <= s.due
       /\ s.due = IF s.sequential THEN s.completed + 1 ELSE s.total
       /\ Cardinality(Seats(a, s.node)) = s.next - s.completed
  /\ \A r, s \in a.scope : r.node = s.node => r = s

\* Every scope has what it is to have: nothing is left to expand.
Full(a) == \A s \in a.scope : s.next = s.due

\* A token that comes to a multi-instance node finds nobody there.
Alone(f, a) ==
  \A t \in TokenId, n \in DOMAIN Def[f].mi :
    a.token[t].state = "Active" /\ a.token[t].node = n =>
      Seats(a, n) = {} /\ ScopesAt(a, n) = {}

\* Tokens come to and leave places no scope is open at.
Steady(a, b) ==
  /\ b.scope = a.scope
  /\ \A t \in TokenId, s \in a.scope : SeatedAt(b, t, s.node) <=> SeatedAt(a, t, s.node)

LEMMA SteadyCounted ==
  ASSUME NEW a, NEW b, Steady(a, b), Counted(a)
  PROVE  Counted(b)
<1>1. \A s \in a.scope : Seats(b, s.node) = Seats(a, s.node)
  BY DEF Steady, Seats
<1> QED
  BY <1>1 DEF Steady, Counted

LEMMA ShiftsSteady ==
  ASSUME NEW a, NEW b, Shifts(a, b)
  PROVE  Steady(a, b)
BY DEF Shifts, OtherTokens, Steady, SeatedAt, Bound

LEMMA SteadyTrans ==
  ASSUME NEW a, NEW b, NEW c, Steady(a, b), Steady(b, c)
  PROVE  Steady(a, c)
BY DEF Steady

\* Whoever works on a has a token, or a sub-instance to expand.
Trace(a) == Noted(a) \/ \E s \in a.scope : s.next < s.due

\* What a call may rely on: it starts from a stored aggregate that is full.
Ready(a) == Careful(flow) /\ Kept(flow, a) /\ Counted(a) /\ Alone(flow, a) /\ (op = Idle => Full(a))

\* The step from a to b leaves something to go on with, and counts right.
Accounts(a, b) ==
  /\ Trace(a) => Trace(b)
  /\ Ready(a) => Counted(b)

LEMMA SteadyAccounts ==
  ASSUME NEW a, NEW b, Steady(a, b), Noted(a) => Noted(b)
  PROVE  Accounts(a, b)
<1>1. Trace(a) => Trace(b)
  BY DEF Trace, Steady
<1> QED
  BY <1>1, SteadyCounted DEF Accounts, Ready

LEMMA SameAccounts ==
  ASSUME NEW a, NEW b, b.token = a.token, b.scope = a.scope
  PROVE  Accounts(a, b)
<1>1. Steady(a, b) /\ (Noted(a) => Noted(b))
  BY DEF Steady, SeatedAt, Noted
<1> QED
  BY <1>1, SteadyAccounts

LEMMA ClearAccounts ==
  ASSUME NEW a, NEW b, b.scope = {}, Noted(b)
  PROVE  Accounts(a, b)
BY DEF Accounts, Trace, Counted

LEMMA ClearedAccounts ==
  ASSUME NEW a, NEW c, Cleared(a, c), Noted(a)
  PROVE  Accounts(a, c)
BY ClearAccounts DEF Cleared, Clean

\* One token is where it was no part of a scope, and where it will be none.
LEMMA OneMoves ==
  ASSUME NEW a, NEW b, NEW t \in TokenId, b.scope = a.scope,
         \A u \in TokenId : u # t => b.token[u] = a.token[u],
         b.token[t].state \notin {"None", "Removed"},
         \A s \in a.scope : ~SeatedAt(a, t, s.node) /\ ~SeatedAt(b, t, s.node)
  PROVE  Accounts(a, b)
<1>1. Steady(a, b)
  BY DEF Steady, SeatedAt
<1>2. Noted(b)
  BY DEF Noted
<1> QED
  BY <1>1, <1>2, SteadyAccounts

LEMMA SitsAccounts ==
  ASSUME NEW f, NEW a, Good(f, a), NEW b, NEW t, NEW k, NEW n, Sits(f, a, b, t, k, n),
         n \notin DOMAIN Def[f].mi, b.scope = a.scope
  PROVE  Accounts(a, b)
<1>1. \A s \in a.scope : s.node # n
  BY GoodIs DEF ScopesPlaced
<1> QED
  BY <1>1, OneMoves DEF Sits, SeatedAt, Bound

LEMMA ArmsAccounts ==
  ASSUME NEW f, NEW a, NEW b, NEW t, Arms(f, a, b, t), b.scope = a.scope
  PROVE  Accounts(a, b)
BY OneMoves DEF Arms, SeatedAt, Bound

LEMMA NotedAccounts ==
  ASSUME NEW a, NEW b, Noted(b), Ready(a) => Steady(a, b)
  PROVE  Accounts(a, b)
BY SteadyCounted DEF Accounts, Trace, Ready

\* One scope is closed.
LEMMA Uncounted ==
  ASSUME NEW a, NEW b, Counted(a), NEW s \in a.scope, b.scope = a.scope \ {s},
         \A t \in TokenId, q \in a.scope :
           q.node # s.node => (SeatedAt(b, t, q.node) <=> SeatedAt(a, t, q.node))
  PROVE  Counted(b)
<1>1. \A q \in b.scope : q \in a.scope /\ q.node # s.node
  BY DEF Counted
<1>2. \A q \in b.scope : Seats(b, q.node) = Seats(a, q.node)
  BY <1>1 DEF Seats
<1> QED
  BY <1>1, <1>2 DEF Counted

\* One scope is recounted.
LEMMA Recounted ==
  ASSUME NEW a, NEW b, Counted(a), NEW s \in a.scope, NEW r, r.node = s.node,
         b.scope = (a.scope \ {s}) \cup {r},
         \A t \in TokenId, q \in a.scope : q # s => (SeatedAt(b, t, q.node) <=> SeatedAt(a, t, q.node)),
         r.completed < r.total, r.completed <= r.next, r.next <= r.due,
         r.due = IF r.sequential THEN r.completed + 1 ELSE r.total,
         Cardinality(Seats(b, s.node)) = r.next - r.completed
  PROVE  Counted(b)
<1>1. \A q \in a.scope : q # s => Seats(b, q.node) = Seats(a, q.node)
  BY DEF Seats
<1>2. \A q \in b.scope : q = r \/ (q \in a.scope /\ q # s)
  OBVIOUS
<1>3. \A q \in b.scope :
        /\ q.completed < q.total /\ q.completed <= q.next /\ q.next <= q.due
        /\ q.due = IF q.sequential THEN q.completed + 1 ELSE q.total
        /\ Cardinality(Seats(b, q.node)) = q.next - q.completed
  BY <1>1, <1>2 DEF Counted
<1>4. \A p, q \in b.scope : p.node = q.node => p = q
  BY <1>2 DEF Counted
<1> QED
  BY <1>3, <1>4 DEF Counted

LEMMA SeatsFinite ==
  ASSUME NEW a, NEW n
  PROVE  IsFiniteSet(Seats(a, n)) /\ Cardinality(Seats(a, n)) \in Nat
<1>1. IsFiniteSet(TokenId)
  BY FS_Interval, CallsAssumption DEF TokenId
<1>2. Seats(a, n) \subseteq TokenId
  BY DEF Seats
<1>3. IsFiniteSet(Seats(a, n))
  BY <1>1, <1>2, FS_Subset
<1> QED
  BY <1>3, FS_CardinalityType

\* A token comes, and one goes.
LEMMA SeatTaken ==
  ASSUME NEW a, NEW b, NEW n, NEW t \in TokenId, ~SeatedAt(a, t, n), SeatedAt(b, t, n),
         \A u \in TokenId : u # t => (SeatedAt(b, u, n) <=> SeatedAt(a, u, n))
  PROVE  Cardinality(Seats(b, n)) = Cardinality(Seats(a, n)) + 1
<1>1. Seats(b, n) = Seats(a, n) \cup {t} /\ t \notin Seats(a, n)
  BY DEF Seats
<1> QED
  BY <1>1, SeatsFinite, FS_AddElement

LEMMA SeatLeft ==
  ASSUME NEW a, NEW b, NEW n, NEW t \in TokenId, SeatedAt(a, t, n), ~SeatedAt(b, t, n),
         \A u \in TokenId : u # t => (SeatedAt(b, u, n) <=> SeatedAt(a, u, n))
  PROVE  /\ Cardinality(Seats(b, n)) = Cardinality(Seats(a, n)) - 1
         /\ Cardinality(Seats(a, n)) > 0
<1>1. Cardinality(Seats(a, n)) = Cardinality(Seats(b, n)) + 1
  BY SeatTaken
<1> QED
  BY <1>1, SeatsFinite

-----------------------------------------------------------------------------
(* A step of a call from aggregate a to b. *)

\* It goes on from something that is left to do, stays well-formed and keeps
\* what belongs together; the instance's state is another call's matter.
Fine(a, b) ==
  /\ Good(flow, b) /\ b.inst = a.inst /\ ~Clean(a)
  /\ Careful(flow) /\ Kept(flow, a) => Kept(flow, b)
  /\ Accounts(a, b)

LEMMA VisitFine ==
  ASSUME TInv, NEW t \in TokenId, NEW kinds, Visit(t, kinds), Runs
  PROVE  Fine(wk, wk')
<1>1. /\ Good(flow, wk) /\ Good(flow, wk') /\ Drifts(wk, wk') /\ wk'.inst = wk.inst
  BY Visited DEF Runs, Shifts, Drifts, OtherTokens
<1>2. ~Clean(wk)
  BY Visited DEF Clean, Alive, Tokens
<1>3. Accounts(wk, wk')
  BY ShiftsSteady, SteadyAccounts DEF Runs
<1> QED
  BY <1>1, <1>2, <1>3, KeptDrifts DEF Fine

LEMMA VisitDirty ==
  ASSUME TInv, NEW t \in TokenId, NEW kinds, Visit(t, kinds)
  PROVE  ~Clean(wk)
BY Visited DEF Clean, Alive, Tokens

LEMMA VisitNoted ==
  ASSUME TInv, NEW t \in TokenId, NEW kinds, Visit(t, kinds)
  PROVE  Noted(wk)
BY Visited DEF Noted

LEMMA TerminateEndFine ==
  ASSUME TInv, NEW t \in TokenId, TerminateEnd(t)
  PROVE  Fine(wk, wk')
<1> DEFINE c == Complete(EndAll(wk), LiveTasks(wk))
<1>1. Visit(t, {"terminateEnd"}) /\ wk' = c
  BY DEF TerminateEnd, Set
<1>2. Good(flow, c) /\ Cleared(wk, c)
  BY <1>1, Visited, ClearedIs
<1> HIDE DEF c
<1>3. Accounts(wk, c)
  BY <1>1, <1>2, VisitNoted, ClearedAccounts
<1> QED
  BY <1>1, <1>2, <1>3, VisitDirty, CleanBare, KeptBare DEF Fine, Cleared

\* A loose token more after everything was ended.
LEMMA BareToken ==
  ASSUME NEW f, NEW a, NEW c, NEW b, Cleared(a, c), Shifts(c, b)
  PROVE  Bare(b) /\ b.inst = a.inst /\ b.scope = {}
<1>1. Bare(c) /\ c.scope = {}
  BY CleanBare DEF Cleared, Clean
<1> QED
  BY <1>1 DEF Bare, Shifts, OtherTokens, Cleared, LiveTasks

LEMMA ServiceTaskFine ==
  ASSUME TInv, NEW t \in TokenId, ServiceTask(t)
  PROVE  Fine(wk, wk')
<1>1. Visit(t, {"serviceTask"})
  BY DEF ServiceTask
<1>2. KindOf(flow, Here(t)) = "serviceTask" /\ Here(t) \in Node(flow) /\ flow \in Flow
      /\ Good(flow, wk)
  BY <1>1, Visited
<1>3. PICK answer :
        \/ wk' = PassOn(wk, t)
        \/ wk' = Halt(wk, t, "Incident")
        \/ \E b \in BoundaryErrorsFor(flow, Here(t), answer) : wk' = Place(wk, t, FirstOut(flow, b))
        \/ /\ RoomFor(wk, 1)
           /\ \E e \in ErrorStartsFor(flow, answer) :
                wk' = [Complete(EndAll(wk), LiveTasks(wk)) EXCEPT
                        !.token[NextToken(wk)] = [state |-> "Active", via |-> Here(t),
                                                  node |-> FirstOut(flow, e)]]
  BY DEF ServiceTask, Set
<1>4. CASE wk' = PassOn(wk, t)
  <2>1. wk' = Place(wk, t, FirstOut(flow, Here(t))) /\ FirstOut(flow, Here(t)) \in Node(flow)
    BY <1>2, <1>4, WayOut DEF PassOn, Here
  <2> QED
    BY <1>1, <2>1, GoesOn, VisitFine DEF Runs
<1>5. CASE wk' = Halt(wk, t, "Incident")
  <2>1. Runs
    BY <1>1, <1>5, ParkRuns DEF Runs, RestsAt
  <2> QED
    BY <1>1, <2>1, VisitFine
<1>6. CASE \E b \in BoundaryErrorsFor(flow, Here(t), answer) : wk' = Place(wk, t, FirstOut(flow, b))
  <2>1. PICK b \in BoundaryErrorsFor(flow, Here(t), answer) : wk' = Place(wk, t, FirstOut(flow, b))
    BY <1>6
  <2>2. b \in Node(flow) /\ KindOf(flow, b) = "boundaryError"
    BY DEF BoundaryErrorsFor, BestMatch, OfKind
  <2>3. FirstOut(flow, b) \in Node(flow)
    BY <1>2, <2>2, WayOut
  <2> QED
    BY <1>1, <2>1, <2>3, GoesOn, VisitFine DEF Runs
<1>7. CASE /\ RoomFor(wk, 1)
           /\ \E e \in ErrorStartsFor(flow, answer) :
                wk' = [Complete(EndAll(wk), LiveTasks(wk)) EXCEPT
                        !.token[NextToken(wk)] = [state |-> "Active", via |-> Here(t),
                                                  node |-> FirstOut(flow, e)]]
  <2> DEFINE c == Complete(EndAll(wk), LiveTasks(wk))
  <2>1. PICK e \in ErrorStartsFor(flow, answer) :
          wk' = [c EXCEPT !.token[NextToken(wk)] = [state |-> "Active", via |-> Here(t),
                                                    node |-> FirstOut(flow, e)]]
    BY <1>7
  <2>2. e \in Node(flow) /\ KindOf(flow, e) = "errorStart"
    BY DEF ErrorStartsFor, BestMatch, OfKind
  <2>3. FirstOut(flow, e) \in Node(flow) /\ Here(t) \in AnyNode(flow)
    BY <1>2, <2>2, WayOut DEF AnyNode
  <2>4. Good(flow, c) /\ Cleared(wk, c)
    BY <1>2, ClearedIs
  <2> HIDE DEF c
  <2>5. RoomFor(c, 1) /\ NextToken(c) = NextToken(wk)
    BY <1>7, <2>4, SameNextToken DEF Cleared
  <2> DEFINE b == [c EXCEPT !.token[NextToken(c)] = [state |-> "Active", node |-> FirstOut(flow, e),
                                                     via |-> Here(t)]]
  <2>6. /\ Good(flow, b) /\ Shifts(c, b) /\ NextToken(c) \in TokenId
        /\ b.token[NextToken(c)].state = "Active"
    BY <2>3, <2>4, <2>5, LooseToken
  <2>7. wk' = b
    BY <2>1, <2>5
  <2> HIDE DEF b
  <2>8. Bare(b) /\ b.inst = wk.inst /\ b.scope = {}
    BY <2>4, <2>6, BareToken
  <2>9. Accounts(wk, b)
    BY <2>6, <2>8, ClearAccounts DEF Noted
  <2> QED
    BY <1>1, <2>6, <2>7, <2>8, <2>9, VisitDirty, KeptBare DEF Fine
<1> QED
  BY <1>3, <1>4, <1>5, <1>6, <1>7

LEMMA ArmedAdds ==
  ASSUME NEW f, NEW a \in Aggregate(f), NEW t, NEW events
  PROVE  LET b == Armed(a, t, events)
         IN  /\ OtherTimers(a, b) /\ a.timer \subseteq b.timer
             /\ \A j \in b.timer \ a.timer : j.token = t /\ j.node \in events
             /\ \A e \in events : ArmedAt(b, t, e)
<1> DEFINE b == Armed(a, t, events)
           new(e) == [token |-> t, node |-> e, left |-> Repeat(flow, e)]
<1>1. OtherTimers(a, b) /\ b.timer = a.timer \cup {new(e) : e \in events}
  BY ArmedIs
<1>2. \A e : new(e).token = t /\ new(e).node = e
  OBVIOUS
<1> HIDE DEF b, new
<1>3. /\ a.timer \subseteq b.timer
      /\ \A j \in b.timer \ a.timer : j.token = t /\ j.node \in events
  BY <1>1, <1>2
<1>4. \A e \in events : ArmedAt(b, t, e)
  BY <1>1, <1>2 DEF ArmedAt
<1> QED
  BY <1>1, <1>3, <1>4 DEF b

LEMMA EnterUserTaskFine ==
  ASSUME TInv, NEW t \in TokenId, EnterUserTask(t)
  PROVE  Fine(wk, wk')
<1> DEFINE n == Here(t)
           k == NextTask(wk)
           a1 == AddTask(wk, t, n, 0)
<1>1. Visit(t, {"userTask"}) /\ n \notin DOMAIN Def[flow].mi /\ HasFreeTask(wk)
  BY DEF EnterUserTask
<1>2. PICK skipped \in SUBSET (BoundaryTimersOn(flow, n) \cap Def[flow].fragile) :
        wk' = Halt(Armed(a1, t, BoundaryTimersOn(flow, n) \ skipped), t, "Waiting")
  BY DEF EnterUserTask, Set
<1> DEFINE events == BoundaryTimersOn(flow, n) \ skipped
           a2 == Armed(a1, t, events)
           a3 == Halt(a2, t, "Waiting")
           x == [state |-> "Waiting", node |-> a2.token[t].node, via |-> a2.token[t].via]
<1>3. /\ flow \in Flow /\ Good(flow, wk) /\ wk.token[t].state \notin Bound \cup {"None"}
      /\ n \in OfKind(flow, "userTask") /\ n = wk.token[t].node
  BY <1>1, Visited DEF OfKind
<1>4. events \in SUBSET (OfKind(flow, "timerCatch") \cup OfKind(flow, "boundaryTimer"))
  BY DEF BoundaryTimersOn
<1>5. BoundaryTimersOn(flow, n) \ Def[flow].fragile \subseteq events
  OBVIOUS
<1>6. events \subseteq BoundaryTimersOn(flow, n)
  OBVIOUS
<1> HIDE DEF events
<1>7. wk' = a3
  BY <1>2 DEF events
<1> HIDE DEF n
<1>8. /\ Good(flow, a1) /\ OtherTasks(wk, a1) /\ LiveTasks(a1) = LiveTasks(wk) \cup {k}
      /\ a1.task = [wk.task EXCEPT ![k] = NewTask(t, n, 0)]
  BY <1>1, <1>3, AddTaskGood
<1> HIDE DEF a1
<1>9. /\ Good(flow, a2) /\ OtherTimers(a1, a2) /\ a1.timer \subseteq a2.timer
      /\ \A j \in a2.timer \ a1.timer : j.token = t /\ j.node \in events
      /\ \A e \in events : ArmedAt(a2, t, e)
  BY <1>3, <1>4, <1>8, ArmedGood, ArmedAdds, GoodIs
<1> HIDE DEF a2
<1>10. /\ a2.token = wk.token /\ a2.inst = wk.inst /\ a2.task = a1.task /\ a1.timer = wk.timer
       /\ a2.scope = wk.scope
  BY <1>8, <1>9 DEF OtherTimers, OtherTasks
<1>11. OtherTokens(a2, a3) /\ a3.token = [a2.token EXCEPT ![t] = x]
  BY <1>9, HaltIs, GoodIs
<1>12. Good(flow, a3)
  <2>1. "Waiting" \in TokenState /\ RestsAt(flow, "Waiting", n) /\ n \in Node(flow)
    BY <1>3 DEF TokenState, WaitState, RestsAt, OfKind
  <2> QED
    BY <1>3, <1>9, <1>10, <2>1, HaltGood
<1>13. x.state = "Waiting" /\ x.node = n
  BY <1>3, <1>10
<1> HIDE DEF a3, x
<1>14. /\ wk.token \in [TokenId -> Token(flow)] /\ wk.task \in [TaskId -> Task(flow)]
       /\ k \in TaskId /\ k \notin LiveTasks(wk) /\ \A c \in LiveTasks(wk) : ParentOf(wk, c) # k
  BY <1>1, <1>3, GoodIs, FreeTaskIs DEF ParentOf
<1> HIDE DEF k
<1>15. Sits(flow, wk, a3, t, k, n)
  <2>1. /\ a3.token[t] = x /\ \A u \in TokenId : u # t => a3.token[u] = wk.token[u]
    BY <1>10, <1>11, <1>14
  <2>2. /\ a3.task[k] = NewTask(t, n, 0)
        /\ \A c \in LiveTasks(wk) : a3.task[c] = wk.task[c]
    BY <1>8, <1>10, <1>11, <1>14 DEF OtherTokens, LiveTasks
  <2>3. LiveTasks(a3) = LiveTasks(wk) \cup {k}
    BY <1>8, <1>10, <1>11 DEF OtherTokens, LiveTasks
  <2>4. /\ wk.timer \subseteq a3.timer
        /\ \A j \in a3.timer \ wk.timer : j.token = t /\ j.node \in events
        /\ \A e \in events : ArmedAt(a3, t, e)
    BY <1>9, <1>10, <1>11 DEF OtherTokens, ArmedAt
  <2>5. k # 0
    BY <1>14 DEF TaskId
  <2> QED
    BY <1>1, <1>3, <1>5, <1>6, <1>13, <1>14, <2>1, <2>2, <2>3, <2>4, <2>5 DEF Sits, n
<1>16. a3.inst = wk.inst /\ a3.scope = wk.scope
  BY <1>10, <1>11 DEF OtherTokens
<1>17. Accounts(wk, a3)
  BY <1>1, <1>3, <1>15, <1>16, SitsAccounts DEF n
<1> QED
  BY <1>1, <1>3, <1>7, <1>12, <1>15, <1>16, <1>17, VisitDirty, KeptSits DEF Fine

LEMMA EnterMultiInstanceFine ==
  ASSUME TInv, NEW t \in TokenId, EnterMultiInstance(t)
  PROVE  Fine(wk, wk')
<1> DEFINE n == Here(t)
<1>1. Visit(t, {"userTask"}) /\ n \in DOMAIN Def[flow].mi
  BY DEF EnterMultiInstance
<1>2. /\ flow \in Flow /\ Good(flow, wk) /\ wk.token[t].state \notin Bound \cup {"None"}
      /\ n \in OfKind(flow, "userTask") /\ n = wk.token[t].node
  BY <1>1, Visited DEF OfKind
<1> DEFINE new(total) ==
             [id |-> NextScope(wk), node |-> n, total |-> total,
              completed |-> 0, next |-> 0,
              sequential |-> Def[flow].mi[n].sequential,
              early |-> Def[flow].mi[n].early,
              due |-> IF Def[flow].mi[n].sequential THEN 1 ELSE total]
<1>3. CASE wk' = PassOn(wk, t)
  <2>1. wk' = Place(wk, t, FirstOut(flow, n)) /\ FirstOut(flow, n) \in Node(flow)
    BY <1>2, <1>3, WayOut DEF PassOn, Here, OfKind
  <2> QED
    BY <1>1, <2>1, GoesOn, VisitFine DEF Runs
<1>4. CASE HasFreeScope(wk) /\ \E total \in Def[flow].mi[n].sizes :
             total > 0 /\ wk' = [DropTokens(wk, {t}) EXCEPT !.scope = @ \cup {new(total)}]
  <2>1. PICK total \in Def[flow].mi[n].sizes :
          total > 0 /\ wk' = [DropTokens(wk, {t}) EXCEPT !.scope = @ \cup {new(total)}]
    BY <1>4
  <2>2. Def[flow].mi[n] \in [sequential : BOOLEAN, sizes : SUBSET Nat, early : BOOLEAN]
    BY <1>1, <1>2, DefAssumption
  <2>3. NextScope(wk) \in ScopeId
    <3>1. NextScope(wk) \in FreeScope(wk)
      BY <1>4 DEF HasFreeScope, NextScope
    <3> QED
      BY <3>1 DEF FreeScope
  <2>4. new(total) \in Scope(flow) /\ new(total).node = n
    BY <1>2, <2>2, <2>3 DEF Scope, OfKind
  <2>10. /\ new(total).completed = 0 /\ new(total).next = 0 /\ new(total).total > 0
         /\ new(total).due > 0
         /\ new(total).due = IF new(total).sequential THEN new(total).completed + 1
                            ELSE new(total).total
    BY <2>1, <2>2
  <2> HIDE DEF new
  <2> DEFINE c == DropTokens(wk, {t})
             scopes == c.scope \cup {new(total)}
             b == [c EXCEPT !.scope = scopes]
  <2>5. Good(flow, c) /\ Shifts(wk, c)
    BY <1>2, DropTokensGood, DropTokensShifts
  <2> HIDE DEF c, n
  <2>6. scopes \in SUBSET Scope(flow) /\ \A s \in scopes : s.node \in DOMAIN Def[flow].mi
    BY <1>1, <2>4, <2>5, GoodIs, AggregateIs DEF ScopesPlaced
  <2> HIDE DEF scopes
  <2>7. Good(flow, b) /\ OtherScopes(c, b)
    BY <2>5, <2>6, ScopesGood
  <2> HIDE DEF b
  <2>8. wk' = b
    BY <2>1 DEF b, scopes, c
  <2>9. Drifts(wk, b) /\ b.inst = wk.inst
    BY <2>5, <2>7 DEF Shifts, OtherTokens, OtherScopes, Drifts
  <2>11. b.scope = wk.scope \cup {new(total)} /\ b.token = c.token
    <3>1. b.scope = scopes
      BY <2>5, <2>6, ScopesGood DEF b
    <3> QED
      BY <2>5, <2>7, <3>1 DEF scopes, Shifts, OtherTokens, OtherScopes
  <2>12. Trace(b)
    BY <2>10, <2>11 DEF Trace
  <2>13. ASSUME Ready(wk) PROVE Counted(b)
    <3>1. Counted(wk) /\ Seats(wk, n) = {} /\ ScopesAt(wk, n) = {}
      BY <1>1, <1>2, <2>13, Visited DEF Ready, Alone
    <3>2. \A m : Seats(b, m) = Seats(wk, m)
      BY <2>5, <2>11 DEF Seats, SeatedAt, Shifts, Bound
    <3>3. Cardinality(Seats(b, n)) = 0
      BY <3>1, <3>2, FS_EmptySet
    <3>4. \A q \in wk.scope : q.node # n
      BY <3>1 DEF ScopesAt
    <3>5. \A q \in b.scope :
            /\ q.completed < q.total /\ q.completed <= q.next /\ q.next <= q.due
            /\ q.due = IF q.sequential THEN q.completed + 1 ELSE q.total
            /\ Cardinality(Seats(b, q.node)) = q.next - q.completed
      <4> SUFFICES ASSUME NEW q \in b.scope
                   PROVE  /\ q.completed < q.total /\ q.completed <= q.next /\ q.next <= q.due
                          /\ q.due = IF q.sequential THEN q.completed + 1 ELSE q.total
                          /\ Cardinality(Seats(b, q.node)) = q.next - q.completed
        OBVIOUS
      <4>1. CASE q \in wk.scope
        BY <3>1, <3>2, <4>1 DEF Counted
      <4>2. CASE q = new(total)
        <5>1. /\ q.completed = 0 /\ q.next = 0 /\ q.total > 0 /\ q.due > 0 /\ q.node = n
              /\ q.due = IF q.sequential THEN q.completed + 1 ELSE q.total
          BY <2>4, <2>10, <4>2
        <5>2. q.total \in Nat /\ q.due \in Nat
          BY <2>4, <4>2 DEF Scope
        <5> QED
          BY <3>3, <5>1, <5>2
      <4> QED
        BY <2>11, <4>1, <4>2
    <3>6. \A p, q \in b.scope : p.node = q.node => p = q
      BY <2>4, <2>11, <3>1, <3>4 DEF Counted
    <3> QED
      BY <3>5, <3>6 DEF Counted
  <2>14. Accounts(wk, b)
    BY <2>12, <2>13 DEF Accounts
  <2> QED
    BY <1>1, <1>2, <2>7, <2>8, <2>9, <2>14, VisitDirty, KeptDrifts DEF Fine
<1> QED
  BY <1>3, <1>4 DEF EnterMultiInstance, Set

\* A new token sits down at a user task where no timer is armed.
LEMMA SeatedSits ==
  ASSUME NEW f, NEW a, Good(f, a), RoomFor(a, 1), HasFreeTask(a),
         NEW n \in OfKind(f, "userTask"), NEW via \in AnyNode(f),
         n \in DOMAIN Def[f].mi \/ "withdraw" \in Calls[f]
  PROVE  LET b == [AddTask(a, NextToken(a), n, 0) EXCEPT
                     !.token[NextToken(a)] = [state |-> "Waiting", node |-> n, via |-> via]]
         IN  /\ Good(f, b) /\ b.inst = a.inst /\ b.scope = a.scope
             /\ Kept(f, a) => Kept(f, b)
             /\ NextToken(a) \in TokenId /\ a.token[NextToken(a)].state = "None"
             /\ SeatedAt(b, NextToken(a), n)
             /\ \A u \in TokenId : u # NextToken(a) => b.token[u] = a.token[u]
<1> DEFINE m == NextToken(a)
           w == [state |-> "Waiting", node |-> n, via |-> via]
           k == NextTask(a)
           b == [AddTask(a, m, n, 0) EXCEPT !.token[m] = w]
<1>1. /\ Good(f, b) /\ m \in TokenId /\ a.token[m].state = "None"
      /\ b.inst = a.inst /\ b.timer = a.timer /\ b.scope = a.scope
      /\ b.token = [a.token EXCEPT ![m] = w]
      /\ b.task = [a.task EXCEPT ![k] = NewTask(m, n, 0)]
      /\ LiveTasks(b) = LiveTasks(a) \cup {k}
  BY SeatedGood
<1>2. w.state = "Waiting" /\ w.node = n
  OBVIOUS
<1> HIDE DEF m, w, b
<1>3. /\ a.token \in [TokenId -> Token(f)] /\ a.task \in [TaskId -> Task(f)]
      /\ k \in TaskId /\ k \notin LiveTasks(a) /\ \A c \in LiveTasks(a) : ParentOf(a, c) # k
  BY GoodIs, FreeTaskIs DEF ParentOf
<1> HIDE DEF k
<1>4. b.token[m] = w /\ \A u \in TokenId : u # m => b.token[u] = a.token[u]
  BY <1>1, <1>3
<1>5. b.task[k] = NewTask(m, n, 0) /\ \A c \in LiveTasks(a) : b.task[c] = a.task[c]
  BY <1>1, <1>3 DEF LiveTasks
<1>6. k # 0
  BY <1>3 DEF TaskId
<1>7. Sits(f, a, b, m, k, n)
  BY <1>1, <1>2, <1>3, <1>4, <1>5, <1>6 DEF Sits, Bound
<1>8. /\ Good(f, b) /\ b.inst = a.inst /\ b.scope = a.scope
      /\ Kept(f, a) => Kept(f, b)
  BY <1>1, <1>7, KeptSits
<1>9. SeatedAt(b, m, n)
  BY <1>2, <1>4 DEF SeatedAt
<1> QED
  BY <1>1, <1>4, <1>8, <1>9 DEF b, m, w

LEMMA ExpandFine ==
  ASSUME TInv, NEW s \in wk.scope, Expand(s)
  PROVE  Fine(wk, wk')
<1> DEFINE m == NextToken(wk)
           w == [state |-> "Waiting", node |-> s.node, via |-> s.node]
           c == [AddTask(wk, m, s.node, 0) EXCEPT !.token[m] = w]
           scopes == (wk.scope \ {s}) \cup {[s EXCEPT !.next = @ + 1]}
           b == [c EXCEPT !.scope = scopes]
<1>1. /\ RoomFor(wk, 1) /\ HasFreeTask(wk) /\ s.next < s.due
      /\ wk' = [AddTask(wk, m, s.node, 0) EXCEPT !.token[m] = w,
                  !.scope = (@ \ {s}) \cup {[s EXCEPT !.next = @ + 1]}]
  BY DEF Expand, Set
<1>2. /\ Good(flow, wk) /\ flow \in Flow /\ s \in Scope(flow) /\ s.node \in DOMAIN Def[flow].mi
      /\ wk.scope \subseteq Scope(flow) /\ \A r \in wk.scope : r.node \in DOMAIN Def[flow].mi
  BY GoodIs, AggregateIs DEF TInv, ScopesPlaced
<1>3. s.node \in OfKind(flow, "userTask") /\ s.node \in AnyNode(flow)
  BY <1>2, DefAssumption DEF OfKind, AnyNode
<1>4. /\ Good(flow, c) /\ c.inst = wk.inst /\ c.scope = wk.scope
      /\ Kept(flow, wk) => Kept(flow, c)
      /\ m \in TokenId /\ wk.token[m].state = "None" /\ SeatedAt(c, m, s.node)
      /\ \A u \in TokenId : u # m => c.token[u] = wk.token[u]
  BY <1>1, <1>2, <1>3, SeatedSits
<1> DEFINE more == [s EXCEPT !.next = @ + 1]
<1>5. /\ more \in Scope(flow) /\ more.node = s.node /\ more.next = s.next + 1
      /\ more.completed = s.completed /\ more.total = s.total /\ more.due = s.due
      /\ more.sequential = s.sequential
      /\ s.next \in Nat /\ s.completed \in Nat /\ s.due \in Nat
  BY <1>2 DEF Scope
<1>6. scopes \in SUBSET Scope(flow) /\ \A r \in scopes : r.node \in DOMAIN Def[flow].mi
  BY <1>2, <1>5
<1>7. wk' = b
  <2>1. AddTask(wk, m, s.node, 0).scope = wk.scope
    <3>1. Fields(wk)
      BY <1>2, GoodIs
    <3> QED
      BY <3>1 DEF AddTask, Fields
  <2> DEFINE d == AddTask(wk, m, s.node, 0)
  <2> HIDE DEF d, w, m
  <2> QED
    BY <1>1, <2>1 DEF d
<1> HIDE DEF c, scopes
<1>8. Good(flow, b) /\ OtherScopes(c, b) /\ b.scope = scopes
  BY <1>4, <1>6, ScopesGood
<1> HIDE DEF b
<1>9. b.inst = wk.inst /\ Drifts(c, b)
  BY <1>4, <1>8 DEF OtherScopes, Drifts
<1>10. ~Clean(wk)
  BY DEF Clean
<1>11. b.scope = (wk.scope \ {s}) \cup {more} /\ b.token = c.token
  BY <1>8 DEF OtherScopes, scopes
<1> HIDE DEF more, m
<1>12. Trace(b)
  BY <1>4, <1>11 DEF Trace, Noted, SeatedAt
<1>13. ASSUME Counted(wk) PROVE Counted(b)
  <2>1. \A u \in TokenId : \A n : u # m => (SeatedAt(b, u, n) <=> SeatedAt(wk, u, n))
    BY <1>4, <1>11 DEF SeatedAt
  <2>2. ~SeatedAt(wk, m, s.node) /\ SeatedAt(b, m, s.node)
    BY <1>4, <1>11 DEF SeatedAt
  <2>3. Cardinality(Seats(b, s.node)) = Cardinality(Seats(wk, s.node)) + 1
    BY <1>4, <2>1, <2>2, SeatTaken
  <2>4. \A q \in wk.scope : q # s => q.node # s.node
    BY <1>13 DEF Counted
  <2>5. \A t \in TokenId, q \in wk.scope :
          q # s => (SeatedAt(b, t, q.node) <=> SeatedAt(wk, t, q.node))
    BY <1>4, <1>11, <2>1, <2>4 DEF SeatedAt
  <2>6. /\ s.completed < s.total /\ s.completed <= s.next
        /\ s.due = IF s.sequential THEN s.completed + 1 ELSE s.total
        /\ Cardinality(Seats(wk, s.node)) = s.next - s.completed
    BY <1>13 DEF Counted
  <2>7. /\ more.completed < more.total /\ more.completed <= more.next /\ more.next <= more.due
        /\ more.due = IF more.sequential THEN more.completed + 1 ELSE more.total
        /\ Cardinality(Seats(b, s.node)) = more.next - more.completed
    BY <1>1, <1>5, <2>3, <2>6
  <2> QED
    BY <1>5, <1>11, <1>13, <2>5, <2>7, Recounted
<1>14. Accounts(wk, b)
  BY <1>12, <1>13 DEF Accounts, Ready
<1> QED
  BY <1>4, <1>7, <1>8, <1>9, <1>10, <1>14, KeptDrifts DEF Fine

\* A token parks at events whose timers are armed.
LEMMA ArmedParks ==
  ASSUME TInv, NEW t \in TokenId, NEW kinds, Visit(t, kinds),
         NEW events \in SUBSET OfKind(flow, "timerCatch"),
         NEW state \in {"WaitingTimer", "WaitingEventGateway"},
         RestsAt(flow, state, Here(t)),
         state = "WaitingTimer" => events = {Here(t)},
         state = "WaitingEventGateway" => events = Targets(flow, Here(t)) \cap OfKind(flow, "timerCatch")
  PROVE  LET b == Halt(Armed(wk, t, events), t, state)
         IN  /\ Good(flow, b) /\ b.inst = wk.inst /\ b.scope = wk.scope
             /\ Arms(flow, wk, b, t)
<1> DEFINE a == Armed(wk, t, events)
           b == Halt(a, t, state)
           x == [state |-> state, node |-> a.token[t].node, via |-> a.token[t].via]
<1>1. /\ flow \in Flow /\ Good(flow, wk) /\ wk.token[t].state \notin Bound \cup {"None"}
      /\ Here(t) = wk.token[t].node /\ Here(t) \in Node(flow)
  BY Visited
<1>2. /\ Good(flow, a) /\ OtherTimers(wk, a) /\ wk.timer \subseteq a.timer
      /\ \A j \in a.timer \ wk.timer : j.token = t /\ j.node \in events
      /\ \A e \in events : ArmedAt(a, t, e)
  BY <1>1, ArmedGood, ArmedAdds, GoodIs
<1> HIDE DEF a
<1>3. a.token = wk.token /\ a.inst = wk.inst /\ a.task = wk.task /\ a.scope = wk.scope
  BY <1>2 DEF OtherTimers
<1>4. OtherTokens(a, b) /\ b.token = [a.token EXCEPT ![t] = x]
  BY <1>2, HaltIs, GoodIs
<1>5. Good(flow, b)
  <2>1. state \in TokenState /\ state \notin {"None", "Removed"}
    BY DEF TokenState, WaitState
  <2> QED
    BY <1>1, <1>2, <1>3, <2>1, HaltGood
<1>6. x.state = state /\ x.node = Here(t)
  BY <1>1, <1>3
<1> HIDE DEF b, x
<1>7. b.token[t] = x /\ \A u \in TokenId : u # t => b.token[u] = wk.token[u]
  BY <1>1, <1>3, <1>4, GoodIs
<1>8. b.task = wk.task /\ b.timer = a.timer /\ b.inst = wk.inst /\ b.scope = wk.scope
  BY <1>3, <1>4 DEF OtherTokens
<1>9. \A e \in events : KindOf(flow, e) = "timerCatch"
  BY DEF OfKind
<1>10. \A j \in b.timer \ wk.timer : HostedIn(flow, b, j)
  <2> SUFFICES ASSUME NEW j \in b.timer \ wk.timer PROVE HostedIn(flow, b, j)
    OBVIOUS
  <2>1. j.token = t /\ j.node \in events
    BY <1>2, <1>8
  <2>2. CASE state = "WaitingTimer"
    BY <1>6, <1>7, <1>9, <2>1, <2>2 DEF HostedIn
  <2>3. CASE state = "WaitingEventGateway"
    BY <1>6, <1>7, <1>9, <2>1, <2>3 DEF HostedIn
  <2> QED
    BY <2>2, <2>3
<1>11. \A n \in MustArm(flow, b.token[t].node) : ArmedAt(b, t, n)
  <2>1. MustArm(flow, Here(t)) \subseteq events
    <3>1. CASE state = "WaitingTimer"
      BY <3>1 DEF MustArm, RestsAt
    <3>2. CASE state = "WaitingEventGateway"
      BY <3>2 DEF MustArm, RestsAt
    <3> QED
      BY <3>1, <3>2
  <2>2. \A e \in events : ArmedAt(b, t, e)
    BY <1>2, <1>8 DEF ArmedAt
  <2> QED
    BY <1>6, <1>7, <2>1, <2>2
<1>12. Arms(flow, wk, b, t)
  BY <1>1, <1>2, <1>6, <1>7, <1>8, <1>10, <1>11 DEF Arms
<1> QED
  BY <1>5, <1>8, <1>12 DEF b, a

LEMMA ParkTimerFine ==
  ASSUME TInv, NEW t \in TokenId, ParkTimer(t)
  PROVE  Fine(wk, wk')
<1>1. Visit(t, {"timerCatch"})
  BY DEF ParkTimer
<1>2. /\ Here(t) \in OfKind(flow, "timerCatch") /\ RestsAt(flow, "WaitingTimer", Here(t))
      /\ Good(flow, wk)
  BY <1>1, Visited DEF OfKind, RestsAt
<1>3. CASE wk' = Halt(Armed(wk, t, {Here(t)}), t, "WaitingTimer")
  <2>1. /\ Good(flow, wk') /\ wk'.inst = wk.inst /\ wk'.scope = wk.scope
        /\ Arms(flow, wk, wk', t)
    BY <1>1, <1>2, <1>3, ArmedParks
  <2>2. Accounts(wk, wk')
    BY <2>1, ArmsAccounts
  <2> QED
    BY <1>1, <1>2, <2>1, <2>2, VisitDirty, KeptArms DEF Fine
<1>4. CASE wk' = Halt(wk, t, "Incident")
  <2>1. Runs
    BY <1>1, <1>4, ParkRuns DEF Runs, RestsAt
  <2> QED
    BY <1>1, <2>1, VisitFine
<1> QED
  BY <1>3, <1>4 DEF ParkTimer, Set

LEMMA ParkEventGatewayFine ==
  ASSUME TInv, NEW t \in TokenId, ParkEventGateway(t)
  PROVE  Fine(wk, wk')
<1> DEFINE out == Out(flow, Here(t))
           timers(upto) == {out[i] : i \in 1 .. upto} \cap OfKind(flow, "timerCatch")
<1>1. Visit(t, {"eventGateway"})
  BY DEF ParkEventGateway
<1>2. /\ flow \in Flow /\ Good(flow, wk) /\ Here(t) \in OfKind(flow, "eventGateway")
      /\ wk.token[t].state \notin Bound \cup {"None"} /\ Here(t) = wk.token[t].node
      /\ RestsAt(flow, "WaitingEventGateway", Here(t))
  BY <1>1, Visited DEF OfKind, RestsAt
<1>3. out \in Seq(Node(flow))
  BY <1>2, GraphIs DEF OfKind
<1>4. CASE wk' = Halt(Armed(wk, t, timers(Len(out))), t, "WaitingEventGateway")
  <2>1. timers(Len(out)) = Targets(flow, Here(t)) \cap OfKind(flow, "timerCatch")
    BY <1>3 DEF Targets, Range
  <2> DEFINE events == timers(Len(out))
  <2>2. events \in SUBSET OfKind(flow, "timerCatch")
    OBVIOUS
  <2> HIDE DEF events
  <2>3. wk' = Halt(Armed(wk, t, events), t, "WaitingEventGateway")
    BY <1>4 DEF events
  <2>4. events = Targets(flow, Here(t)) \cap OfKind(flow, "timerCatch")
    BY <2>1 DEF events
  <2>5. /\ Good(flow, wk') /\ wk'.inst = wk.inst /\ wk'.scope = wk.scope
        /\ Arms(flow, wk, wk', t)
    BY <1>1, <1>2, <2>2, <2>3, <2>4, ArmedParks
  <2>6. Accounts(wk, wk')
    BY <2>5, ArmsAccounts
  <2> QED
    BY <1>1, <1>2, <2>5, <2>6, VisitDirty, KeptArms DEF Fine
<1>5. CASE \E i \in DOMAIN out :
              /\ out[i] \in Def[flow].fragile
              /\ wk' = Halt(Armed(wk, t, timers(i - 1)), t, "Incident")
  <2>1. PICK i \in DOMAIN out : /\ out[i] \in Def[flow].fragile
                                /\ wk' = Halt(Armed(wk, t, timers(i - 1)), t, "Incident")
    BY <1>5
  <2>2. ~Careful(flow)
    BY <1>2, <2>1 DEF Careful, Targets, Range
  <2> DEFINE events == timers(i - 1)
             a == Armed(wk, t, events)
  <2>3. events \in SUBSET (OfKind(flow, "timerCatch") \cup OfKind(flow, "boundaryTimer"))
    OBVIOUS
  <2> HIDE DEF events
  <2>4. Good(flow, a) /\ OtherTimers(wk, a)
    BY <1>2, <2>3, ArmedGood, ArmedIs, GoodIs
  <2> HIDE DEF a
  <2>5. a.token = wk.token /\ a.inst = wk.inst
    BY <2>4 DEF OtherTimers
  <2>6. "Incident" \in TokenState /\ RestsAt(flow, "Incident", Here(t))
        /\ Here(t) \in Node(flow)
    BY <1>2 DEF TokenState, WaitState, RestsAt, OfKind
  <2>7. Good(flow, Halt(a, t, "Incident"))
    BY <1>2, <2>4, <2>5, <2>6, HaltGood
  <2>8. /\ OtherTokens(a, Halt(a, t, "Incident"))
        /\ Halt(a, t, "Incident").token[t].state = "Incident"
    BY <1>2, <2>4, <2>5, HaltShifts DEF Shifts, Bound
  <2>9. wk' = Halt(a, t, "Incident")
    BY <2>1 DEF a, events
  <2>10. Halt(a, t, "Incident").inst = wk.inst
    BY <2>5, <2>8 DEF OtherTokens
  <2>11. Accounts(wk, wk')
    BY <2>2, <2>8, <2>9 DEF Accounts, Ready, Trace, Noted
  <2> QED
    BY <1>1, <2>2, <2>7, <2>9, <2>10, <2>11, VisitDirty DEF Fine
<1> QED
  BY <1>4, <1>5 DEF ParkEventGateway, Set

-----------------------------------------------------------------------------
(* What the calls do to tasks and their tokens. *)

LEMMA ActionableOpen ==
  ASSUME NEW k \in TaskId, Actionable(k)
  PROVE  k \in Open(db) /\ k \in LiveTasks(db) /\ db.task[k].state = "Open" /\ ~Clean(db)
BY DEF Actionable, Open, LiveTasks, Clean

\* Some tasks are completed.
LEMMA CompleteSome ==
  ASSUME NEW f, NEW a, Good(f, a), NEW gone
  PROVE  LET b == Complete(a, gone)
         IN  /\ Good(f, b) /\ OtherTasks(a, b)
             /\ LiveTasks(b) = LiveTasks(a) \ gone
             /\ \A l \in LiveTasks(b) : b.task[l] = a.task[l]
<1> DEFINE b == Complete(a, gone)
           left == [l \in TaskId |-> IF l \in gone THEN NoTask ELSE a.task[l]]
<1>1. OtherTasks(a, b) /\ b.handled \in BOOLEAN /\ b.task = left
  BY GoodIs, CompleteIs
<1> HIDE DEF b
<1>2. Good(f, b) /\ LiveTasks(b) = LiveTasks(a) \ gone
      /\ \A l \in LiveTasks(b) : b.task[l] = a.task[l]
  BY <1>1, GoodFewerTasks
<1>3. /\ Good(f, b) /\ OtherTasks(a, b)
      /\ LiveTasks(b) = LiveTasks(a) \ gone
      /\ \A l \in LiveTasks(b) : b.task[l] = a.task[l]
  BY <1>1, <1>2
<1> QED
  BY <1>3 DEF b

\* Token t loses its timers and leaves for node n.
LEMMA ReleaseGood ==
  ASSUME NEW f, NEW a, Good(f, a), NEW t \in TokenId, a.token[t].state # "None", NEW n \in Node(f)
  PROVE  LET b == Place(DropTimers(a, t), t, n)
         IN  /\ Good(f, b) /\ b.inst = a.inst /\ b.task = a.task
             /\ b.token[t].state = "Active" /\ b.scope = a.scope
             /\ \A u \in TokenId : u # t => b.token[u] = a.token[u]
             /\ b.timer = {j \in a.timer : j.token # t}
<1> DEFINE c == DropTimers(a, t)
           b == Place(c, t, n)
           x == [state |-> "Active", node |-> n, via |-> c.token[t].node]
<1>1. Good(f, c) /\ OtherTimers(a, c) /\ c.timer = {j \in a.timer : j.token # t}
  BY DropTimersGood, DropTimersIs, GoodIs
<1> HIDE DEF c
<1>2. c.token = a.token /\ c.inst = a.inst /\ c.task = a.task /\ c.scope = a.scope
  BY <1>1 DEF OtherTimers
<1>3. Good(f, b)
  BY <1>1, <1>2, PlaceGood
<1>4. OtherTokens(c, b) /\ b.token = [c.token EXCEPT ![t] = x]
  BY <1>1, PlaceIs, GoodIs
<1>5. x.state = "Active"
  OBVIOUS
<1> HIDE DEF b, x
<1>6. b.token[t] = x /\ \A u \in TokenId : u # t => b.token[u] = a.token[u]
  BY <1>2, <1>4, GoodIs
<1>7. b.inst = a.inst /\ b.task = a.task /\ b.timer = c.timer /\ b.scope = a.scope
  BY <1>2, <1>4 DEF OtherTokens
<1>8. /\ Good(f, b) /\ b.inst = a.inst /\ b.task = a.task
      /\ b.token[t].state = "Active" /\ b.scope = a.scope
      /\ \A u \in TokenId : u # t => b.token[u] = a.token[u]
      /\ b.timer = {j \in a.timer : j.token # t}
  BY <1>1, <1>3, <1>5, <1>6, <1>7
<1> QED
  BY <1>8 DEF b, c

\* The only task of its token is completed and the token leaves.
LEMMA LeaveFine ==
  ASSUME TInv, NEW k \in TaskId, Actionable(k), NEW n \in Node(flow),
         Careful(flow) /\ Kept(flow, db) => ParentOf(db, k) = 0,
         ScopesAt(db, db.task[k].node) = {}
  PROVE  LET t == db.task[k].token
         IN  Fine(db, Place(DropTimers(Complete(db, {k}), t), t, n))
<1> DEFINE t == db.task[k].token
           gone == {k}
           base == Complete(db, gone)
           b == Place(DropTimers(base, t), t, n)
<1>1. /\ k \in Open(db) /\ k \in LiveTasks(db) /\ ~Clean(db) /\ Good(flow, db)
  BY ActionableOpen DEF TInv
<1>2. t \in TokenId /\ db.token[t].state # "None"
  BY <1>1, GoodIs DEF TasksPlaced
<1> HIDE DEF gone
<1>3. /\ Good(flow, base) /\ OtherTasks(db, base)
      /\ LiveTasks(base) = LiveTasks(db) \ gone
      /\ \A l \in LiveTasks(base) : base.task[l] = db.task[l]
  BY <1>1, CompleteSome
<1> USE DEF gone
<1> HIDE DEF base
<1>4. /\ base.token = db.token /\ base.timer = db.timer /\ base.inst = db.inst
      /\ base.scope = db.scope
  BY <1>3 DEF OtherTasks
<1> HIDE DEF t
<1>5. /\ Good(flow, b) /\ b.inst = base.inst /\ b.task = base.task
      /\ b.token[t].state = "Active" /\ b.scope = base.scope
      /\ \A u \in TokenId : u # t => b.token[u] = base.token[u]
      /\ b.timer = {j \in base.timer : j.token # t}
  BY <1>2, <1>3, <1>4, ReleaseGood
<1> HIDE DEF b
<1>6. ASSUME Careful(flow), Kept(flow, db)
      PROVE  Kept(flow, b)
  <2>1. \A l \in LiveTasks(db) : db.task[l].token = t => l = k
    BY <1>1, <1>6, LoneTask DEF t
  <2>2. LiveTasks(b) = LiveTasks(base) /\ db.task[k].token = t
    BY <1>5 DEF LiveTasks, t
  <2>3. LiveTasks(b) = {l \in LiveTasks(db) : db.task[l].token \notin {t}}
    BY <1>1, <1>3, <2>1, <2>2
  <2>4. Frees(db, b, {t})
    BY <1>3, <1>4, <1>5, <2>2, <2>3 DEF Frees, Bound
  <2> QED
    BY <1>1, <1>6, <2>4, KeptFrees
<1>7. Accounts(db, b)
  <2>1. Noted(b)
    BY <1>2, <1>5 DEF Noted
  <2>2. ASSUME Ready(db) PROVE Steady(db, b)
    <3>1. db.token[t].node = db.task[k].node
      BY <1>1, <2>2 DEF Ready, Kept, Held, t
    <3>2. \A q \in db.scope : ~SeatedAt(db, t, q.node) /\ ~SeatedAt(b, t, q.node)
      BY <1>5, <3>1 DEF ScopesAt, SeatedAt
    <3> QED
      BY <1>4, <1>5, <3>2 DEF Steady, SeatedAt
  <2> QED
    BY <2>1, <2>2, NotedAccounts
<1>8. Fine(db, b)
  BY <1>1, <1>4, <1>5, <1>6, <1>7 DEF Fine
<1> QED
  BY <1>8 DEF b, base, t

LEMMA RejectTaskFine ==
  ASSUME TInv, NEW k \in TaskId, NEW target \in OfKind(flow, "userTask"), RejectTask(k, target)
  PROVE  \E a : Begin("reject", a) /\ Fine(db, a)
<1>1. /\ ScopesAt(db, db.task[k].node) = {}
      /\ "reject" \in Calls[flow] /\ Actionable(k) /\ target \in Node(flow) /\ k \in LiveTasks(db)
  BY ActionableOpen DEF RejectTask, May, OfKind
<1>2. ASSUME Careful(flow), Kept(flow, db) PROVE ParentOf(db, k) = 0
  <2>1. Unsigned(db)
    BY <1>1, <1>2 DEF Careful, Kept
  <2> QED
    BY <1>1, <2>1 DEF Unsigned
<1> DEFINE t == db.task[k].token
           b == Place(DropTimers(Complete(db, {k}), t), t, target)
<1>3. Begin("reject", b)
  BY DEF RejectTask
<1>4. Fine(db, b)
  BY <1>1, <1>2, LeaveFine
<1> QED
  BY <1>3, <1>4

LEMMA FinishAddSignFine ==
  ASSUME TInv, NEW k \in TaskId, Actionable(k), db.task[k].parent # 0
  PROVE  Fine(db, FinishAddSign(Complete(db, {k}), db.task[k].parent))
<1> DEFINE p == db.task[k].parent
           gone == {k}
           base == Complete(db, gone)
<1>1. /\ k \in Open(db) /\ k \in LiveTasks(db) /\ ~Clean(db) /\ Good(flow, db)
      /\ db.task[k].state = "Open"
  BY ActionableOpen DEF TInv
<1>2. p \in TaskId /\ p = ParentOf(db, k)
  BY <1>1, EndsTyped DEF ParentOf
<1> HIDE DEF gone
<1>3. /\ Good(flow, base) /\ OtherTasks(db, base)
      /\ LiveTasks(base) = LiveTasks(db) \ gone
      /\ \A l \in LiveTasks(base) : base.task[l] = db.task[l]
  BY <1>1, CompleteSome
<1> USE DEF gone
<1> HIDE DEF base, p
<1>4. /\ base.token = db.token /\ base.timer = db.timer /\ base.inst = db.inst
      /\ base.scope = db.scope
  BY <1>3 DEF OtherTasks
<1>5. CASE base.task[p].state = "Suspended"
  <2> DEFINE open == "Open"
             b == Restated(base, p, open)
  <2>1. p \in LiveTasks(base) /\ open \in {"Open", "Suspended"}
    BY <1>2, <1>5 DEF LiveTasks
  <2> HIDE DEF open
  <2>2. /\ Good(flow, b) /\ OtherTasks(base, b) /\ LiveTasks(b) = LiveTasks(base)
        /\ b.task[p].state = open /\ b.task[p].token = base.task[p].token
        /\ b.task[p].node = base.task[p].node /\ ParentOf(b, p) = ParentOf(base, p)
        /\ \A l \in TaskId : l # p => b.task[l] = base.task[l]
    BY <1>3, <2>1, TaskStateGood
  <2> HIDE DEF b
  <2>5. /\ b.token = db.token /\ b.timer = db.timer /\ b.inst = db.inst
        /\ b.scope = db.scope
    BY <1>4, <2>2 DEF OtherTasks
  <2>6. p # 0 /\ base.task[p] = db.task[p]
    BY <1>2, <1>3, <2>1 DEF TaskId
  <2>7. Unsigns(db, b, k, p)
    <3>1. \A l \in LiveTasks(b) : l # p => b.task[l] = db.task[l]
      BY <1>3, <2>2 DEF LiveTasks
    <3>2. ParentOf(b, p) = ParentOf(db, p)
      BY <2>2, <2>6 DEF ParentOf
    <3> QED
      BY <1>1, <1>2, <1>3, <2>2, <2>5, <2>6, <3>1, <3>2 DEF Unsigns, open
  <2>8. FinishAddSign(base, p) = b
    BY <1>5 DEF FinishAddSign, b, Restated, open
  <2>9. Accounts(db, b)
    BY <2>5, SameAccounts
  <2> QED
    BY <1>1, <2>2, <2>5, <2>7, <2>8, <2>9, KeptUnsigns DEF Fine, p, base
<1>6. CASE base.task[p].state # "Suspended"
  <2>1. FinishAddSign(base, p) = base
    BY <1>6 DEF FinishAddSign
  <2>2. ~Kept(flow, db)
    <3> SUFFICES ASSUME Kept(flow, db) PROVE FALSE
      OBVIOUS
    <3>1. db.task[p].state = "Suspended"
      BY <1>1, <1>2 DEF Kept, Chained, p
    <3>2. p \in LiveTasks(db) /\ p # k
      BY <1>1, <1>2, <3>1 DEF LiveTasks
    <3> QED
      BY <1>3, <1>6, <3>1, <3>2
  <2>3. Accounts(db, base)
    BY <1>4, SameAccounts
  <2> QED
    BY <1>1, <1>3, <1>4, <2>1, <2>2, <2>3 DEF Fine, p, base
<1> QED
  BY <1>5, <1>6

\* The sub-instances that are left at the node of a scope go away, and a
\* token leaves it.
LEMMA FinishScopeGood ==
  ASSUME flow \in Flow, NEW a, Good(flow, a), RoomFor(a, 1), NEW s \in a.scope
  PROVE  LET b == FinishScope(a, s)
         IN  /\ Good(flow, b) /\ b.inst = a.inst
             /\ Kept(flow, a) => Kept(flow, b)
             /\ Noted(b) /\ b.scope = a.scope \ {s}
             /\ Kept(flow, a) => \A t \in TokenId : \A m :
                  m # s.node => (SeatedAt(b, t, m) <=> SeatedAt(a, t, m))
<1> DEFINE rest == TasksAt(a, s.node)
           gone == {a.task[k].token : k \in rest}
           c == DropTokens(a, gone)
           left == DropTasks(c, rest)
           n == FirstOut(flow, s.node)
           x == [state |-> "Active", node |-> n, via |-> s.node]
           d == [left EXCEPT !.token[NextToken(left)] = x]
           scopes == left.scope \ {s}
           b == [d EXCEPT !.scope = scopes]
<1>1. /\ s \in Scope(flow) /\ s.node \in DOMAIN Def[flow].mi /\ a.scope \subseteq Scope(flow)
      /\ \A r \in a.scope : r.node \in DOMAIN Def[flow].mi
  BY GoodIs, AggregateIs DEF ScopesPlaced
<1>2. s.node \in Node(flow) /\ s.node \in AnyNode(flow) /\ n \in Node(flow)
  BY <1>1, DefAssumption, WayOut DEF OfKind, AnyNode
<1>3. rest \subseteq LiveTasks(a) /\ \A t \in gone : t \in TokenId /\ a.token[t].state # "None"
  BY GoodIs DEF TasksAt, LiveTasks, TasksPlaced
<1> HIDE DEF n
<1>4. /\ Good(flow, c) /\ OtherTokens(a, c)
      /\ c.token = [t \in TokenId |-> IF t \in gone THEN GoneToken ELSE a.token[t]]
  <2> HIDE DEF gone
  <2> QED
    BY <1>3, DropTokensGood, DropTokensIs, GoodIs
<1>5. \A t \in TokenId : c.token[t] = IF t \in gone THEN GoneToken ELSE a.token[t]
  <2> HIDE DEF c, gone
  <2> QED
    BY <1>4
<1>6. /\ Good(flow, left) /\ OtherTasks(c, left)
      /\ left.task = [k \in TaskId |-> IF k \in rest THEN NoTask ELSE c.task[k]]
  <2> HIDE DEF c, rest
  <2> QED
    BY <1>4, DropTasksGood, DropTasksIs, GoodIs
<1>7. \A k \in TaskId : left.task[k] = IF k \in rest THEN NoTask ELSE a.task[k]
  <2> HIDE DEF c, left, rest
  <2> QED
    BY <1>4, <1>6 DEF OtherTokens
<1> HIDE DEF left, c
<1>8. /\ left.inst = a.inst /\ left.timer = a.timer /\ left.scope = a.scope /\ left.token = c.token
      /\ Fields(left)
  BY <1>4, <1>6 DEF OtherTokens, OtherTasks
<1>0. NoTask.state = "None" /\ GoneToken.state = "Removed"
  BY DEF NoTask, GoneToken
<1>9. SameNone(a, left)
  <2> HIDE DEF gone
  <2> QED
    BY <1>0, <1>3, <1>5, <1>8 DEF SameNone
<1>10. LiveTasks(left) = LiveTasks(a) \ rest
       /\ \A k \in LiveTasks(left) : left.task[k] = a.task[k]
  <2> HIDE DEF rest
  <2>1. \A k \in TaskId : left.task[k].state # "None" <=> a.task[k].state # "None" /\ k \notin rest
    BY <1>0, <1>7
  <2>2. LiveTasks(left) = LiveTasks(a) \ rest
    BY <2>1 DEF LiveTasks
  <2> QED
    BY <1>7, <2>2 DEF LiveTasks
<1>11. ASSUME Kept(flow, a)
       PROVE  Kept(flow, left)
  <2>1. \A k \in rest : a.token[a.task[k].token].state = "Waiting"
                        /\ a.token[a.task[k].token].node = s.node
    BY <1>3, <1>11 DEF Kept, Held, TasksAt
  <2>2. ASSUME NEW k \in LiveTasks(a), a.task[k].token \in gone
        PROVE  k \in rest
    <3>1. a.task[k].node = s.node
      BY <2>1, <2>2, <1>11 DEF Kept, Held
    <3> QED
      BY <3>1 DEF TasksAt, LiveTasks
  <2>3. LiveTasks(left) = {k \in LiveTasks(a) : a.task[k].token \notin gone}
    BY <1>10, <2>2
  <2>4. ASSUME NEW j \in a.timer, j.token \in gone
        PROVE  FALSE
    <3>1. a.token[j.token].state = "Waiting" /\ a.token[j.token].node = s.node
      BY <2>1, <2>4
    <3>2. HostedIn(flow, a, j)
      BY <1>11 DEF Kept, Clocked
    <3> QED
      BY <1>1, <3>1, <3>2 DEF HostedIn
  <2>5. left.timer = {j \in a.timer : j.token \notin gone}
    BY <1>8, <2>4
  <2> HIDE DEF gone
  <2>6. \A t \in TokenId : t \notin gone => left.token[t] = a.token[t]
    BY <1>5, <1>8
  <2>7. \A t \in gone : left.token[t].state \notin Bound
    BY <1>0, <1>3, <1>5, <1>8 DEF Bound
  <2>8. Frees(a, left, gone)
    BY <1>10, <2>3, <2>5, <2>6, <2>7 DEF Frees
  <2> QED
    BY <1>11, <2>8, KeptFrees
<1>12. RoomFor(left, 1) /\ NextToken(left) = NextToken(a)
  BY <1>9, SameNextToken
<1>13. /\ Good(flow, d) /\ Shifts(left, d) /\ NextToken(left) \in TokenId
       /\ d.token[NextToken(left)].state = "Active"
  BY <1>2, <1>6, <1>12, LooseToken
<1>14. scopes \in SUBSET Scope(flow) /\ \A r \in scopes : r.node \in DOMAIN Def[flow].mi
  BY <1>1, <1>8
<1>15. FinishScope(a, s) = b
  <2>1. FinishScope(a, s) = [left EXCEPT !.scope = @ \ {s}, !.token[NextToken(a)] = x]
    BY DEF FinishScope, left, c, n
  <2> HIDE DEF x
  <2>2. b = [left EXCEPT !.scope = @ \ {s}, !.token[NextToken(left)] = x]
    <3> DEFINE tokens == [left.token EXCEPT ![NextToken(left)] = x]
    <3>1. d = [left EXCEPT !.token = tokens]
      OBVIOUS
    <3>2. [left EXCEPT !.scope = @ \ {s}, !.token[NextToken(left)] = x]
            = [left EXCEPT !.scope = scopes, !.token = tokens]
      OBVIOUS
    <3> HIDE DEF tokens, d, scopes
    <3> QED
      BY <1>8, <3>1, <3>2 DEF Fields
  <2> QED
    BY <1>12, <2>1, <2>2
<1> HIDE DEF d, scopes
<1>21. Good(flow, b) /\ OtherScopes(d, b) /\ b.scope = scopes
  BY <1>13, <1>14, ScopesGood
<1>16. Good(flow, b) /\ OtherScopes(d, b) /\ b.scope = a.scope \ {s}
  BY <1>8, <1>21 DEF scopes
<1> HIDE DEF b
<1>17. Drifts(left, b) /\ b.inst = a.inst
  BY <1>8, <1>13, <1>16 DEF Drifts, Shifts, OtherTokens, OtherScopes
<1>18. Kept(flow, a) => Kept(flow, b)
  BY <1>6, <1>11, <1>17, KeptDrifts
<1>19. Noted(b)
  BY <1>13, <1>16 DEF Noted, OtherScopes
<1>20. ASSUME Kept(flow, a), NEW t \in TokenId, NEW m, m # s.node
       PROVE  SeatedAt(b, t, m) <=> SeatedAt(a, t, m)
  <2>1. \A k \in rest : a.token[a.task[k].token].node = s.node
    BY <1>3, <1>20 DEF Kept, Held, TasksAt
  <2>2. SeatedAt(b, t, m) <=> SeatedAt(left, t, m)
    BY <1>13, <1>16 DEF SeatedAt, OtherScopes, Shifts, Bound
  <2>3. CASE t \in gone
    <3>1. a.token[t].node = s.node
      BY <2>1, <2>3
    <3>2. left.token[t].state = "Removed"
      BY <1>0, <1>5, <1>8, <2>3
    <3> QED
      BY <1>20, <2>2, <3>1, <3>2 DEF SeatedAt
  <2>4. CASE t \notin gone
    <3>1. left.token[t] = a.token[t]
      BY <1>5, <1>8, <2>4
    <3> QED
      BY <2>2, <3>1 DEF SeatedAt
  <2> QED
    BY <2>3, <2>4
<1> QED
  BY <1>15, <1>16, <1>17, <1>18, <1>19, <1>20

\* One sub-instance more is done.
OneDone(s, x) ==
  /\ x.node = s.node /\ x.sequential = s.sequential /\ x.total = s.total /\ x.next = s.next
  /\ x.completed = s.completed + 1
  /\ x.due = IF s.sequential /\ s.next < s.total THEN s.next + 1 ELSE s.due

\* A sub-instance of a scope is done.
LEMMA FinishElementGood ==
  ASSUME flow \in Flow, NEW a, Good(flow, a), RoomFor(a, 1), NEW s \in a.scope,
         NEW closes \in BOOLEAN
  PROVE  LET b == FinishElement(a, s, closes)
         IN  /\ Good(flow, b) /\ b.inst = a.inst
             /\ Kept(flow, a) => Kept(flow, b)
             /\ Noted(a) => Noted(b)
             /\ Kept(flow, a) => \A t \in TokenId : \A m :
                  m # s.node => (SeatedAt(b, t, m) <=> SeatedAt(a, t, m))
             /\ closes => b.scope = a.scope \ {s}
             /\ ~closes =>
                  /\ b.token = a.token
                  /\ \E x : b.scope = (a.scope \ {s}) \cup {x} /\ OneDone(s, x)
<1>1. CASE closes
  BY <1>1, FinishScopeGood DEF FinishElement
<1>2. CASE ~closes
  <2> DEFINE done == [s EXCEPT !.completed = @ + 1]
             x == IF s.sequential /\ s.next < s.total THEN [done EXCEPT !.due = s.next + 1]
                  ELSE done
             scopes == (a.scope \ {s}) \cup {x}
             b == [a EXCEPT !.scope = scopes]
  <2>1. /\ s \in Scope(flow) /\ s.node \in DOMAIN Def[flow].mi /\ a.scope \subseteq Scope(flow)
        /\ \A r \in a.scope : r.node \in DOMAIN Def[flow].mi
    BY GoodIs, AggregateIs DEF ScopesPlaced
  <2>2. /\ done \in Scope(flow) /\ done.node = s.node /\ done.sequential = s.sequential
        /\ done.total = s.total /\ done.next = s.next /\ done.completed = s.completed + 1
        /\ done.due = s.due
    BY <2>1 DEF Scope
  <2>3. x \in Scope(flow) /\ x.node = s.node /\ OneDone(s, x)
    <3> HIDE DEF done
    <3> DEFINE y == [done EXCEPT !.due = s.next + 1]
    <3>1. /\ y \in Scope(flow) /\ y.node = s.node /\ y.sequential = s.sequential
          /\ y.total = s.total /\ y.next = s.next /\ y.completed = s.completed + 1
          /\ y.due = s.next + 1
      BY <2>1, <2>2 DEF Scope
    <3> HIDE DEF y
    <3>2. x = IF s.sequential /\ s.next < s.total THEN y ELSE done
      BY DEF y
    <3> HIDE DEF x
    <3> QED
      BY <2>2, <3>1, <3>2 DEF OneDone
  <2> HIDE DEF x
  <2>4. scopes \in SUBSET Scope(flow) /\ \A r \in scopes : r.node \in DOMAIN Def[flow].mi
    BY <2>1, <2>3
  <2>5. FinishElement(a, s, closes) = b
    BY <1>2 DEF FinishElement, x
  <2> HIDE DEF scopes
  <2>11. Good(flow, b) /\ OtherScopes(a, b) /\ b.scope = scopes
    BY <2>4, ScopesGood
  <2>6. Good(flow, b) /\ OtherScopes(a, b) /\ b.scope = (a.scope \ {s}) \cup {x}
    BY <2>11 DEF scopes
  <2> HIDE DEF b
  <2>7. Drifts(a, b) /\ b.inst = a.inst
    BY <2>6 DEF Drifts, OtherScopes
  <2>8. b.token = a.token
    BY <2>6 DEF OtherScopes
  <2>9. /\ Noted(a) => Noted(b)
        /\ \A t \in TokenId : \A m : SeatedAt(b, t, m) <=> SeatedAt(a, t, m)
    BY <2>8 DEF Noted, SeatedAt
  <2>10. Kept(flow, a) => Kept(flow, b)
    BY <2>7, KeptDrifts
  <2> QED
    BY <1>2, <2>3, <2>5, <2>6, <2>7, <2>8, <2>9, <2>10
<1> QED
  BY <1>1, <1>2

\* A sub-instance of a multi-instance node is completed.
LEMMA ElementFine ==
  ASSUME TInv, NEW k \in TaskId, Actionable(k), ParentOf(db, k) = 0, RoomFor(db, 1),
         NEW s \in ScopesAt(db, db.task[k].node), NEW closes \in BOOLEAN,
         op = Idle, s.completed + 1 >= s.total => closes
  PROVE  Fine(db, FinishElement(Halt(Complete(db, {k}), db.task[k].token, "Ended"), s, closes))
<1> DEFINE t == db.task[k].token
           gone == {k}
           ended == "Ended"
           base == Complete(db, gone)
           h == Halt(base, t, ended)
<1>1. /\ k \in Open(db) /\ k \in LiveTasks(db) /\ ~Clean(db) /\ Good(flow, db) /\ flow \in Flow
  BY ActionableOpen DEF TInv
<1>2. t \in TokenId /\ db.token[t].state # "None"
  BY <1>1, GoodIs DEF TasksPlaced
<1>3. s \in db.scope /\ s.node = db.task[k].node /\ s.node \in DOMAIN Def[flow].mi
  BY <1>1, GoodIs DEF ScopesAt, ScopesPlaced
<1> HIDE DEF gone
<1>4. /\ Good(flow, base) /\ OtherTasks(db, base)
      /\ LiveTasks(base) = LiveTasks(db) \ gone
      /\ \A l \in LiveTasks(base) : base.task[l] = db.task[l]
  BY <1>1, CompleteSome
<1> USE DEF gone
<1> HIDE DEF base
<1>5. /\ base.token = db.token /\ base.timer = db.timer /\ base.inst = db.inst
      /\ base.scope = db.scope
  BY <1>4 DEF OtherTasks
<1>6. ended = "Ended" /\ ended \in TokenState /\ ended \notin {"None", "Removed"}
  BY DEF TokenState
<1> HIDE DEF t, ended
<1>7. Good(flow, h)
  BY <1>2, <1>4, <1>5, <1>6, HaltGood
<1>8. OtherTokens(base, h) /\ h.token =
        [base.token EXCEPT ![t] = [state |-> ended, node |-> base.token[t].node,
                                   via |-> base.token[t].via]]
  BY <1>2, <1>4, HaltIs, GoodIs
<1> HIDE DEF h
<1>9. /\ h.token[t].state = "Ended"
      /\ \A u \in TokenId : u # t => h.token[u] = db.token[u]
  BY <1>1, <1>2, <1>5, <1>6, <1>8, GoodIs
<1>10. /\ h.inst = db.inst /\ h.timer = db.timer /\ h.scope = db.scope /\ h.task = base.task
  BY <1>5, <1>8 DEF OtherTokens
<1>11. RoomFor(h, 1)
  BY <1>2, <1>9, SameNextToken DEF SameNone
<1>12. ASSUME Kept(flow, db)
       PROVE  Kept(flow, h)
  <2>1. \A l \in LiveTasks(db) : db.task[l].token = t => l = k
    BY <1>1, <1>12, LoneTask DEF t
  <2>2. LiveTasks(h) = LiveTasks(base) /\ db.task[k].token = t
    BY <1>10 DEF LiveTasks, t
  <2>3. LiveTasks(h) = {l \in LiveTasks(db) : db.task[l].token \notin {t}}
    BY <1>1, <1>4, <2>1, <2>2
  <2>4. db.token[t].state = "Waiting" /\ db.token[t].node = s.node
    BY <1>1, <1>3, <1>12 DEF Kept, Held, t
  <2>5. ASSUME NEW j \in db.timer, j.token = t
        PROVE  FALSE
    <3>1. HostedIn(flow, db, j)
      BY <1>12 DEF Kept, Clocked
    <3> QED
      BY <1>3, <2>4, <2>5, <3>1 DEF HostedIn
  <2>6. h.timer = {j \in db.timer : j.token \notin {t}}
    BY <1>10, <2>5
  <2>7. Frees(db, h, {t})
    BY <1>4, <1>9, <1>10, <2>2, <2>3, <2>6 DEF Frees, Bound
  <2> QED
    BY <1>1, <1>12, <2>7, KeptFrees
<1> DEFINE b == FinishElement(h, s, closes)
<1>13. /\ Good(flow, b) /\ b.inst = h.inst
       /\ Kept(flow, h) => Kept(flow, b)
       /\ Noted(h) => Noted(b)
       /\ Kept(flow, h) => \A u \in TokenId : \A m :
            m # s.node => (SeatedAt(b, u, m) <=> SeatedAt(h, u, m))
       /\ closes => b.scope = h.scope \ {s}
       /\ ~closes =>
            /\ b.token = h.token
            /\ \E x : b.scope = (h.scope \ {s}) \cup {x} /\ OneDone(s, x)
  BY <1>1, <1>3, <1>7, <1>10, <1>11, FinishElementGood
<1> HIDE DEF b
<1>14. Noted(b)
  BY <1>2, <1>9, <1>13 DEF Noted
<1>15. ASSUME Ready(db) PROVE Counted(b)
  <2>1. Kept(flow, db) /\ Kept(flow, h) /\ Counted(db) /\ Full(db)
    BY <1>12, <1>15 DEF Ready
  <2>2. SeatedAt(db, t, s.node) /\ ~SeatedAt(h, t, s.node)
    BY <1>1, <1>3, <1>9, <2>1 DEF Kept, Held, SeatedAt, t
  <2>3. \A u \in TokenId : \A m : u # t => (SeatedAt(h, u, m) <=> SeatedAt(db, u, m))
    BY <1>9 DEF SeatedAt
  <2>4. \A m : m # s.node => (SeatedAt(h, t, m) <=> SeatedAt(db, t, m))
    BY <1>9, <2>2 DEF SeatedAt
  <2>5. \A u \in TokenId : \A m : m # s.node => (SeatedAt(b, u, m) <=> SeatedAt(db, u, m))
    BY <1>13, <2>1, <2>3, <2>4
  <2>6. CASE closes
    BY <1>3, <1>10, <1>13, <2>1, <2>5, <2>6, Uncounted
  <2>7. CASE ~closes
    <3>1. PICK x : b.scope = (db.scope \ {s}) \cup {x} /\ OneDone(s, x)
      BY <1>10, <1>13, <2>7
    <3>2. \A u \in TokenId : \A m : SeatedAt(b, u, m) <=> SeatedAt(h, u, m)
      BY <1>13, <2>7 DEF SeatedAt
    <3>3. /\ Cardinality(Seats(b, s.node)) = Cardinality(Seats(db, s.node)) - 1
          /\ Cardinality(Seats(db, s.node)) > 0
      BY <1>2, <2>2, <2>3, <3>2, SeatLeft
    <3>4. /\ s.completed \in Nat /\ s.next \in Nat /\ s.total \in Nat /\ s.due \in Nat
          /\ s.sequential \in BOOLEAN
      BY <1>1, <1>3, GoodIs, AggregateIs DEF Scope
    <3>5. /\ s.completed < s.total /\ s.next = s.due
          /\ s.due = IF s.sequential THEN s.completed + 1 ELSE s.total
          /\ Cardinality(Seats(db, s.node)) = s.next - s.completed
      BY <1>3, <2>1 DEF Counted, Full
    <3>6. s.completed + 1 < s.total
      BY <2>7, <3>4
    <3>7. /\ x.completed < x.total /\ x.completed <= x.next /\ x.next <= x.due
          /\ x.due = IF x.sequential THEN x.completed + 1 ELSE x.total
          /\ Cardinality(Seats(b, s.node)) = x.next - x.completed
      <4>1. CASE s.sequential
        BY <3>1, <3>3, <3>4, <3>5, <3>6, <4>1 DEF OneDone
      <4>2. CASE ~s.sequential
        BY <3>1, <3>3, <3>4, <3>5, <3>6, <4>2 DEF OneDone
      <4> QED
        BY <4>1, <4>2
    <3>8. \A u \in TokenId, q \in db.scope :
            q # s => (SeatedAt(b, u, q.node) <=> SeatedAt(db, u, q.node))
      BY <1>3, <2>1, <2>5 DEF Counted
    <3>9. x.node = s.node
      BY <3>1 DEF OneDone
    <3> QED
      BY <1>3, <2>1, <3>1, <3>7, <3>8, <3>9, Recounted
  <2> QED
    BY <2>6, <2>7
<1>16. Accounts(db, b)
  BY <1>14, <1>15 DEF Accounts, Trace
<1>17. Fine(db, b)
  BY <1>1, <1>10, <1>12, <1>13, <1>16 DEF Fine
<1> QED
  BY <1>17 DEF b, h, base, t, ended

LEMMA CompleteTaskFine ==
  ASSUME TInv, NEW k \in TaskId, CompleteTask(k)
  PROVE  \E a : Begin("complete", a) /\ Fine(db, a)
<1> DEFINE task == db.task[k]
           base == Complete(db, {k})
<1>1. May("complete") /\ op = Idle /\ Actionable(k) /\ flow \in Flow
  BY DEF CompleteTask, May, TInv
<1>2. CASE task.parent # 0 /\ Begin("complete", FinishAddSign(base, task.parent))
  BY <1>1, <1>2, FinishAddSignFine
<1>3. ASSUME task.parent = 0, RoomFor(db, 1), NEW s \in ScopesAt(db, task.node),
             NEW closes \in BOOLEAN, s.completed + 1 >= s.total => closes,
             Begin("complete", FinishElement(Halt(base, task.token, "Ended"), s, closes))
      PROVE  \E a : Begin("complete", a) /\ Fine(db, a)
  <2>1. ParentOf(db, k) = 0
    BY <1>3 DEF ParentOf
  <2>2. Fine(db, FinishElement(Halt(base, task.token, "Ended"), s, closes))
    BY <1>1, <1>3, <2>1, ElementFine
  <2> QED
    BY <1>3, <2>2
<1>4. CASE /\ task.parent = 0 /\ ScopesAt(db, task.node) = {}
           /\ Begin("complete", Place(DropTimers(base, task.token), task.token,
                                      FirstOut(flow, task.node)))
  <2>1. k \in LiveTasks(db)
    BY <1>1, ActionableOpen
  <2>2. FirstOut(flow, task.node) \in Node(flow)
    BY <1>1, <2>1, EndsTyped, WayOut DEF TInv, OfKind
  <2>3. ParentOf(db, k) = 0
    BY <1>4 DEF ParentOf
  <2>4. Fine(db, Place(DropTimers(base, task.token), task.token, FirstOut(flow, task.node)))
    BY <1>1, <1>4, <2>2, <2>3, LeaveFine
  <2> QED
    BY <1>4, <2>4
<1> QED
  BY <1>2, <1>3, <1>4 DEF CompleteTask

-----------------------------------------------------------------------------
(* The calls on the instance as a whole. *)

\* What a call may make of an aggregate.
Follows(a, b) ==
  /\ Good(flow, b)
  /\ Careful(flow) /\ Kept(flow, a) => Kept(flow, b)
  /\ Careful(flow) /\ Kept(flow, a) /\ Over(flow, a) => Over(flow, b)
  /\ Ready(a) => Counted(b)

\* What a run may begin with: there is something to run.
Opens(a, b) == Follows(a, b) /\ (a.inst = "None" \/ Noted(a) => Trace(b))

\* An instance has at least a token that ended, and while it is not over one
\* that is alive.
Lively(a) ==
  /\ a.inst # "None" => Noted(a)
  /\ a.inst \in {"Active", "Suspended"} => Alive(a) # {}

\* What a call that saves at once leaves in the store.
Rests(a, b) == (Lively(a) => Lively(b)) /\ (Full(a) => Full(b))

LEMMA FineFollows ==
  ASSUME NEW a, NEW b, Fine(a, b)
  PROVE  Follows(a, b)
BY DEF Fine, Follows, Over, Terminal, Accounts

LEMMA FineOpens ==
  ASSUME NEW a, NEW b, Fine(a, b), a.inst # "None"
  PROVE  Opens(a, b)
BY FineFollows DEF Opens, Fine, Accounts, Trace

LEMMA NoScopes ==
  ASSUME NEW b, b.scope = {}
  PROVE  Counted(b) /\ Full(b)
BY DEF Counted, Full

\* Nothing waits for anything, and the instance is not over.
LEMMA BareFollows ==
  ASSUME NEW a, NEW b, Good(flow, b), Bare(b), Clean(b) \/ ~Terminal(b),
         b.scope = {}
  PROVE  Follows(a, b)
BY KeptBare, NoScopes DEF Follows, Over

LEMMA SameRests ==
  ASSUME NEW a, NEW b, b.token = a.token, b.scope = a.scope,
         \/ b.inst = a.inst
         \/ a.inst \in {"Active", "Suspended"} /\ b.inst \in {"Active", "Suspended"}
  PROVE  Rests(a, b)
BY DEF Rests, Lively, Full, Noted, Alive, Tokens

\* A token of b is alive.
LEMMA AliveRests ==
  ASSUME NEW a, NEW b, NEW t \in TokenId, b.token[t].state \in WaitState, b.scope \in {a.scope, {}}
  PROVE  Rests(a, b)
<1>1. t \in Alive(b) /\ Noted(b)
  BY DEF Alive, Tokens, Noted, WaitState
<1> QED
  BY <1>1 DEF Rests, Lively, Full

LEMMA AddSignFine ==
  ASSUME TInv, NEW k \in TaskId, AddSign(k)
  PROVE  \E a : Save(a) /\ Fine(db, a) /\ Rests(db, a)
<1> DEFINE suspended == "Suspended"
           c == Restated(db, k, suspended)
           t == db.task[k].token
           n == db.task[k].node
           b == AddTask(c, t, n, k)
           new == NextTask(c)
<1>1. /\ "addSign" \in Calls[flow] /\ k \in Open(db) /\ k \in LiveTasks(db) /\ ~Clean(db)
      /\ Good(flow, db) /\ HasFreeTask(db) /\ Save(b)
  BY ActionableOpen DEF AddSign, May, TInv, Restated
<1>2. suspended \in {"Open", "Suspended"}
  OBVIOUS
<1> HIDE DEF suspended
<1>3. /\ Good(flow, c) /\ OtherTasks(db, c) /\ LiveTasks(c) = LiveTasks(db)
      /\ c.task[k].state = suspended /\ c.task[k].token = db.task[k].token
      /\ c.task[k].node = db.task[k].node /\ ParentOf(c, k) = ParentOf(db, k)
      /\ \A l \in TaskId : l # k => c.task[l] = db.task[l]
  BY <1>1, <1>2, TaskStateGood
<1> HIDE DEF c
<1>4. t \in TokenId /\ n \in OfKind(flow, "userTask") /\ c.token[t].state # "None"
  BY <1>1, <1>3, GoodIs DEF TasksPlaced, OtherTasks
<1>5. HasFreeTask(c)
  <2>1. PICK i \in FreeTask(db) : TRUE
    BY <1>1 DEF HasFreeTask
  <2>2. /\ i \in TaskId /\ db.task[i].state = "None" /\ i # k
        /\ \A d \in TaskId : db.task[d].state # "None" => db.task[d].parent # i
    BY <1>1, <2>1 DEF FreeTask, LiveTasks
  <2>3. \A d \in TaskId : c.task[d].parent = db.task[d].parent
    BY <1>3 DEF ParentOf
  <2>4. \A d \in TaskId : c.task[d].state # "None" => db.task[d].state # "None"
    BY <1>1, <1>3 DEF LiveTasks
  <2>5. i \in FreeTask(c)
    BY <1>3, <2>2, <2>3, <2>4 DEF FreeTask
  <2> QED
    BY <2>5 DEF HasFreeTask
<1>6. k \in TaskId \cup {0}
  OBVIOUS
<1> HIDE DEF t, n
<1>7. /\ Good(flow, b) /\ OtherTasks(c, b)
      /\ LiveTasks(b) = LiveTasks(c) \cup {new}
      /\ b.task = [c.task EXCEPT ![new] = NewTask(t, n, k)]
  BY <1>3, <1>4, <1>5, <1>6, AddTaskGood
<1>8. /\ new \in TaskId /\ new \notin LiveTasks(c)
      /\ \A d \in LiveTasks(c) : ParentOf(c, d) # new
  BY <1>5, FreeTaskIs DEF ParentOf
<1> HIDE DEF b, new
<1>9. /\ b.task[new] = NewTask(t, n, k)
      /\ \A d \in TaskId : d # new => b.task[d] = c.task[d]
  BY <1>3, <1>7, <1>8, GoodIs
<1>10. /\ b.token = db.token /\ b.timer = db.timer /\ b.inst = db.inst
       /\ b.scope = db.scope
  BY <1>3, <1>7 DEF OtherTasks
<1>11. Signs(db, b, k, new)
  <2>1. new # 0 /\ new # k
    BY <1>1, <1>3, <1>8 DEF TaskId
  <2>2. \A d \in LiveTasks(db) : ParentOf(db, d) # new
    BY <1>3, <1>8 DEF ParentOf, LiveTasks
  <2>3. \A d \in LiveTasks(db) : d # k => b.task[d] = db.task[d]
    BY <1>3, <1>8, <1>9 DEF LiveTasks
  <2>4. b.task[k] = c.task[k]
    BY <1>9, <2>1
  <2>5. ParentOf(b, k) = ParentOf(db, k)
    BY <1>3, <2>4 DEF ParentOf
  <2> QED
    BY <1>1, <1>3, <1>7, <1>8, <1>9, <1>10, <2>1, <2>2, <2>3, <2>4, <2>5
    DEF Signs, t, n, suspended
<1>12. Accounts(db, b) /\ Rests(db, b)
  BY <1>10, SameAccounts, SameRests
<1> QED
  BY <1>1, <1>7, <1>10, <1>11, <1>12, KeptSigns DEF Fine

LEMMA JumpToFine ==
  ASSUME TInv, NEW t \in TokenId, NEW target \in OfKind(flow, "userTask"), JumpTo(t, target)
  PROVE  \E a : Begin("jump", a) /\ Fine(db, a)
<1> DEFINE c == Complete(EndAll(db), LiveTasks(db))
           b == Place(c, t, target)
<1>1. t \in Alive(db) /\ Good(flow, db) /\ Begin("jump", b) /\ target \in Node(flow)
  BY DEF JumpTo, TInv, OfKind
<1>2. Good(flow, c) /\ Cleared(db, c)
  BY <1>1, ClearedIs
<1> HIDE DEF c
<1>3. db.token[t].state # "None" /\ ~Clean(db)
  BY <1>1 DEF Alive, Tokens, WaitState, Clean
<1>4. c.token[t].state # "None" /\ c.token[t].state \notin Bound
  BY <1>2, <1>3, CleanBare DEF Cleared, SameNone, Bare
<1>5. Good(flow, b) /\ Shifts(c, b) /\ b.token[t].state = "Active" /\ t \in TokenId
  BY <1>1, <1>2, <1>4, PlaceGood, PlaceShifts
<1> HIDE DEF b
<1>6. Bare(b) /\ b.inst = db.inst /\ b.scope = {}
  BY <1>2, <1>5, BareToken
<1>7. Accounts(db, b)
  BY <1>5, <1>6, ClearAccounts DEF Noted
<1> QED
  BY <1>1, <1>3, <1>5, <1>6, <1>7, KeptBare DEF Fine

LEMMA WithdrawProcessFine ==
  ASSUME TInv, NEW landing \in FirstUserTasks[flow], WithdrawProcess(landing)
  PROVE  \E a : Save(a) /\ Follows(db, a) /\ Rests(db, a)
<1> DEFINE c == DropTasks(EndAll(db), LiveTasks(db))
           via == ""
           b == [AddTask(c, NextToken(c), landing, 0) EXCEPT
                   !.token[NextToken(c)] = [state |-> "Waiting", node |-> landing, via |-> via]]
<1>1. /\ "withdraw" \in Calls[flow] /\ db.inst = "Active" /\ RoomFor(db, 1)
      /\ Good(flow, db) /\ flow \in Flow
      /\ Save([AddTask(c, NextToken(db), landing, 0) EXCEPT
                 !.token[NextToken(db)] = [state |-> "Waiting", node |-> landing, via |-> via]])
  BY DEF WithdrawProcess, TInv, May, withdraw_denial
<1>2. landing \in OfKind(flow, "userTask")
  BY <1>1 DEF FirstUserTasks
<1>3. Good(flow, c) /\ Cleared(db, c)
  BY <1>1, ClearedIs
<1>4. via \in AnyNode(flow)
  BY DEF AnyNode
<1> HIDE DEF c, via
<1>5. NextToken(c) = NextToken(db) /\ RoomFor(c, 1) /\ c.inst = db.inst
  BY <1>1, <1>3, SameNextToken DEF Cleared
<1>6. HasFreeTask(c)
  <2>1. \A k \in TaskId : c.task[k].state = "None"
    BY <1>3 DEF Cleared, Clean, LiveTasks
  <2>2. 1 \in TaskId
    BY CallsAssumption DEF TaskId
  <2> QED
    BY <2>1, <2>2 DEF HasFreeTask, FreeTask
<1>7. Kept(flow, c)
  BY <1>3, CleanBare, KeptBare DEF Cleared
<1>8. /\ Good(flow, b) /\ b.inst = c.inst /\ (Kept(flow, c) => Kept(flow, b))
      /\ b.scope = c.scope /\ NextToken(c) \in TokenId
      /\ SeatedAt(b, NextToken(c), landing)
  BY <1>1, <1>2, <1>3, <1>4, <1>5, <1>6, SeatedSits
<1>9. Save(b)
  BY <1>1, <1>5
<1> HIDE DEF b
<1>10. b.scope = {} /\ Noted(b)
  BY <1>3, <1>8 DEF Cleared, Clean, SeatedAt, Noted
<1>11. Rests(db, b)
  BY <1>8, <1>10, AliveRests DEF SeatedAt, WaitState
<1>12. Follows(db, b)
  BY <1>1, <1>5, <1>7, <1>8, <1>10, NoScopes DEF Follows, Over, Terminal
<1> QED
  BY <1>9, <1>11, <1>12

\* An instance changes its state and nothing else.
LEMMA InstKept ==
  ASSUME NEW a, Good(flow, a), NEW i \in InstState
  PROVE  LET b == [a EXCEPT !.inst = i]
         IN  /\ Good(flow, b) /\ b.inst = i
             /\ Kept(flow, a) => Kept(flow, b)
             /\ Clean(a) => Clean(b)
             /\ b.token = a.token /\ b.scope = a.scope /\ Accounts(a, b)
<1> DEFINE b == [a EXCEPT !.inst = i]
<1>1. /\ Good(flow, b) /\ b.inst = i /\ b.token = a.token /\ b.task = a.task
      /\ b.timer = a.timer /\ b.scope = a.scope
  BY InstGood
<1> HIDE DEF b
<1>2. Drifts(a, b)
  BY <1>1 DEF Drifts
<1>3. Clean(a) => Clean(b)
  BY <1>1 DEF Clean, Alive, Tokens, LiveTasks
<1>4. Kept(flow, a) => Kept(flow, b)
  BY <1>2, KeptDrifts
<1>5. /\ Good(flow, b) /\ b.inst = i
      /\ Kept(flow, a) => Kept(flow, b)
      /\ Clean(a) => Clean(b)
      /\ b.token = a.token /\ b.scope = a.scope /\ Accounts(a, b)
  BY <1>1, <1>3, <1>4, SameAccounts
<1> QED
  BY <1>5 DEF b

LEMMA CancelProcessFine ==
  ASSUME TInv, CancelProcess, ~UNCHANGED kernel
  PROVE  \E a : Save(a) /\ Follows(db, a) /\ Rests(db, a)
<1> DEFINE c == DropTasks(EndAll(db), LiveTasks(db))
           b == [c EXCEPT !.inst = "Terminated"]
<1>1. Good(flow, db) /\ Save(b) /\ "Terminated" \in InstState
      /\ db.inst # "None"
  BY DEF CancelProcess, May, TInv, InstState
<1>2. Good(flow, c) /\ Cleared(db, c)
  BY <1>1, ClearedIs
<1> HIDE DEF c
<1>3. /\ Good(flow, b) /\ (Clean(c) => Clean(b)) /\ b.inst = "Terminated"
      /\ b.token = c.token
  BY <1>1, <1>2, InstKept
<1> HIDE DEF b
<1>4. Clean(b) /\ b.scope = {} /\ (Noted(db) => Noted(b))
  BY <1>2, <1>3 DEF Cleared, Clean, Noted
<1>5. Rests(db, b)
  BY <1>1, <1>3, <1>4 DEF Rests, Lively, Full
<1>6. Follows(db, b)
  BY <1>3, <1>4, CleanBare, BareFollows
<1> QED
  BY <1>1, <1>5, <1>6

LEMMA SuspendProcessFine ==
  ASSUME TInv, SuspendProcess
  PROVE  \E a : Save(a) /\ Follows(db, a) /\ Rests(db, a)
<1> DEFINE b == [db EXCEPT !.inst = "Suspended"]
<1>1. Good(flow, db) /\ Save(b) /\ "Suspended" \in InstState /\ db.inst = "Active"
  BY DEF SuspendProcess, TInv, InstState
<1>2. /\ Good(flow, b) /\ b.inst = "Suspended" /\ (Kept(flow, db) => Kept(flow, b))
      /\ b.token = db.token /\ b.scope = db.scope /\ Accounts(db, b)
  BY <1>1, InstKept
<1> HIDE DEF b
<1>3. Rests(db, b)
  BY <1>1, <1>2, SameRests
<1>4. Follows(db, b)
  BY <1>2 DEF Follows, Over, Terminal, Accounts
<1> QED
  BY <1>1, <1>3, <1>4

LEMMA ResumeProcessFine ==
  ASSUME TInv, ResumeProcess
  PROVE  \E a : Begin("resume", a) /\ Opens(db, a)
<1> DEFINE b == [db EXCEPT !.inst = "Active"]
<1>1. Good(flow, db) /\ Begin("resume", b) /\ "Active" \in InstState
      /\ db.inst # "None"
  BY DEF ResumeProcess, May, TInv, InstState
<1>2. /\ Good(flow, b) /\ b.inst = "Active" /\ (Kept(flow, db) => Kept(flow, b))
      /\ Accounts(db, b)
  BY <1>1, InstKept
<1> HIDE DEF b
<1>3. Follows(db, b)
  BY <1>2 DEF Follows, Over, Terminal, Accounts
<1>4. Opens(db, b)
  BY <1>1, <1>2, <1>3 DEF Opens, Accounts, Trace
<1> QED
  BY <1>1, <1>4

\* With no token left, nothing else is left either.
LEMMA NoneLeft ==
  ASSUME NEW f, NEW a, Good(f, a), Kept(f, a), Alive(a) = {}, a.scope = {}
  PROVE  Clean(a)
<1>1. \A t \in TokenId : a.token[t].state \notin WaitState
  BY DEF Alive, Tokens
<1>2. LiveTasks(a) = {}
  BY <1>1, EndsTyped DEF Kept, Held, WaitState
<1>3. a.timer = {}
  <2> SUFFICES ASSUME NEW j \in a.timer PROVE FALSE
    OBVIOUS
  <2>1. HostedIn(f, a, j) /\ j.token \in TokenId
    BY EndsTyped DEF Kept, Clocked
  <2> QED
    BY <1>1, <2>1 DEF HostedIn, WaitState
<1> QED
  BY <1>2, <1>3 DEF Clean

LEMMA NoScopesLeft ==
  ASSUME NEW f, NEW a, Good(f, a), DOMAIN Def[f].mi = {}
  PROVE  a.scope = {}
BY GoodIs DEF ScopesPlaced

\* A scope that is full has a seat that is taken.
LEMMA SeatsLeft ==
  ASSUME NEW f, NEW a, Good(f, a), Counted(a), Full(a), NEW s \in a.scope
  PROVE  /\ s.next <= s.total /\ s.next > s.completed
         /\ Seats(a, s.node) # {}
<1>1. /\ s.completed \in Nat /\ s.next \in Nat /\ s.total \in Nat /\ s.due \in Nat
      /\ s.sequential \in BOOLEAN
  BY GoodIs, AggregateIs DEF Scope
<1>2. /\ s.completed < s.total /\ s.next = s.due
      /\ s.due = IF s.sequential THEN s.completed + 1 ELSE s.total
      /\ Cardinality(Seats(a, s.node)) = s.next - s.completed
  BY DEF Counted, Full
<1>3. s.next <= s.total /\ s.next > s.completed
  BY <1>1, <1>2
<1>4. Cardinality(Seats(a, s.node)) # 0
  BY <1>1, <1>2, <1>3
<1>5. Seats(a, s.node) # {}
  BY <1>4, FS_EmptySet
<1> QED
  BY <1>3, <1>5

LEMMA NoScopeOpen ==
  ASSUME NEW f, NEW a, Good(f, a), Counted(a), Full(a), Alive(a) = {}
  PROVE  a.scope = {}
<1> SUFFICES ASSUME NEW s \in a.scope PROVE FALSE
  OBVIOUS
<1>1. PICK t \in TokenId : SeatedAt(a, t, s.node)
  BY SeatsLeft DEF Seats
<1> QED
  BY <1>1 DEF SeatedAt, Alive, Tokens, WaitState

\* What is saved at the end of a run.
LEMMA ConcludedIs ==
  ASSUME flow \in Flow, NEW a, Good(flow, a)
  PROVE  LET b == Concluded(a)
         IN  /\ Good(flow, b) /\ b.token = a.token /\ b.scope = a.scope
             /\ Kept(flow, a) => Kept(flow, b)
             /\ Kept(flow, a) /\ Over(flow, a) /\ (Alive(a) = {} => a.scope = {})
                  => Over(flow, b)
             /\ Alive(a) = {} /\ Noted(a) => b.inst = "Completed"
<1>1. Alive(a) = {} /\ Noted(a) => Tokens(a, {"Ended"}) # {}
  <2>1. \A t \in TokenId : a.token[t].state \in TokenState
    BY GoodIs DEF Token
  <2> QED
    BY <2>1 DEF Alive, Noted, Tokens, TokenState
<1>2. CASE Alive(a) = {} /\ Tokens(a, {"Ended"}) # {}
  <2> DEFINE b == [a EXCEPT !.inst = "Completed"]
  <2>1. "Completed" \in InstState
    BY DEF InstState
  <2>2. /\ Good(flow, b) /\ b.inst = "Completed"
        /\ Kept(flow, a) => Kept(flow, b)
        /\ Clean(a) => Clean(b)
        /\ b.token = a.token /\ b.scope = a.scope
    BY <2>1, InstKept
  <2>3. Concluded(a) = b
    BY <1>2 DEF Concluded
  <2> HIDE DEF b
  <2>4. Kept(flow, a) /\ (Alive(a) = {} => a.scope = {}) => Over(flow, b)
    BY <1>2, <2>2, NoneLeft DEF Over
  <2> QED
    BY <2>2, <2>3, <2>4
<1>3. CASE ~(Alive(a) = {} /\ Tokens(a, {"Ended"}) # {})
  BY <1>1, <1>3 DEF Concluded
<1> QED
  BY <1>2, <1>3

LEMMA RetryIncidentFine ==
  ASSUME TInv, RetryIncident
  PROVE  \E a : Begin("retryIncident", a) /\ Fine(db, a)
<1> DEFINE those == Tokens(db, {"Incident"})
           active == "Active"
           b == [db EXCEPT !.token = [t \in TokenId |->
                   IF t \in those THEN [@[t] EXCEPT !.state = active] ELSE @[t]]]
<1>1. Good(flow, db) /\ those # {} /\ those \in SUBSET TokenId
  BY DEF RetryIncident, TInv, Tokens
<1>2. \A t \in those : Lives(db.token[t]) /\ db.token[t].state \notin Bound
  BY DEF Tokens, Lives, Bound
<1>3. Begin("retryIncident", b)
  <2> DEFINE here == [t \in TokenId |->
                IF db.token[t].state = "Incident" THEN [db.token[t] EXCEPT !.state = "Active"]
                ELSE db.token[t]]
             same == [t \in TokenId |->
                IF t \in those THEN [db.token[t] EXCEPT !.state = active] ELSE db.token[t]]
  <2>1. here = same
    BY DEF Tokens
  <2>2. Begin("retryIncident", [db EXCEPT !.token = here])
    BY DEF RetryIncident
  <2>3. b = [db EXCEPT !.token = same]
    OBVIOUS
  <2> HIDE DEF here, same, b
  <2> QED
    BY <2>1, <2>2, <2>3
<1>4. active \in {"Active", "Incident"}
  OBVIOUS
<1>5. ~Clean(db)
  BY <1>1 DEF Clean, Alive, Tokens, WaitState
<1>9. b = [db EXCEPT !.token = [t \in TokenId |->
             IF t \in those THEN [@[t] EXCEPT !.state = active] ELSE @[t]]]
  OBVIOUS
<1> HIDE DEF those, active, b
<1>6. Good(flow, b) /\ Restates(db, b, those, active)
  BY <1>1, <1>2, <1>4, <1>9, RestateGood
<1>7. Drifts(db, b) /\ b.inst = db.inst
  BY <1>6 DEF Restates, Drifts, Shifts, OtherTokens
<1>8. Accounts(db, b)
  BY <1>6, ShiftsSteady, SteadyAccounts DEF Restates
<1> QED
  BY <1>1, <1>3, <1>5, <1>6, <1>7, <1>8, KeptDrifts DEF Fine

LEMMA SubflowIncidentFine ==
  ASSUME TInv, NEW n, SubflowIncident(n)
  PROVE  \E a : Save(a) /\ Fine(db, a) /\ Rests(db, a)
<1> DEFINE stuck == {t \in Tokens(db, {"WaitingSubflow"}) : db.token[t].node = n}
           incident == "Incident"
           b == [db EXCEPT !.token = [t \in TokenId |->
                   IF t \in stuck THEN [@[t] EXCEPT !.state = incident] ELSE @[t]]]
<1>1. Good(flow, db) /\ stuck # {} /\ stuck \in SUBSET TokenId /\ Save(b)
  BY DEF SubflowIncident, TInv, Tokens
<1>2. \A t \in stuck : Lives(db.token[t]) /\ db.token[t].state \notin Bound
  BY DEF Tokens, Lives, Bound
<1>3. incident \in {"Active", "Incident"}
  OBVIOUS
<1>4. ~Clean(db)
  BY <1>1 DEF Clean, Alive, Tokens, WaitState
<1>9. b = [db EXCEPT !.token = [t \in TokenId |->
             IF t \in stuck THEN [@[t] EXCEPT !.state = incident] ELSE @[t]]]
  OBVIOUS
<1> HIDE DEF stuck, incident, b
<1>5. Good(flow, b) /\ Restates(db, b, stuck, incident)
  BY <1>1, <1>2, <1>3, <1>9, RestateGood
<1>6. Drifts(db, b) /\ b.inst = db.inst
  BY <1>5 DEF Restates, Drifts, Shifts, OtherTokens
<1>7. Accounts(db, b)
  BY <1>5, ShiftsSteady, SteadyAccounts DEF Restates
<1>8. Rests(db, b)
  <2>1. PICK t \in stuck : TRUE
    BY <1>1
  <2>2. b.token[t].state \in WaitState /\ t \in TokenId
    BY <1>1, <1>5, <2>1 DEF Restates, incident, WaitState
  <2>3. b.scope = db.scope
    BY <1>5 DEF Restates, Shifts, OtherTokens
  <2> QED
    BY <2>2, <2>3, AliveRests
<1> QED
  BY <1>1, <1>4, <1>5, <1>6, <1>7, <1>8, KeptDrifts DEF Fine

-----------------------------------------------------------------------------
(* Events, timers and jobs. *)

LEMMA StartProcessFine ==
  ASSUME TInv, StartProcess
  PROVE  \E a : Begin("start", a) /\ Opens(db, a)
<1> DEFINE b == [Absent EXCEPT !.inst = "Active",
                   !.token[1] = [state |-> "Active", node |-> Def[flow].start, via |-> ""]]
<1>1. Begin("start", b) /\ flow \in Flow
  BY DEF StartProcess, TInv
<1>2. /\ Good(flow, b) /\ b.inst = "Active" /\ LiveTasks(b) = {} /\ b.timer = {}
      /\ b.scope = {} /\ \A t \in TokenId : b.token[t].state \notin Bound
      /\ Noted(b)
  BY <1>1, Started
<1> HIDE DEF b
<1>3. Bare(b) /\ ~Terminal(b)
  BY <1>2 DEF Bare, Terminal
<1> QED
  BY <1>1, <1>2, <1>3, BareFollows DEF Opens, Trace

\* A token that nothing belongs to goes on.
LEMMA MoveOnFine ==
  ASSUME NEW a, Good(flow, a), NEW t \in TokenId, Lives(a.token[t]),
         a.token[t].state \notin Bound, NEW n \in Node(flow)
  PROVE  Fine(a, Place(a, t, n))
<1> DEFINE b == Place(a, t, n)
<1>1. a.token[t].state # "None" /\ ~Clean(a)
  <2>1. a.token[t] \in Token(flow)
    BY GoodIs
  <2> QED
    BY <2>1 DEF Lives, Clean, Alive, Tokens, Token, TokenState
<1>2. Good(flow, b) /\ Shifts(a, b) /\ b.token[t].state = "Active"
  BY <1>1, PlaceGood, PlaceShifts
<1> HIDE DEF b
<1>3. Drifts(a, b) /\ b.inst = a.inst
  BY <1>2 DEF Drifts, Shifts, OtherTokens
<1>4. Accounts(a, b)
  BY <1>2, ShiftsSteady, NotedAccounts DEF Noted
<1>5. Fine(a, b)
  BY <1>1, <1>2, <1>3, <1>4, KeptDrifts DEF Fine
<1> QED
  BY <1>5 DEF b

\* A token at an event gateway loses its timers and goes on.
LEMMA ReleaseFine ==
  ASSUME NEW a, Good(flow, a), NEW t \in TokenId, a.token[t].state = "WaitingEventGateway",
         NEW n \in Node(flow)
  PROVE  Fine(a, Place(DropTimers(a, t), t, n))
<1> DEFINE b == Place(DropTimers(a, t), t, n)
<1>1. a.token[t].state # "None" /\ ~Clean(a)
  BY DEF Clean, Alive, Tokens, WaitState
<1>2. /\ Good(flow, b) /\ b.inst = a.inst /\ b.task = a.task
      /\ b.token[t].state = "Active" /\ b.scope = a.scope
      /\ \A u \in TokenId : u # t => b.token[u] = a.token[u]
      /\ b.timer = {j \in a.timer : j.token # t}
  BY <1>1, ReleaseGood
<1> HIDE DEF b
<1>3. ASSUME Kept(flow, a)
      PROVE  Kept(flow, b)
  <2>1. \A k \in LiveTasks(a) : a.task[k].token # t
    BY <1>3 DEF Kept, Held
  <2>2. LiveTasks(b) = {k \in LiveTasks(a) : a.task[k].token \notin {t}}
    BY <1>2, <2>1 DEF LiveTasks
  <2>3. Frees(a, b, {t})
    BY <1>2, <2>2 DEF Frees, Bound
  <2> QED
    BY <1>3, <2>3, KeptFrees
<1>4. Accounts(a, b)
  BY <1>2, OneMoves DEF SeatedAt
<1>5. Fine(a, b)
  BY <1>1, <1>2, <1>3, <1>4 DEF Fine
<1> QED
  BY <1>5 DEF b

LEMMA CorrelateMessageFine ==
  ASSUME TInv, NEW t \in TokenId, NEW catch \in OfKind(flow, "messageCatch"),
         CorrelateMessage(t, catch)
  PROVE  \E a : Begin("correlate", a) /\ Fine(db, a)
<1>1. Good(flow, db) /\ FirstOut(flow, catch) \in Node(flow)
  BY WayOut DEF TInv, OfKind
<1>2. CASE /\ db.token[t].state = "WaitingMessage"
           /\ Begin("correlate", Place(db, t, FirstOut(flow, catch)))
  <2>1. Lives(db.token[t]) /\ db.token[t].state \notin Bound
    BY <1>2 DEF Lives, Bound
  <2>2. Fine(db, Place(db, t, FirstOut(flow, catch)))
    BY <1>1, <2>1, MoveOnFine
  <2> QED
    BY <1>2, <2>2
<1>3. CASE /\ db.token[t].state = "WaitingEventGateway"
           /\ Begin("correlate", Place(DropTimers(db, t), t, FirstOut(flow, catch)))
  <2>1. Fine(db, Place(DropTimers(db, t), t, FirstOut(flow, catch)))
    BY <1>1, <1>3, ReleaseFine
  <2> QED
    BY <1>3, <2>1
<1> QED
  BY <1>2, <1>3 DEF CorrelateMessage

\* b is a with other timers.
LEMMA TimersSet ==
  ASSUME NEW f, NEW a, Good(f, a), NEW timers \in SUBSET Timer(f),
         \A j \in timers : /\ KindOf(f, j.node) \in {"timerCatch", "boundaryTimer"}
                           /\ KindOf(f, j.node) = "timerCatch" => j.left = 0
  PROVE  LET b == [a EXCEPT !.timer = timers]
         IN  Good(f, b) /\ OtherTimers(a, b) /\ b.timer = timers
<1> DEFINE b == [a EXCEPT !.timer = timers]
<1>1. OtherTimers(a, b) /\ b.timer = timers
  BY GoodIs DEF OtherTimers, Fields
<1> HIDE DEF b
<1>2. TimersPlaced(f, b)
  BY <1>1 DEF TimersPlaced
<1>3. Good(f, b) /\ OtherTimers(a, b) /\ b.timer = timers
  BY <1>1, <1>2, OtherTimersGood
<1> QED
  BY <1>3 DEF b

LEMMA FiredGood ==
  ASSUME NEW f, NEW a, Good(f, a), NEW j \in a.timer
  PROVE  LET b == [a EXCEPT !.timer = @ \ {j}]
         IN  Good(f, b) /\ OtherTimers(a, b) /\ b.timer = a.timer \ {j}
<1> DEFINE timers == a.timer \ {j}
<1>1. timers \in SUBSET Timer(f)
  BY EndsTyped
<1>2. \A i \in timers : /\ KindOf(f, i.node) \in {"timerCatch", "boundaryTimer"}
                        /\ KindOf(f, i.node) = "timerCatch" => i.left = 0
  BY EndsTyped
<1>3. [a EXCEPT !.timer = @ \ {j}] = [a EXCEPT !.timer = timers]
  OBVIOUS
<1> DEFINE b == [a EXCEPT !.timer = timers]
<1> HIDE DEF timers
<1>4. Good(f, b) /\ OtherTimers(a, b) /\ b.timer = timers
  BY <1>1, <1>2, TimersSet
<1> QED
  BY <1>3, <1>4 DEF timers

\* An intermediate timer whose token waits for it alone.
LEMMA CatchFine ==
  ASSUME flow \in Flow, NEW a, Good(flow, a), NEW j \in a.timer,
         KindOf(flow, j.node) = "timerCatch",
         a.token[j.token].state \notin {"None", "Removed", "WaitingEventGateway"}
  PROVE  Fine(a, Place([a EXCEPT !.timer = @ \ {j}], j.token, FirstOut(flow, j.node)))
<1> DEFINE t == j.token
           n == FirstOut(flow, j.node)
           c == [a EXCEPT !.timer = @ \ {j}]
           b == Place(c, t, n)
<1>1. /\ j \in Timer(flow) /\ t \in TokenId /\ j.node \in Node(flow) /\ n \in Node(flow)
      /\ j.left = 0
  BY EndsTyped, WayOut
<1>2. Good(flow, c) /\ OtherTimers(a, c) /\ c.timer = a.timer \ {j}
  BY FiredGood
<1> HIDE DEF c, n
<1>3. c.token = a.token /\ c.task = a.task /\ c.inst = a.inst /\ c.scope = a.scope
  BY <1>2 DEF OtherTimers
<1>4. Good(flow, b)
  BY <1>1, <1>2, <1>3, PlaceGood
<1>5. OtherTokens(c, b) /\ b.token =
        [c.token EXCEPT ![t] = [state |-> "Active", node |-> n, via |-> c.token[t].node]]
  BY <1>1, <1>2, PlaceIs, GoodIs
<1> HIDE DEF b
<1>6. b.token[t].state = "Active" /\ \A u \in TokenId : u # t => b.token[u] = a.token[u]
  BY <1>1, <1>3, <1>5, GoodIs
<1>7. b.inst = a.inst /\ b.task = a.task /\ b.timer = a.timer \ {j} /\ b.scope = a.scope
  BY <1>2, <1>3, <1>5 DEF OtherTokens
<1>8. ~Clean(a)
  BY DEF Clean
<1>9. ASSUME Kept(flow, a)
      PROVE  Kept(flow, b)
  <2>1. a.token[t].state = "WaitingTimer" /\ a.token[t].node = j.node
    BY <1>9 DEF Kept, Clocked, HostedIn
  <2>2. ASSUME NEW i \in a.timer, i.token = t
        PROVE  i = j
    <3>1. HostedIn(flow, a, i) /\ i \in Timer(flow)
          /\ (KindOf(flow, i.node) = "timerCatch" => i.left = 0)
      BY <1>9, EndsTyped DEF Kept, Clocked
    <3>2. i.node = j.node /\ i.left = 0
      BY <2>1, <2>2, <3>1 DEF HostedIn
    <3> QED
      BY <1>1, <2>2, <3>1, <3>2 DEF Timer
  <2>3. \A k \in LiveTasks(a) : a.task[k].token # t
    BY <1>9, <2>1 DEF Kept, Held
  <2>4. LiveTasks(b) = {k \in LiveTasks(a) : a.task[k].token \notin {t}}
    BY <1>7, <2>3 DEF LiveTasks
  <2>5. b.timer = {i \in a.timer : i.token \notin {t}}
    BY <1>7, <2>2
  <2>6. Frees(a, b, {t})
    BY <1>6, <1>7, <2>4, <2>5 DEF Frees, Bound
  <2> QED
    BY <1>9, <2>6, KeptFrees
<1>10. Accounts(a, b)
  <2>1. Noted(b)
    BY <1>1, <1>6 DEF Noted
  <2>2. ASSUME Ready(a) PROVE Steady(a, b)
    <3>1. a.token[t].state # "Waiting"
      BY <2>2 DEF Ready, Kept, Clocked, HostedIn
    <3> QED
      BY <1>6, <1>7, <3>1 DEF Steady, SeatedAt
  <2> QED
    BY <2>1, <2>2, NotedAccounts
<1>11. Fine(a, b)
  BY <1>4, <1>7, <1>8, <1>9, <1>10 DEF Fine
<1> QED
  BY <1>11 DEF b, c, n, t

\* An interrupting timer takes the tasks of its token away.
LEMMA InterruptFine ==
  ASSUME flow \in Flow, NEW a, Good(flow, a), NEW j \in a.timer,
         a.token[j.token].state # "None"
  PROVE  LET t == j.token
         IN  Fine(a, Place(DropTimers(DropTasks(a, TasksOf(a, t)), t), t, j.node))
<1> DEFINE t == j.token
           n == j.node
           gone == TasksOf(a, t)
           base == DropTasks(a, gone)
           b == Place(DropTimers(base, t), t, n)
<1>1. t \in TokenId /\ n \in Node(flow) /\ ~Clean(a)
  BY EndsTyped DEF Clean
<1>2. gone = {k \in LiveTasks(a) : a.task[k].token = t}
  BY DEF TasksOf, LiveTasks
<1> HIDE DEF gone
<1>3. /\ OtherTasks(a, base) /\ base.handled = a.handled
      /\ base.task = [k \in TaskId |-> IF k \in gone THEN NoTask ELSE a.task[k]]
      /\ a.handled \in BOOLEAN
  BY DropTasksIs, GoodIs, AggregateIs
<1> HIDE DEF base
<1>4. /\ Good(flow, base) /\ LiveTasks(base) = LiveTasks(a) \ gone
      /\ \A k \in LiveTasks(base) : base.task[k] = a.task[k]
  BY <1>3, GoodFewerTasks
<1>5. /\ base.token = a.token /\ base.timer = a.timer /\ base.inst = a.inst
      /\ base.scope = a.scope
  BY <1>3 DEF OtherTasks
<1> HIDE DEF t, n
<1>6. /\ Good(flow, b) /\ b.inst = base.inst /\ b.task = base.task
      /\ b.token[t].state = "Active" /\ b.scope = base.scope
      /\ \A u \in TokenId : u # t => b.token[u] = base.token[u]
      /\ b.timer = {i \in base.timer : i.token # t}
  <2>1. base.token[t].state # "None"
    BY <1>5 DEF t
  <2> QED
    BY <1>1, <1>4, <2>1, ReleaseGood
<1> HIDE DEF b
<1>7. LiveTasks(b) = LiveTasks(base)
  BY <1>6 DEF LiveTasks
<1>8. Frees(a, b, {t})
  <2>1. LiveTasks(b) = {k \in LiveTasks(a) : a.task[k].token \notin {t}}
    BY <1>2, <1>4, <1>7
  <2> QED
    BY <1>4, <1>5, <1>6, <1>7, <2>1 DEF Frees, Bound
<1>9. Accounts(a, b)
  <2>1. Noted(b)
    BY <1>1, <1>6 DEF Noted
  <2>2. ASSUME Ready(a) PROVE Steady(a, b)
    <3>1. HostedIn(flow, a, j)
      BY <2>2 DEF Ready, Kept, Clocked
    <3>2. \A s \in a.scope : s.node \in DOMAIN Def[flow].mi
      BY GoodIs DEF ScopesPlaced
    <3>3. \A s \in a.scope : ~SeatedAt(a, t, s.node)
      BY <3>1, <3>2 DEF HostedIn, SeatedAt, t
    <3> QED
      BY <1>5, <1>6, <3>3 DEF Steady, SeatedAt
  <2> QED
    BY <2>1, <2>2, NotedAccounts
<1>10. Fine(a, b)
  BY <1>1, <1>5, <1>6, <1>8, <1>9, KeptFrees DEF Fine
<1> QED
  BY <1>10 DEF b, base, gone, n, t

\* What is armed again when a boundary timer fires.
LEMMA RearmedIs ==
  ASSUME NEW f, NEW j \in Timer(f), NEW i \in Rearmed(j)
  PROVE  i \in Timer(f) /\ i.token = j.token /\ i.node = j.node
<1>1. j.left \in Nat \cup {-1}
  BY DEF Timer
<1>2. CASE j.left > 0
  <2> DEFINE x == [j EXCEPT !.left = @ - 1]
  <2>1. i = x
    BY <1>2 DEF Rearmed
  <2>2. x \in Timer(f) /\ x.token = j.token /\ x.node = j.node
    BY <1>1, <1>2 DEF Timer
  <2> QED
    BY <2>1, <2>2
<1>3. CASE ~(j.left > 0) /\ j.left < 0
  <2>1. i = j
    BY <1>3 DEF Rearmed
  <2> QED
    BY <2>1
<1>4. CASE ~(j.left > 0) /\ ~(j.left < 0)
  BY <1>4 DEF Rearmed
<1> QED
  BY <1>2, <1>3, <1>4

\* A boundary timer that takes nothing away starts a token of its own.
LEMMA RefireFine ==
  ASSUME flow \in Flow, NEW a, Good(flow, a), NEW j \in a.timer, RoomFor(a, 1),
         j.node \in OfKind(flow, "boundaryTimer") \ Def[flow].cancel
  PROVE  Fine(a, [[a EXCEPT !.timer = @ \ {j}] EXCEPT
                    !.timer = @ \cup Rearmed(j),
                    !.token[NextToken(a)] = [state |-> "Active", node |-> j.node,
                                             via |-> a.token[j.token].node]])
<1> DEFINE timers == (a.timer \ {j}) \cup Rearmed(j)
           n == j.node
           from == a.token[j.token].node
           x == [state |-> "Active", node |-> n, via |-> from]
           m == NextToken(a)
           c == [a EXCEPT !.timer = timers]
           b == [c EXCEPT !.token[NextToken(c)] = x]
           whole == [[a EXCEPT !.timer = @ \ {j}] EXCEPT
                       !.timer = @ \cup Rearmed(j), !.token[m] = x]
<1>1. /\ j \in Timer(flow) /\ j.token \in TokenId /\ n \in Node(flow)
      /\ KindOf(flow, n) = "boundaryTimer" /\ Fields(a)
  BY EndsTyped, GoodIs DEF OfKind
<1>2. from \in AnyNode(flow)
  BY <1>1, GoodIs DEF Token
<1>3. /\ timers \in SUBSET Timer(flow)
      /\ \A i \in timers : /\ KindOf(flow, i.node) \in {"timerCatch", "boundaryTimer"}
                           /\ KindOf(flow, i.node) = "timerCatch" => i.left = 0
  BY <1>1, EndsTyped, RearmedIs
<1>4. /\ a.timer \ {j} \subseteq timers
      /\ \A i \in timers \ a.timer : i.token = j.token /\ i.node = j.node
  BY <1>1, RearmedIs
<1>5. whole = [c EXCEPT !.token[m] = x]
  <2> DEFINE tokens == [a.token EXCEPT ![m] = x]
             fewer == a.timer \ {j}
             d == [a EXCEPT !.timer = fewer]
             more == fewer \cup Rearmed(j)
  <2>1. whole = [d EXCEPT !.timer = d.timer \cup Rearmed(j), !.token = [d.token EXCEPT ![m] = x]]
    OBVIOUS
  <2>2. [c EXCEPT !.token[m] = x] = [c EXCEPT !.token = [c.token EXCEPT ![m] = x]]
    OBVIOUS
  <2> HIDE DEF whole, x, m, fewer
  <2>3. d.timer = fewer /\ d.token = a.token /\ c.token = a.token /\ timers = more
    BY <1>1 DEF Fields, fewer
  <2>4. whole = [d EXCEPT !.timer = more, !.token = tokens]
    BY <2>1, <2>3
  <2>5. [c EXCEPT !.token[m] = x] = [c EXCEPT !.token = tokens]
    BY <2>2, <2>3
  <2>6. timers = more
    BY <2>3
  <2> HIDE DEF tokens, timers, more
  <2>7. [d EXCEPT !.timer = more, !.token = tokens] = [c EXCEPT !.token = tokens]
    BY <1>1, <2>6 DEF Fields
  <2> QED
    BY <2>4, <2>5, <2>7
<1> HIDE DEF timers, n, from
<1>6. Good(flow, c) /\ OtherTimers(a, c) /\ c.timer = timers
  BY <1>3, TimersSet
<1> HIDE DEF c
<1>7. c.token = a.token /\ c.task = a.task /\ c.inst = a.inst /\ c.scope = a.scope
  BY <1>6 DEF OtherTimers
<1>8. NextToken(c) = m /\ RoomFor(c, 1)
  BY <1>7, SameNextToken DEF SameNone
<1>9. /\ Good(flow, b) /\ Shifts(c, b) /\ NextToken(c) \in TokenId
      /\ b.token[NextToken(c)].state = "Active"
  BY <1>1, <1>2, <1>6, <1>8, LooseToken
<1>10. whole = b
  <2> HIDE DEF x, m, whole
  <2> QED
    BY <1>5, <1>8
<1> HIDE DEF b
<1>11. /\ b.inst = a.inst /\ b.task = a.task /\ b.timer = timers /\ b.scope = a.scope
       /\ \A u \in TokenId :
            \/ b.token[u] = a.token[u]
            \/ a.token[u].state \notin Bound /\ b.token[u].state \notin Bound
  BY <1>6, <1>7, <1>9 DEF Shifts, OtherTokens
<1>12. Refires(flow, a, b, j)
  BY <1>1, <1>4, <1>11 DEF Refires, n
<1>13. Accounts(a, b)
  <2>1. Noted(b)
    BY <1>9 DEF Noted
  <2>2. Steady(a, b)
    BY <1>11 DEF Steady, SeatedAt, Bound
  <2> QED
    BY <2>1, <2>2, NotedAccounts
<1>14. Fine(a, b)
  BY <1>9, <1>11, <1>12, <1>13, KeptRefires DEF Fine, Clean
<1> QED
  BY <1>10, <1>14 DEF n, from

LEMMA FireTimerFine ==
  ASSUME TInv, NEW j \in wk.timer, FireTimer(j)
  PROVE  Fine(wk, wk')
<1> DEFINE t == j.token
           fired == [wk EXCEPT !.timer = @ \ {j}]
<1>1. Good(flow, wk) /\ flow \in Flow /\ t \in TokenId /\ ~Clean(wk)
  BY EndsTyped DEF TInv, Clean
<1>2. CASE wk.token[t].state \in {"None", "Removed"} /\ wk' = fired
  <2>1. Good(flow, fired) /\ OtherTimers(wk, fired)
    BY <1>1, FiredGood
  <2>2. ~Kept(flow, wk)
    BY <1>2 DEF Kept, Clocked, HostedIn
  <2> HIDE DEF fired
  <2>3. Accounts(wk, fired)
    BY <2>1, SameAccounts DEF OtherTimers
  <2> QED
    BY <1>1, <1>2, <2>1, <2>2, <2>3 DEF Fine, OtherTimers
<1>3. CASE /\ wk.token[t].state \notin {"None", "Removed"}
           /\ KindOf(flow, j.node) = "timerCatch"
           /\ wk' = Place(IF wk.token[t].state = "WaitingEventGateway"
                          THEN DropTimers(wk, t) ELSE fired, t, FirstOut(flow, j.node))
  <2>1. FirstOut(flow, j.node) \in Node(flow)
    BY <1>1, <1>3, EndsTyped, WayOut
  <2>2. CASE wk.token[t].state = "WaitingEventGateway"
    BY <1>1, <1>3, <2>1, <2>2, ReleaseFine
  <2>3. CASE wk.token[t].state # "WaitingEventGateway"
    BY <1>1, <1>3, <2>3, CatchFine
  <2> QED
    BY <2>2, <2>3
<1>4. CASE /\ wk.token[t].state \notin {"None", "Removed"}
           /\ wk' = Place(DropTimers(DropTasks(wk, TasksOf(wk, t)), t), t, j.node)
  BY <1>1, <1>4, InterruptFine
<1>5. CASE /\ j.node \in OfKind(flow, "boundaryTimer") \ Def[flow].cancel
           /\ RoomFor(wk, 1)
           /\ wk' = [fired EXCEPT
                      !.timer = @ \cup Rearmed(j),
                      !.token[NextToken(wk)] =
                         [state |-> "Active", node |-> j.node, via |-> wk.token[t].node]]
  BY <1>1, <1>5, RefireFine
<1> QED
  BY <1>2, <1>3, <1>4, <1>5 DEF FireTimer, Set

\* A token that waits for something outside goes on.
LEMMA AnsweredFine ==
  ASSUME TInv, NEW t \in TokenId, db.token[t].state \in {"WaitingAsync", "WaitingSubflow"}
  PROVE  Fine(db, PassOn(db, t))
<1>1. Good(flow, db) /\ flow \in Flow /\ Lives(db.token[t]) /\ db.token[t].state \notin Bound
  BY DEF TInv, Lives, Bound
<1>2. /\ db.token[t].node \in Node(flow)
      /\ KindOf(flow, db.token[t].node) \in {"serviceTask", "callActivity"}
  BY <1>1, GoodIs DEF Placed, RestsAt
<1>3. FirstOut(flow, db.token[t].node) \in Node(flow)
  BY <1>1, <1>2, WayOut
<1> QED
  BY <1>1, <1>3, MoveOnFine DEF PassOn

LEMMA FailAsyncFine ==
  ASSUME TInv, NEW t \in TokenId, db.token[t].state = "WaitingAsync"
  PROVE  /\ Follows(db, Halt(db, t, "Incident"))
         /\ Rests(db, Halt(db, t, "Incident"))
<1> DEFINE incident == "Incident"
           b == Halt(db, t, incident)
<1>1. /\ Good(flow, db) /\ db.token[t].state # "None" /\ Lives(db.token[t])
      /\ db.token[t].state \notin Bound /\ ~Clean(db)
  BY DEF TInv, Lives, Bound, Clean, Alive, Tokens, WaitState
<1>2. db.token[t].node \in Node(flow) /\ RestsAt(flow, incident, db.token[t].node)
  BY <1>1, GoodIs DEF Placed, RestsAt
<1>3. incident \in TokenState /\ incident \notin Bound /\ incident \notin {"None", "Removed"}
  BY DEF TokenState, WaitState, Bound
<1> HIDE DEF incident
<1>4. Good(flow, b) /\ Shifts(db, b) /\ b.token[t].state = incident
  BY <1>1, <1>2, <1>3, HaltGood, HaltShifts
<1> HIDE DEF b
<1>5. Drifts(db, b) /\ b.inst = db.inst
  BY <1>4 DEF Drifts, Shifts, OtherTokens
<1>6. b.token[t].state \in WaitState /\ b.scope = db.scope
  BY <1>4 DEF Shifts, OtherTokens, incident, WaitState
<1>7. Accounts(db, b) /\ Rests(db, b)
  BY <1>4, <1>6, ShiftsSteady, NotedAccounts, AliveRests DEF Noted, WaitState
<1>8. Fine(db, b)
  BY <1>1, <1>4, <1>5, <1>7, KeptDrifts DEF Fine
<1>9. Follows(db, b)
  BY <1>8, FineFollows
<1> QED
  BY <1>7, <1>9 DEF b, incident

\* A dead letter is put back.
LEMMA RetryDeadLetterFine ==
  ASSUME TInv, NEW r \in deadLetter, RetryDeadLetter(r), Retryable(r)
  PROVE  /\ Follows(db, Halt(db, r.token, "WaitingAsync"))
         /\ Rests(db, Halt(db, r.token, "WaitingAsync"))
<1> DEFINE parked == "WaitingAsync"
           t == r.token
           b == Halt(db, t, parked)
<1>1. /\ Good(flow, db) /\ t \in TokenId /\ r.node \in OfKind(flow, "serviceTask")
      /\ "retryDeadLetter" \in Calls[flow]
  BY DEF TInv, ServiceJob, RetryDeadLetter, May
<1>2. /\ db.token[t].state \notin {"None", "Removed"} /\ db.token[t].node = r.node
      /\ db.token[t].node \in Node(flow) /\ KindOf(flow, db.token[t].node) = "serviceTask"
  BY <1>1 DEF Retryable, OfKind
<1>3. db.token[t].state \notin Bound
  BY <1>1, <1>2, GoodIs DEF Placed, RestsAt, Lives, Bound
<1>4. /\ parked \in TokenState /\ parked \notin Bound /\ parked \notin {"None", "Removed"}
      /\ RestsAt(flow, parked, db.token[t].node)
  BY <1>2 DEF TokenState, WaitState, Bound, RestsAt
<1> HIDE DEF parked, t
<1>5. Good(flow, b) /\ Shifts(db, b) /\ b.token[t].state = parked
  BY <1>1, <1>2, <1>3, <1>4, HaltGood, HaltShifts
<1> HIDE DEF b
<1>6. Drifts(db, b)
  BY <1>5 DEF Drifts, Shifts, OtherTokens
<1>7. b.token[t].state \in WaitState /\ b.scope = db.scope
  BY <1>5 DEF Shifts, OtherTokens, parked, WaitState
<1>8. Rests(db, b)
  BY <1>1, <1>7, AliveRests
<1>9. Ready(db) => Counted(b)
  BY <1>5, ShiftsSteady, SteadyCounted DEF Ready
<1>10. Follows(db, b)
  BY <1>1, <1>5, <1>6, <1>9, KeptDrifts DEF Follows, Over
<1> QED
  BY <1>8, <1>10 DEF b, parked, t

-----------------------------------------------------------------------------
(* The invariant. *)

\* What a step does to the stored aggregate and to the copy.
Moves ==
  /\ flow' = flow
  /\ \/ op # Idle /\ op' # Idle /\ db' = db /\ Fine(wk, wk')
     \/ op = Idle /\ op' # Idle /\ db' = db /\ Opens(db, wk')
     \/ op = Idle /\ op' = Idle /\ db' = wk' /\ Follows(db, wk') /\ Rests(db, wk')
     \/ (op = Idle <=> op' = Idle) /\ db' = db /\ wk' = wk
     \/ Settled /\ op # Idle /\ op' = Idle /\ db' = Concluded(wk) /\ wk' = Concluded(wk)
     \/ op' = Idle /\ db' = db /\ wk' = db

\* Between two calls, and during one.
LEMMA IdleIs ==
  ASSUME TInv
  PROVE  /\ op.name # "idle" <=> op # Idle
         /\ op = Idle => wk = db
BY DEF TInv, Idle

LEMMA SetMoves ==
  ASSUME TInv, op.name # "idle", Fine(wk, wk'), UNCHANGED <<flow, db, op>>, UNCHANGED Tables
  PROVE  TInv' /\ Moves
<1>1. Good(flow, wk')
  BY DEF Fine
<1>2. TInv'
  BY <1>1, SetInv
<1> QED
  BY <1>2, IdleIs DEF Moves

LEMMA BeginMoves ==
  ASSUME TInv, op = Idle, NEW call \in CallName \cup {"batch", "start"}, NEW a, Opens(db, a),
         Begin(call, a), UNCHANGED Tables
  PROVE  TInv' /\ Moves
<1>1. wk' = a /\ UNCHANGED <<flow, db>> /\ Good(flow, a)
      /\ asyncJob' \subseteq asyncJob /\ deadLetter' = deadLetter
  BY DEF Begin, Opens, Follows, Tables
<1>2. TInv'
  BY <1>1, BeginInv
<1>3. op' # Idle
  <2>1. call # "idle"
    BY DEF CallName
  <2> QED
    BY <2>1 DEF Begin, Idle
<1> QED
  BY <1>1, <1>2, <1>3 DEF Moves

LEMMA SaveMoves ==
  ASSUME TInv, op = Idle, NEW a, Follows(db, a), Rests(db, a), Save(a),
         asyncJob' \subseteq ServiceJob(flow), deadLetter' \subseteq ServiceJob(flow)
  PROVE  TInv' /\ Moves
<1>1. wk' = a /\ db' = a /\ flow' = flow /\ op' = op /\ Good(flow, a)
  BY DEF Save, Follows
<1>2. TInv'
  BY <1>1, SaveInv
<1> QED
  BY <1>1, <1>2 DEF Moves

LEMMA TablesMoves ==
  ASSUME TInv, UNCHANGED kernel, asyncJob' \subseteq ServiceJob(flow),
         deadLetter' \subseteq ServiceJob(flow)
  PROVE  TInv' /\ Moves
<1>1. TInv'
  BY TablesInv
<1> QED
  BY <1>1 DEF Moves, kernel

LEMMA ParkAsyncMoves ==
  ASSUME TInv, NEW t \in TokenId, ParkAsync(t), UNCHANGED Tables
  PROVE  TInv' /\ Moves
<1> DEFINE job == [token |-> t, node |-> Here(t)]
<1>1. /\ TInv /\ Visit(t, {"serviceTask"}) /\ UNCHANGED <<flow, db>>
      /\ op' = [op EXCEPT !.jobs = @ \cup {job}]
  BY DEF TInv, ParkAsync
<1>2. Runs /\ job \in ServiceJob(flow) /\ op.name # "idle"
  BY <1>1, ParkAsyncRuns, Visited
<1>3. Fine(wk, wk')
  BY <1>1, <1>2, VisitFine
<1>4. Good(flow, wk')
  BY <1>3 DEF Fine
<1> HIDE DEF job
<1>5. /\ op'.name = op.name
      /\ op' \in [name : CallName \cup {"idle", "batch", "start"},
                  jobs : SUBSET ServiceJob(flow), row : ServiceJob(flow) \cup {NoJob}]
  BY <1>1, <1>2 DEF TInv
<1>6. asyncJob' \subseteq ServiceJob(flow) /\ deadLetter' \subseteq ServiceJob(flow)
  BY <1>1 DEF TInv, Tables
<1>7. Good(flow, db)
  BY <1>1 DEF TInv
<1>8. flow' = flow /\ db' = db /\ flow \in Flow
  BY <1>1 DEF TInv
<1>9. TInv'
  BY <1>2, <1>4, <1>5, <1>6, <1>7, <1>8 DEF TInv
<1>10. op # Idle /\ op' # Idle
  BY <1>1, <1>2, <1>5 DEF Idle
<1> QED
  BY <1>3, <1>8, <1>9, <1>10 DEF Moves

LEMMA RunMoves ==
  ASSUME TInv, Run
  PROVE  TInv' /\ Moves
<1>1. PICK t \in TokenId : Step(t)
  BY DEF Run
<1>2. UNCHANGED Tables /\ TInv
  BY DEF Run, TInv
<1>3. ASSUME NEW kinds, Visit(t, kinds), Fine(wk, wk'), UNCHANGED <<flow, db, op>>
      PROVE  TInv' /\ Moves
  <2>1. op.name # "idle"
    BY <1>2, <1>3, Visited
  <2> QED
    BY <1>2, <1>3, <2>1, SetMoves
<1>4. ASSUME NEW kinds, Visit(t, kinds), Runs, UNCHANGED <<flow, db, op>>
      PROVE  TInv' /\ Moves
  <2>1. Fine(wk, wk')
    BY <1>2, <1>4, VisitFine
  <2> QED
    BY <1>3, <1>4, <2>1
<1>5. CASE PassThrough(t)
  BY <1>2, <1>4, <1>5, PassThroughRuns DEF PassThrough, Set
<1>6. CASE End(t)
  BY <1>2, <1>4, <1>6, EndRuns DEF End, Set
<1>7. CASE TerminateEnd(t)
  BY <1>2, <1>3, <1>7, TerminateEndFine DEF TerminateEnd, Set
<1>8. CASE ExclusiveGateway(t)
  BY <1>2, <1>4, <1>8, ExclusiveGatewayRuns DEF ExclusiveGateway, Set
<1>9. CASE ParkAsync(t)
  BY <1>2, <1>9, ParkAsyncMoves
<1>10. CASE ServiceTask(t)
  <2>1. Visit(t, {"serviceTask"}) /\ UNCHANGED <<flow, db, op>>
    BY <1>10 DEF ServiceTask, Set
  <2> QED
    BY <1>2, <1>3, <1>10, <2>1, ServiceTaskFine
<1>11. CASE ParallelFork(t)
  BY <1>2, <1>4, <1>11, ParallelForkRuns DEF ParallelFork, Set
<1>12. CASE ParallelJoin(t)
  <2>1. Visit(t, {"parallel"}) /\ UNCHANGED <<flow, db, op>>
    BY <1>12 DEF ParallelJoin, Merge, Set
  <2> QED
    BY <1>2, <1>4, <1>12, <2>1, ParallelJoinRuns
<1>13. CASE InclusiveFork(t)
  <2>1. Visit(t, {"inclusive"}) /\ UNCHANGED <<flow, db, op>>
    BY <1>13 DEF InclusiveFork, Set
  <2> QED
    BY <1>2, <1>4, <1>13, <2>1, InclusiveForkRuns
<1>14. CASE InclusiveJoin(t)
  <2>1. Visit(t, {"inclusive"}) /\ UNCHANGED <<flow, db, op>>
    BY <1>14 DEF InclusiveJoin, Merge, Set
  <2> QED
    BY <1>2, <1>4, <1>14, <2>1, InclusiveJoinRuns
<1>15. CASE EnterUserTask(t)
  <2>1. Visit(t, {"userTask"}) /\ UNCHANGED <<flow, db, op>>
    BY <1>15 DEF EnterUserTask, Set
  <2> QED
    BY <1>2, <1>3, <1>15, <2>1, EnterUserTaskFine
<1>16. CASE EnterMultiInstance(t)
  <2>1. Visit(t, {"userTask"}) /\ UNCHANGED <<flow, db, op>>
    BY <1>16 DEF EnterMultiInstance, Set
  <2> QED
    BY <1>2, <1>3, <1>16, <2>1, EnterMultiInstanceFine
<1>17. CASE ParkSubflow(t)
  BY <1>2, <1>4, <1>17, ParkSubflowRuns DEF ParkSubflow, Set
<1>18. CASE ParkMessage(t)
  BY <1>2, <1>4, <1>18, ParkMessageRuns DEF ParkMessage, Set
<1>19. CASE ParkTimer(t)
  <2>1. Visit(t, {"timerCatch"}) /\ UNCHANGED <<flow, db, op>>
    BY <1>19 DEF ParkTimer, Set
  <2> QED
    BY <1>2, <1>3, <1>19, <2>1, ParkTimerFine
<1>20. CASE ParkEventGateway(t)
  <2>1. Visit(t, {"eventGateway"}) /\ UNCHANGED <<flow, db, op>>
    BY <1>20 DEF ParkEventGateway, Set
  <2> QED
    BY <1>2, <1>3, <1>20, <2>1, ParkEventGatewayFine
<1> QED
  BY <1>1, <1>5, <1>6, <1>7, <1>8, <1>9, <1>10, <1>11, <1>12, <1>13, <1>14, <1>15, <1>16,
     <1>17, <1>18, <1>19, <1>20 DEF Step

LEMMA RunExpandMoves ==
  ASSUME TInv, RunExpand
  PROVE  TInv' /\ Moves
<1>1. PICK s \in wk.scope : Expand(s)
  BY DEF RunExpand
<1>2. Fine(wk, wk') /\ op.name # "idle" /\ UNCHANGED <<flow, db, op>> /\ UNCHANGED Tables
  BY <1>1, ExpandFine DEF TInv, RunExpand, Expand, Set, Running
<1> QED
  BY <1>2, SetMoves

LEMMA CommitMoves ==
  ASSUME TInv, Commit
  PROVE  TInv' /\ Moves
<1> DEFINE b == Concluded(wk)
<1>1. /\ db' = b /\ wk' = b /\ op' = Idle /\ flow' = flow /\ deadLetter' = deadLetter
      /\ asyncJob' = asyncJob \cup Flushed(op.jobs) /\ Settled
  BY DEF Commit
<1>2. flow \in Flow /\ Good(flow, wk) /\ op # Idle
  BY <1>1 DEF TInv, Settled, Running, Idle
<1>3. Good(flow, b)
  BY <1>2, ConcludedIs
<1>4. Moves
  BY <1>1, <1>2 DEF Moves
<1> HIDE DEF b
<1>5. Flushed(op.jobs) \subseteq ServiceJob(flow)
  BY <1>2 DEF TInv, Flushed
<1>6. /\ Idle.name = "idle"
      /\ Idle \in [name : CallName \cup {"idle", "batch", "start"},
                   jobs : SUBSET ServiceJob(flow), row : ServiceJob(flow) \cup {NoJob}]
  BY DEF Idle
<1>7. TInv'
  BY <1>1, <1>2, <1>3, <1>5, <1>6 DEF TInv
<1> QED
  BY <1>4, <1>7

LEMMA DiscardMoves ==
  ASSUME TInv, Discard
  PROVE  TInv' /\ Moves
<1>1. /\ wk' = db /\ op' = Idle /\ flow' = flow /\ db' = db /\ deadLetter' = deadLetter
      /\ \/ asyncJob' = asyncJob
         \/ op.row # NoJob /\ asyncJob' = asyncJob \cup {op.row}
  BY DEF Discard
<1>2. asyncJob' \subseteq ServiceJob(flow)
  BY <1>1 DEF TInv
<1>3. /\ Idle.name = "idle"
      /\ Idle \in [name : CallName \cup {"idle", "batch", "start"},
                   jobs : SUBSET ServiceJob(flow), row : ServiceJob(flow) \cup {NoJob}]
  BY DEF Idle
<1>4. TInv'
  BY <1>1, <1>2, <1>3 DEF TInv
<1> QED
  BY <1>1, <1>4 DEF Moves

LEMMA CompleteAsyncMoves ==
  ASSUME TInv, NEW r \in asyncJob, CompleteAsync(r)
  PROVE  TInv' /\ Moves
<1>1. TInv /\ op = Idle /\ r \in ServiceJob(flow) /\ r.token \in TokenId
      /\ asyncJob' = asyncJob \ {r} /\ deadLetter' = deadLetter /\ db.inst # "None"
  BY DEF TInv, CompleteAsync, May, ServiceJob
<1>2. asyncJob' \subseteq ServiceJob(flow) /\ deadLetter' \subseteq ServiceJob(flow)
  BY <1>1 DEF TInv
<1>3. CASE /\ db.token[r.token].state = "WaitingAsync"
           /\ wk' = PassOn(db, r.token)
           /\ op' = [name |-> "completeAsync", jobs |-> {}, row |-> r]
           /\ UNCHANGED <<flow, db>>
  <2> DEFINE b == PassOn(db, r.token)
  <2>1. Opens(db, b) /\ Good(flow, b)
    BY <1>1, <1>3, AnsweredFine, FineOpens DEF Fine
  <2> HIDE DEF b
  <2>2. /\ op'.name = "completeAsync"
        /\ op' \in [name : CallName \cup {"idle", "batch", "start"},
                    jobs : SUBSET ServiceJob(flow), row : ServiceJob(flow) \cup {NoJob}]
    BY <1>1, <1>3 DEF CallName
  <2>3. wk' = b
    BY <1>3 DEF b
  <2>4. TInv'
    BY <1>1, <1>2, <1>3, <2>1, <2>2, <2>3 DEF TInv
  <2>5. op' # Idle
    BY <2>2 DEF Idle
  <2> QED
    BY <1>1, <1>3, <2>1, <2>3, <2>4, <2>5 DEF Moves
<1>4. CASE UNCHANGED kernel
  BY <1>2, <1>4, TablesMoves
<1> QED
  BY <1>3, <1>4 DEF CompleteAsync

LEMMA FailAsyncMoves ==
  ASSUME TInv, NEW r \in asyncJob, FailAsync(r)
  PROVE  TInv' /\ Moves
<1>1. TInv /\ op = Idle /\ r \in ServiceJob(flow) /\ r.token \in TokenId
      /\ asyncJob' = asyncJob \ {r} /\ deadLetter' = deadLetter \cup {r}
  BY DEF TInv, FailAsync, May, ServiceJob
<1>2. asyncJob' \subseteq ServiceJob(flow) /\ deadLetter' \subseteq ServiceJob(flow)
  BY <1>1 DEF TInv
<1>3. CASE db.token[r.token].state = "WaitingAsync" /\ Save(Halt(db, r.token, "Incident"))
  BY <1>1, <1>2, <1>3, FailAsyncFine, SaveMoves
<1>4. CASE UNCHANGED kernel
  BY <1>2, <1>4, TablesMoves
<1> QED
  BY <1>3, <1>4 DEF FailAsync

LEMMA RetryDeadLetterMoves ==
  ASSUME TInv, NEW r \in deadLetter, RetryDeadLetter(r)
  PROVE  TInv' /\ Moves
<1>1. TInv /\ op = Idle /\ r \in ServiceJob(flow) /\ deadLetter' = deadLetter \ {r}
  BY DEF TInv, RetryDeadLetter, May
<1>2. deadLetter' \subseteq ServiceJob(flow) /\ asyncJob \cup {r} \subseteq ServiceJob(flow)
  BY <1>1 DEF TInv
<1>3. CASE Retryable(r)
  <2>1. Save(Halt(db, r.token, "WaitingAsync")) /\ asyncJob' = asyncJob \cup {r}
    BY <1>3 DEF RetryDeadLetter
  <2> QED
    BY <1>1, <1>2, <1>3, <2>1, RetryDeadLetterFine, SaveMoves
<1>4. CASE ~Retryable(r)
  <2>1. UNCHANGED kernel /\ asyncJob' = asyncJob
    BY <1>4 DEF RetryDeadLetter
  <2> QED
    BY <1>2, <2>1, TablesMoves
<1> QED
  BY <1>3, <1>4

\* A call that begins a run, and one that saves at once.
LEMMA BeginsMoves ==
  ASSUME TInv, op = Idle, UNCHANGED Tables, NEW call \in CallName \cup {"batch", "start"},
         \E a : Begin(call, a) /\ (Opens(db, a) \/ (Fine(db, a) /\ db.inst # "None"))
  PROVE  TInv' /\ Moves
BY BeginMoves, FineOpens

LEMMA SavesMoves ==
  ASSUME TInv, op = Idle, asyncJob' \subseteq asyncJob, deadLetter' = deadLetter,
         \E a : Save(a) /\ (Fine(db, a) \/ Follows(db, a)) /\ Rests(db, a)
  PROVE  TInv' /\ Moves
<1>1. asyncJob' \subseteq ServiceJob(flow) /\ deadLetter' \subseteq ServiceJob(flow)
  BY DEF TInv
<1> QED
  BY <1>1, SaveMoves, FineFollows

LEMMA CallMoves ==
  ASSUME TInv,
         \/ StartProcess
         \/ \E k \in TaskId :
              \/ CompleteTask(k) \/ AddSign(k)
              \/ \E n \in OfKind(flow, "userTask") : RejectTask(k, n)
         \/ \E t \in TokenId, n \in OfKind(flow, "userTask") : JumpTo(t, n)
         \/ \E n \in FirstUserTasks[flow] : WithdrawProcess(n)
         \/ CancelProcess \/ SuspendProcess \/ ResumeProcess \/ RetryIncident
         \/ \E t \in TokenId, n \in OfKind(flow, "messageCatch") : CorrelateMessage(t, n)
         \/ BeginTimers
         \/ \E t \in TokenId : SubflowDone(t)
         \/ \E n \in OfKind(flow, "callActivity") : SubflowIncident(n)
  PROVE  TInv' /\ Moves
<1>1. TInv
  BY DEF TInv
<1>2. CASE StartProcess
  <2>1. op = Idle /\ UNCHANGED Tables /\ "start" \in CallName \cup {"batch", "start"}
    BY <1>2 DEF StartProcess
  <2> QED
    BY <1>1, <1>2, <2>1, StartProcessFine, BeginMoves
<1>3. ASSUME NEW k \in TaskId, CompleteTask(k) PROVE (TInv' /\ Moves)
  <2>1. op = Idle /\ db.inst # "None" /\ UNCHANGED Tables /\ "complete" \in CallName \cup {"batch", "start"}
    BY <1>3 DEF CompleteTask, May, CallName
  <2> QED
    BY <1>1, <1>3, <2>1, CompleteTaskFine, BeginsMoves
<1>4. ASSUME NEW k \in TaskId, AddSign(k) PROVE (TInv' /\ Moves)
  <2>1. op = Idle /\ asyncJob' \subseteq asyncJob /\ deadLetter' = deadLetter
    BY <1>4 DEF AddSign, May, Tables
  <2> QED
    BY <1>1, <1>4, <2>1, AddSignFine, SavesMoves
<1>5. ASSUME NEW k \in TaskId, NEW n \in OfKind(flow, "userTask"), RejectTask(k, n) PROVE (TInv' /\ Moves)
  <2>1. op = Idle /\ db.inst # "None" /\ UNCHANGED Tables /\ "reject" \in CallName \cup {"batch", "start"}
    BY <1>5 DEF RejectTask, May, CallName
  <2> QED
    BY <1>1, <1>5, <2>1, RejectTaskFine, BeginsMoves
<1>6. ASSUME NEW t \in TokenId, NEW n \in OfKind(flow, "userTask"), JumpTo(t, n) PROVE (TInv' /\ Moves)
  <2>1. op = Idle /\ db.inst # "None" /\ UNCHANGED Tables /\ "jump" \in CallName \cup {"batch", "start"}
    BY <1>6 DEF JumpTo, May, CallName
  <2> QED
    BY <1>1, <1>6, <2>1, JumpToFine, BeginsMoves
<1>7. ASSUME NEW n \in FirstUserTasks[flow], WithdrawProcess(n) PROVE (TInv' /\ Moves)
  <2>1. op = Idle /\ asyncJob' \subseteq asyncJob /\ deadLetter' = deadLetter
    BY <1>7 DEF WithdrawProcess, May, Tables
  <2> QED
    BY <1>1, <1>7, <2>1, WithdrawProcessFine, SavesMoves
<1>8. CASE CancelProcess
  <2>1. op = Idle /\ asyncJob' \subseteq asyncJob /\ deadLetter' = deadLetter
    BY <1>8 DEF CancelProcess, May
  <2>2. CASE UNCHANGED kernel
    <3>1. asyncJob' \subseteq ServiceJob(flow) /\ deadLetter' \subseteq ServiceJob(flow)
      BY <1>1, <2>1 DEF TInv
    <3> QED
      BY <2>2, <3>1, TablesMoves
  <2>3. CASE ~UNCHANGED kernel
    BY <1>1, <1>8, <2>1, <2>3, CancelProcessFine, SavesMoves
  <2> QED
    BY <2>2, <2>3
<1>9. CASE SuspendProcess
  <2>1. op = Idle /\ asyncJob' \subseteq asyncJob /\ deadLetter' = deadLetter
    BY <1>9 DEF SuspendProcess, May, Tables
  <2> QED
    BY <1>1, <1>9, <2>1, SuspendProcessFine, SavesMoves
<1>10. CASE ResumeProcess
  <2>1. op = Idle /\ db.inst # "None" /\ UNCHANGED Tables /\ "resume" \in CallName \cup {"batch", "start"}
    BY <1>10 DEF ResumeProcess, May, CallName
  <2> QED
    BY <1>1, <1>10, <2>1, ResumeProcessFine, BeginsMoves
<1>11. CASE RetryIncident
  <2>1. op = Idle /\ db.inst # "None" /\ UNCHANGED Tables /\ "retryIncident" \in CallName \cup {"batch", "start"}
    BY <1>11 DEF RetryIncident, May, CallName
  <2> QED
    BY <1>1, <1>11, <2>1, RetryIncidentFine, BeginsMoves
<1>12. ASSUME NEW t \in TokenId, NEW n \in OfKind(flow, "messageCatch"), CorrelateMessage(t, n)
       PROVE  TInv' /\ Moves
  <2>1. op = Idle /\ db.inst # "None" /\ UNCHANGED Tables /\ "correlate" \in CallName \cup {"batch", "start"}
    BY <1>12 DEF CorrelateMessage, May, CallName
  <2> QED
    BY <1>1, <1>12, <2>1, CorrelateMessageFine, BeginsMoves
<1>13. CASE BeginTimers
  <2>1. op = Idle /\ db.inst # "None" /\ UNCHANGED Tables /\ Begin("batch", db)
        /\ "batch" \in CallName \cup {"batch", "start"}
    BY <1>13 DEF BeginTimers, May
  <2>2. Opens(db, db)
    BY <1>1, <2>1 DEF Opens, Follows, TInv, Ready, Trace
  <2> QED
    BY <2>1, <2>2, BeginsMoves
<1>14. ASSUME NEW t \in TokenId, SubflowDone(t) PROVE (TInv' /\ Moves)
  <2>1. op = Idle /\ db.inst # "None" /\ UNCHANGED Tables /\ "subflow" \in CallName \cup {"batch", "start"}
        /\ Begin("subflow", PassOn(db, t)) /\ db.token[t].state = "WaitingSubflow"
    BY <1>14 DEF SubflowDone, May, CallName
  <2>2. Fine(db, PassOn(db, t))
    BY <1>1, <2>1, AnsweredFine
  <2> QED
    BY <2>1, <2>2, BeginsMoves
<1>15. ASSUME NEW n, SubflowIncident(n) PROVE (TInv' /\ Moves)
  <2>1. op = Idle /\ asyncJob' \subseteq asyncJob /\ deadLetter' = deadLetter
    BY <1>15 DEF SubflowIncident, May, Tables
  <2> QED
    BY <1>1, <1>15, <2>1, SubflowIncidentFine, SavesMoves
<1> QED
  BY <1>2, <1>3, <1>4, <1>5, <1>6, <1>7, <1>8, <1>9, <1>10, <1>11, <1>12, <1>13, <1>14, <1>15

LEMMA FireTimerMoves ==
  ASSUME TInv, NEW j \in wk.timer, FireTimer(j)
  PROVE  TInv' /\ Moves
<1>1. op.name # "idle" /\ UNCHANGED <<flow, db, op>> /\ UNCHANGED Tables
  BY DEF FireTimer, Set
<1>2. Fine(wk, wk')
  BY FireTimerFine DEF TInv
<1> QED
  BY <1>1, <1>2, SetMoves

LEMMA RunTimersMoves ==
  ASSUME TInv, RunTimers
  PROVE  TInv' /\ Moves
<1>1. /\ op' = [op EXCEPT !.name = "timers"] /\ UNCHANGED <<flow, db, wk, asyncJob, deadLetter>>
      /\ TInv
  BY DEF RunTimers, TInv
<1>2. /\ op'.name = "timers"
      /\ op' \in [name : CallName \cup {"idle", "batch", "start"},
                  jobs : SUBSET ServiceJob(flow), row : ServiceJob(flow) \cup {NoJob}]
  BY <1>1 DEF TInv, CallName
<1>3. TInv'
  BY <1>1, <1>2 DEF TInv
<1>4. op # Idle /\ op' # Idle
  BY <1>2 DEF RunTimers, Idle
<1> QED
  BY <1>1, <1>3, <1>4 DEF Moves

LEMMA NextMoves ==
  ASSUME TInv, [Next]_vars
  PROVE  TInv' /\ Moves
<1>1. CASE UNCHANGED vars
  <2>1. asyncJob' \subseteq ServiceJob(flow) /\ deadLetter' \subseteq ServiceJob(flow)
    BY <1>1 DEF TInv, vars
  <2> QED
    BY <1>1, <2>1, TablesMoves DEF vars, kernel
<1>2. CASE Next
  BY <1>2, CallMoves, RunMoves, RunExpandMoves, CommitMoves, DiscardMoves, CompleteAsyncMoves,
     FailAsyncMoves, RetryDeadLetterMoves, FireTimerMoves, RunTimersMoves DEF Next
<1> QED
  BY <1>1, <1>2

\* What the calls keep of an instance of a careful definition.
KInv ==
  /\ Careful(flow) => Kept(flow, db) /\ Kept(flow, wk)
  /\ Careful(flow) /\ DOMAIN Def[flow].mi = {} => Over(flow, db) /\ Over(flow, wk)

LEMMA KeepsKInv ==
  ASSUME TInv, KInv, Moves
  PROVE  KInv'
<1>1. ASSUME flow' = flow, db' = db, Follows(wk, wk') \/ Follows(db, wk') PROVE KInv'
  BY <1>1 DEF KInv, Follows
<1>2. ASSUME flow' = flow, db' = wk', Follows(db, wk') PROVE KInv'
  BY <1>2 DEF KInv, Follows
<1>3. ASSUME flow' = flow, db' = db, wk' = wk \/ wk' = db PROVE KInv'
  BY <1>3 DEF KInv
<1>4. ASSUME flow' = flow, db' = Concluded(wk), wk' = Concluded(wk) PROVE KInv'
  <2>1. flow \in Flow /\ Good(flow, wk)
    BY DEF TInv
  <2>2. DOMAIN Def[flow].mi = {} => wk.scope = {}
    BY <2>1, NoScopesLeft
  <2> QED
    BY <1>4, <2>1, <2>2, ConcludedIs DEF KInv
<1> QED
  BY <1>1, <1>2, <1>3, <1>4, FineFollows DEF Moves, Opens

\* An instance goes on as long as it is not over.
NInv == Lively(db) /\ (op # Idle => Trace(wk))

LEMMA KeepsNInv ==
  ASSUME TInv, NInv, Moves
  PROVE  NInv'
<1>1. CASE op # Idle /\ op' # Idle /\ db' = db /\ Fine(wk, wk')
  BY <1>1 DEF NInv, Fine, Accounts
<1>2. CASE op = Idle /\ op' # Idle /\ db' = db /\ Opens(db, wk')
  BY <1>2 DEF NInv, Opens, Lively
<1>3. CASE op' = Idle /\ db' = wk' /\ Rests(db, wk')
  BY <1>3 DEF NInv, Rests
<1>4. CASE (op = Idle <=> op' = Idle) /\ db' = db /\ wk' = wk
  BY <1>4 DEF NInv
<1>5. CASE Settled /\ op # Idle /\ op' = Idle /\ db' = Concluded(wk)
  <2> DEFINE b == Concluded(wk)
  <2>1. flow \in Flow /\ Good(flow, wk)
    BY DEF TInv
  <2>2. \A s \in wk.scope : ~(s.next < s.due)
    BY <1>5 DEF Settled, Expanding
  <2>3. Noted(wk)
    BY <1>5, <2>2 DEF NInv, Trace
  <2>4. b.token = wk.token /\ (Alive(wk) = {} /\ Noted(wk) => b.inst = "Completed")
    BY <2>1, ConcludedIs
  <2> HIDE DEF b
  <2>5. Lively(b)
    BY <2>3, <2>4 DEF Lively, Noted, Alive, Tokens
  <2> QED
    BY <1>5, <2>5 DEF NInv, b
<1>6. CASE op' = Idle /\ db' = db
  BY <1>6 DEF NInv
<1> QED
  BY <1>1, <1>2, <1>3, <1>4, <1>5, <1>6 DEF Moves

\* The whole of it.
EInv == TInv /\ KInv /\ NInv

LEMMA InitEInv == Init => EInv
<1> SUFFICES ASSUME Init PROVE EInv
  OBVIOUS
<1>1. db = Absent /\ wk = Absent /\ flow \in Flow /\ op = Idle
  BY DEF Init
<1>2. Kept(flow, Absent) /\ Over(flow, Absent)
  BY <1>1, AbsentGood, CleanBare, KeptBare DEF Over
<1>3. Lively(Absent)
  BY DEF Lively, Absent
<1> QED
  BY <1>1, <1>2, <1>3, InitTypes DEF EInv, KInv, NInv

LEMMA NextEInv == EInv /\ [Next]_vars => EInv' /\ Moves
BY NextMoves, KeepsKInv, KeepsNInv DEF EInv

LEMMA EngineInvariant == Spec => []EInv
BY InitEInv, NextEInv, PTL DEF Spec

-----------------------------------------------------------------------------
(* What the invariant gives. *)

\* Of every definition and under all calls, the stored aggregate, the copy a
\* call works on and the job tables are of their types.
THEOREM EngineTypes == Spec => []TypeOK
<1>1. EInv => TypeOK
  BY DEF EInv, TInv, Good, TypeOK, ServiceJob, Job, OfKind
<1> QED
  BY <1>1, EngineInvariant, PTL

LEMMA KeptNow ==
  ASSUME EInv, Careful(flow)
  PROVE  flow \in Flow /\ Good(flow, db) /\ Kept(flow, db)
BY DEF EInv, TInv, KInv

LEMMA TaskTokensNow ==
  ASSUME EInv, Careful(flow)
  PROVE  TaskTokens
<1>1. Good(flow, db) /\ Held(db)
  BY KeptNow DEF Kept
<1>2. \A k \in Open(db) : k \in LiveTasks(db)
  BY DEF Open, LiveTasks
<1>3. ASSUME NEW t \in Tokens(db, {"Waiting"})
      PROVE  Cardinality({k \in Open(db) : db.task[k].token = t}) = 1
  <2>1. PICK k \in Open(db) : db.task[k].token = t
    BY <1>1 DEF Held
  <2>2. {l \in Open(db) : db.task[l].token = t} = {k}
    BY <1>1, <2>1 DEF Held
  <2> QED
    BY <2>2, FS_Singleton
<1> QED
  BY <1>1, <1>2, <1>3 DEF TaskTokens, Held

\* A task a person can act on has its token waiting at its node, and a token
\* that waits at a user task has exactly one such task: after every sequence of
\* calls, timers, messages, jobs and failed runs, for any definition.
THEOREM TasksHoldTokens == Spec => [](Careful(flow) => TaskTokens)
<1>1. EInv => (Careful(flow) => TaskTokens)
  BY TaskTokensNow
<1> QED
  BY <1>1, EngineInvariant, PTL

\* add_sign: whatever happens, the task that was suspended has the temporary
\* task whose completion opens it again.
THEOREM ParentsReturn == Spec => [](Careful(flow) => SuspendedHasChild)
<1>1. EInv => (Careful(flow) => SuspendedHasChild)
  BY KeptNow DEF Kept, Chained, ParentOf, SuspendedHasChild
<1> QED
  BY <1>1, EngineInvariant, PTL

\* Where withdraw may land (it arms no timer), no boundary timer takes a task
\* away.
NoneMissed(f) == "withdraw" \in Calls[f] => Def[f].cancel \subseteq Def[f].fragile

LEMMA TimersMatchNow ==
  ASSUME EInv, Careful(flow), NoneMissed(flow)
  PROVE  TimersMatch
<1>1. Good(flow, db) /\ Clocked(flow, db) /\ Escalates(flow, db)
  BY KeptNow DEF Kept, NoneMissed
<1>2. \A j \in db.timer : Hosted(j)
  BY <1>1 DEF Clocked, HostedIn, Hosted
<1>3. ASSUME NEW t \in Tokens(db, {"WaitingTimer"})
      PROVE  \E j \in db.timer : j.token = t /\ j.node = db.token[t].node
  <2>1. KindOf(flow, db.token[t].node) = "timerCatch"
    BY <1>1, GoodIs DEF Placed, RestsAt, Lives, Tokens
  <2> QED
    BY <1>1, <2>1 DEF Clocked, MustArm, ArmedAt, Tokens
<1>4. ASSUME NEW t \in Tokens(db, {"WaitingEventGateway"}),
             NEW c \in Targets(flow, db.token[t].node) \cap OfKind(flow, "timerCatch")
      PROVE  \E j \in db.timer : j.token = t /\ j.node = c
  <2>1. KindOf(flow, db.token[t].node) = "eventGateway"
    BY <1>1, GoodIs DEF Placed, RestsAt, Lives, Tokens
  <2> QED
    BY <1>1, <2>1 DEF Clocked, MustArm, ArmedAt, Tokens
<1>5. \A t \in Tokens(db, {"Waiting"}) :
        LET n == db.token[t].node
        IN  n \notin DOMAIN Def[flow].mi =>
              \A b \in BoundaryTimersOn(flow, n) \cap (Def[flow].cancel \ Def[flow].fragile) :
                \E j \in db.timer : j.token = t /\ j.node = b
  BY <1>1 DEF Escalates, ArmedAt
<1> QED
  BY <1>2, <1>3, <1>4, <1>5 DEF TimersMatch

\* No timer outlives the wait it was armed for, and nobody waits for a timer
\* that is not armed: a timer that fires later never moves a token that has
\* gone on.
THEOREM TimersAreAwaited == Spec => [](Careful(flow) /\ NoneMissed(flow) => TimersMatch)
<1>1. EInv => (Careful(flow) /\ NoneMissed(flow) => TimersMatch)
  BY TimersMatchNow
<1> QED
  BY <1>1, EngineInvariant, PTL

\* No dead letter is put back, and no scope is opened: at which nodes a scope
\* that is left open would be is a matter of the graph.
EndsForGood(f) == "retryDeadLetter" \notin Calls[f] /\ DOMAIN Def[f].mi = {}

\* Once an instance is over, by its last token, a terminate end event or
\* cancel_process, no task is open, no token alive and no timer armed.
THEOREM NothingLeft ==
  Spec => [](Careful(flow) /\ EndsForGood(flow) => TerminalClean)
<1>1. EInv => (Careful(flow) /\ EndsForGood(flow) => TerminalClean)
  BY DEF EInv, KInv, Over, Clean, TerminalClean, EndsForGood
<1> QED
  BY <1>1, EngineInvariant, PTL

-----------------------------------------------------------------------------
(* An instance always has something to go on with. *)

\* A stored instance that is not over has a token that is alive: no sequence
\* of calls, no timer and no job that comes late ends the last token of an
\* instance and leaves it open, for any definition, careful or not.
THEOREM NeverEmpty ==
  Spec => [](db.inst \in {"Active", "Suspended"} => Alive(db) # {})
<1>1. EInv => (db.inst \in {"Active", "Suspended"} => Alive(db) # {})
  BY DEF EInv, NInv, Lively
<1> QED
  BY <1>1, EngineInvariant, PTL

\* No gateway waits for a second token.
Joinless(f) ==
  \A n \in OfKind(f, "parallel") \cup OfKind(f, "inclusive") : ~(InDegree(f, n) > 1)

\* Without joins an instance is never stuck: something outside can move one of
\* its tokens.  With them it may be (NotStuck).
THEOREM MovesWithoutJoins == Spec => [](Joinless(flow) => NotStuck)
<1>1. ASSUME EInv, Joinless(flow), db.inst \in {"Active", "Suspended"}
      PROVE  Alive(db) \ Tokens(db, {"Joining"}) # {}
  <2>1. PICK t \in Alive(db) : TRUE
    BY <1>1 DEF EInv, NInv, Lively
  <2>2. t \in TokenId /\ Lives(db.token[t])
    BY <2>1 DEF Alive, Tokens, Lives, WaitState
  <2>3. db.token[t].node \in Node(flow) /\ RestsAt(flow, db.token[t].state, db.token[t].node)
    BY <1>1, <2>2, GoodIs DEF EInv, TInv, Placed
  <2>4. db.token[t].node \in OfKind(flow, "parallel") \cup OfKind(flow, "inclusive")
          => ~(InDegree(flow, db.token[t].node) > 1)
    BY <1>1 DEF Joinless
  <2>5. db.token[t].state # "Joining"
    BY <2>3, <2>4 DEF RestsAt, OfKind
  <2> QED
    BY <2>1, <2>5 DEF Tokens
<1>2. EInv => (Joinless(flow) => NotStuck)
  BY <1>1 DEF NotStuck
<1> QED
  BY <1>2, EngineInvariant, PTL

-----------------------------------------------------------------------------
(* Multi-instance scopes. *)

\* Whenever a token comes to a multi-instance node, no scope is open there and
\* no other token waits there.  Whether a definition sees to that is a matter
\* of its graph; all those the runs check do.
ArrivesAlone == Alone(flow, wk)

\* What the calls keep of the scopes.
SInv ==
  /\ Counted(db) /\ Counted(wk) /\ Full(db)
  /\ Over(flow, db) /\ Over(flow, wk)

LEMMA KeepsSInv ==
  ASSUME TInv, KInv, SInv, Careful(flow), ArrivesAlone, Moves
  PROVE  SInv'
<1>1. /\ flow \in Flow /\ Good(flow, wk) /\ Kept(flow, wk) /\ Kept(flow, db) /\ flow' = flow
      /\ Good(flow, db) /\ (op = Idle => wk = db)
  BY IdleIs DEF TInv, KInv, Moves
<1>2. CASE op # Idle /\ op' # Idle /\ db' = db /\ Fine(wk, wk')
  <2>1. Ready(wk)
    BY <1>1, <1>2 DEF Ready, SInv, ArrivesAlone
  <2>2. Counted(wk') /\ Over(flow, wk')
    BY <1>1, <1>2, <2>1, FineFollows DEF Follows, SInv
  <2> QED
    BY <1>1, <1>2, <2>2 DEF SInv
<1>3. ASSUME op = Idle, Follows(db, wk')
      PROVE  Counted(wk') /\ Over(flow, wk')
  <2>1. Ready(db)
    BY <1>1, <1>3 DEF Ready, SInv, ArrivesAlone
  <2> QED
    BY <1>1, <1>3, <2>1 DEF Follows, SInv
<1>4. CASE op = Idle /\ db' = db /\ Opens(db, wk')
  BY <1>1, <1>3, <1>4 DEF Opens, SInv
<1>5. CASE op = Idle /\ db' = wk' /\ Follows(db, wk') /\ Rests(db, wk')
  BY <1>1, <1>3, <1>5 DEF Rests, SInv
<1>6. CASE db' = db /\ (wk' = wk \/ wk' = db)
  BY <1>1, <1>6 DEF SInv
<1>7. CASE Settled /\ db' = Concluded(wk) /\ wk' = Concluded(wk)
  <2> DEFINE b == Concluded(wk)
  <2>1. Full(wk)
    <3> SUFFICES ASSUME NEW s \in wk.scope PROVE s.next = s.due
      BY DEF Full
    <3>1. s.next \in Nat /\ s.due \in Nat
      BY <1>1, GoodIs, AggregateIs DEF Scope
    <3>2. s.next <= s.due /\ ~(s.next < s.due)
      BY <1>7 DEF SInv, Counted, Settled, Expanding
    <3> QED
      BY <3>1, <3>2
  <2>2. Alive(wk) = {} => wk.scope = {}
    BY <1>1, <2>1, NoScopeOpen DEF SInv
  <2>3. b.token = wk.token /\ b.scope = wk.scope /\ Over(flow, b)
    BY <1>1, <2>2, ConcludedIs DEF SInv
  <2> HIDE DEF b
  <2>4. Counted(b) /\ Full(b)
    BY <2>1, <2>3 DEF SInv, Counted, Full, Seats, SeatedAt
  <2> QED
    BY <1>1, <1>7, <2>3, <2>4 DEF SInv, b
<1> QED
  BY <1>2, <1>4, <1>5, <1>6, <1>7 DEF Moves

LEMMA InitSInv == Init => SInv
<1> SUFFICES ASSUME Init PROVE SInv
  OBVIOUS
<1>1. db = Absent /\ wk = Absent
  BY DEF Init
<1>2. Absent.scope = {} /\ ~Terminal(Absent)
  BY DEF Absent, Terminal
<1> QED
  BY <1>1, <1>2, NoScopes DEF SInv, Over

LEMMA ScopeInvariant == Spec /\ [](Careful(flow) /\ ArrivesAlone) => []SInv
<1>1. EInv /\ SInv /\ Careful(flow) /\ ArrivesAlone /\ [Next]_vars => SInv'
  BY NextEInv, KeepsSInv DEF EInv
<1> QED
  BY <1>1, InitSInv, EngineInvariant, PTL DEF Spec

\* An open scope accounts for its sub-instances: those expanded and not yet
\* completed are the tokens waiting at its node, there is at least one, and
\* never are more of them begun than there are elements.
THEOREM ScopesCount == Spec /\ [](Careful(flow) /\ ArrivesAlone) => []ScopeCounts
<1>1. ASSUME EInv, SInv PROVE ScopeCounts
  <2> SUFFICES ASSUME NEW s \in db.scope
               PROVE  /\ s.completed < s.total /\ s.next <= s.total
                      /\ Cardinality({t \in Tokens(db, {"Waiting"}) : db.token[t].node = s.node})
                           = s.next - s.completed
                      /\ s.next > s.completed
    BY DEF ScopeCounts
  <2>1. Good(flow, db) /\ Counted(db) /\ Full(db)
    BY <1>1 DEF EInv, TInv, SInv
  <2>2. {t \in Tokens(db, {"Waiting"}) : db.token[t].node = s.node} = Seats(db, s.node)
    BY DEF Tokens, Seats, SeatedAt
  <2>3. s.next <= s.total /\ s.next > s.completed
    BY <2>1, SeatsLeft
  <2> QED
    BY <2>1, <2>2, <2>3 DEF Counted
<1> QED
  BY <1>1, EngineInvariant, ScopeInvariant, PTL

\* With multi-instance nodes, too, nothing is left once an instance is over.
THEOREM NoScopeLeft ==
  Spec /\ [](Careful(flow) /\ ArrivesAlone)
    => []("retryDeadLetter" \notin Calls[flow] => TerminalClean)
<1>1. SInv => ("retryDeadLetter" \notin Calls[flow] => TerminalClean)
  BY DEF SInv, Over, Clean, TerminalClean
<1> QED
  BY <1>1, ScopeInvariant, PTL

-----------------------------------------------------------------------------
(* Parallel joins. *)

\* The gateways that wait for a token over each flow that ends at them.
Joins(f) == {n \in OfKind(f, "parallel") : InDegree(f, n) > 1}

\* The flows that end at a node, and the nodes they come from.
LEMMA FlowsIn ==
  ASSUME NEW f \in Flow, NEW n \in Node(f)
  PROVE  /\ IsFiniteSet(Predecessors(f, n)) /\ InDegree(f, n) \in Nat
         /\ Cardinality(Predecessors(f, n)) <= InDegree(f, n)
<1> DEFINE from(m) == {<<m, i>> : i \in {j \in DOMAIN Out(f, m) : Out(f, m)[j] = n}}
           family == {from(m) : m \in Node(f)}
           flows == UNION family
<1>1. \A m \in Node(f) : IsFiniteSet(from(m))
  <2> SUFFICES ASSUME NEW m \in Node(f) PROVE IsFiniteSet(from(m))
    OBVIOUS
  <2> DEFINE places == {j \in DOMAIN Out(f, m) : Out(f, m)[j] = n}
             g == [i \in places |-> <<m, i>>]
  <2>1. Out(f, m) \in Seq(Node(f))
    BY GraphIs
  <2>2. places \in SUBSET (1 .. Len(Out(f, m))) /\ Len(Out(f, m)) \in Nat
    BY <2>1
  <2>3. IsFiniteSet(1 .. Len(Out(f, m)))
    BY <2>2, FS_Interval
  <2>4. IsFiniteSet(places)
    BY <2>2, <2>3, FS_Subset
  <2>5. from(m) = {g[i] : i \in places}
    OBVIOUS
  <2>6. g \in Surjection(places, from(m))
    BY <2>5 DEF Surjection
  <2> HIDE DEF g, places, from
  <2> QED
    BY <2>4, <2>6, FS_Surjection
<1>2. IsFiniteSet(family)
  <2> DEFINE g == [m \in Node(f) |-> from(m)]
  <2>1. g \in Surjection(Node(f), family)
    <3> HIDE DEF from
    <3> QED
      BY DEF Surjection
  <2> HIDE DEF g, family
  <2> QED
    BY <2>1, FS_Surjection, NodesAssumption
<1>3. IsFiniteSet(flows)
  <2>1. \A S \in family : IsFiniteSet(S)
    BY <1>1
  <2> HIDE DEF family
  <2> QED
    BY <1>2, <2>1, FS_UNION
<1>4. InDegree(f, n) = Cardinality(flows)
  BY DEF InDegree
<1> DEFINE g == [p \in flows |-> p[1]]
<1>5. g \in Surjection(flows, Predecessors(f, n))
  <2>1. ASSUME NEW p \in flows
        PROVE  g[p] \in Predecessors(f, n)
    <3>1. PICK m \in Node(f) : p \in from(m)
      OBVIOUS
    <3>2. PICK i \in DOMAIN Out(f, m) : Out(f, m)[i] = n /\ p = <<m, i>>
      BY <3>1
    <3>3. n \in Targets(f, m)
      BY <3>2 DEF Targets, Range
    <3> QED
      BY <3>2, <3>3 DEF Predecessors
  <2>2. ASSUME NEW m \in Predecessors(f, n)
        PROVE  \E p \in flows : g[p] = m
    <3>1. m \in Node(f) /\ n \in Targets(f, m)
      BY DEF Predecessors
    <3>2. PICK i \in DOMAIN Out(f, m) : Out(f, m)[i] = n
      BY <3>1 DEF Targets, Range
    <3>3. <<m, i>> \in from(m)
      BY <3>2
    <3>4. <<m, i>> \in flows
      BY <3>1, <3>3
    <3> QED
      BY <3>4
  <2>3. g \in [flows -> Predecessors(f, n)]
    BY <2>1
  <2> HIDE DEF g, flows
  <2> QED
    BY <2>2, <2>3 DEF Surjection
<1> HIDE DEF g, flows
<1> QED
  BY <1>3, <1>4, <1>5, FS_Surjection, FS_CardinalityType

\* As many tokens as a join has flows, no two over the same one: they came
\* over every one of them.
LEMMA EachFlow ==
  ASSUME NEW f \in Flow, NEW n \in Node(f), NEW S, Cardinality(S) >= InDegree(f, n),
         NEW from \in [S -> Predecessors(f, n)],
         \A u, v \in S : from[u] = from[v] => u = v
  PROVE  Predecessors(f, n) \subseteq {from[u] : u \in S}
<1> DEFINE before == Predecessors(f, n)
<1>1. /\ IsFiniteSet(before) /\ InDegree(f, n) \in Nat
      /\ Cardinality(before) <= InDegree(f, n)
  BY FlowsIn
<1> HIDE DEF before
<1>2. from \in Injection(S, before)
  BY DEF Injection, IsInjective, before
<1>3. /\ IsFiniteSet(S) /\ Cardinality(S) <= Cardinality(before)
      /\ Cardinality(S) = Cardinality(before) <=> from \in Surjection(S, before)
  BY <1>1, <1>2, FS_Injection
<1>4. Cardinality(S) \in Nat /\ Cardinality(before) \in Nat
  BY <1>1, <1>3, FS_CardinalityType
<1>5. Cardinality(S) = Cardinality(before)
  BY <1>1, <1>3, <1>4
<1>6. from \in Surjection(S, before)
  BY <1>3, <1>5
<1> QED
  BY <1>6 DEF Surjection, before

\* Token x is at a join: it has just come, or is parked there.
AtJoin(f, x) == x.state \in {"Active", "Joining"} /\ x.node \in Joins(f)

\* At a join, x came over one of its flows.
CameIn(f, x) == x.node \in Joins(f) => x.via \in Predecessors(f, x.node)
AllCame(f, a) == \A t \in TokenId : CameIn(f, a.token[t])

Stays(x, y) == y.node = x.node /\ y.via = x.via

\* From a to b each token stays or comes somewhere over a flow, and if it left
\* a join, it left one of those that are open.
Walks(f, a, b, open) ==
  \A u \in TokenId :
    \/ Stays(a.token[u], b.token[u])
    \/ /\ CameIn(f, b.token[u])
       /\ AtJoin(f, a.token[u]) /\ b.token[u].via = a.token[u].node => a.token[u].node \in open

\* A token comes to a join over a flow of the join and no other way: none
\* starts there, comes from the join itself, or comes from an event that was
\* taken in passing, of which only what stands before it is known.
Direct(f) ==
  /\ Def[f].start \notin Joins(f)
  /\ \A n \in Joins(f) : n \notin Predecessors(f, n)
  /\ \A e \in OfKind(f, "boundaryError") \cup OfKind(f, "errorStart") : FirstOut(f, e) \notin Joins(f)
  /\ \A g \in OfKind(f, "eventGateway") : \A c \in Targets(f, g) :
       Out(f, c) # <<>> => FirstOut(f, c) \notin Joins(f)

LEMMA WalksCame ==
  ASSUME NEW f, NEW a, NEW b, NEW open, AllCame(f, a), Walks(f, a, b, open)
  PROVE  AllCame(f, b)
BY DEF AllCame, Walks, Stays, CameIn

LEMMA OtherKind ==
  ASSUME NEW f, NEW n, KindOf(f, n) # "parallel"
  PROVE  n \notin Joins(f)
BY DEF Joins, OfKind

\* The first way out of a node comes from there.
LEMMA FirstWay ==
  ASSUME NEW f \in Flow, NEW n \in Node(f),
         \/ Out(f, n) # <<>>
         \/ KindOf(f, n) \notin {"end", "terminateEnd", "eventSubProcess", "subProcess"}
  PROVE  n \in Predecessors(f, FirstOut(f, n)) /\ Out(f, n) # <<>>
<1> DEFINE kind == KindOf(f, n)
           degree == Len(Out(f, n))
<1>1. kind \in Kind /\ degree \in Nat /\ OutDegreeOk(kind, degree) /\ Out(f, n) \in Seq(Node(f))
  BY GraphIs
<1>2. ASSUME kind \notin {"end", "terminateEnd", "eventSubProcess", "subProcess"}
      PROVE  degree > 0
  <2> HIDE DEF kind, degree
  <2>1. CASE kind \in {"exclusive", "parallel", "inclusive"}
    BY <1>1, <2>1 DEF OutDegreeOk
  <2>2. CASE kind = "eventGateway"
    BY <1>1, <2>2 DEF OutDegreeOk
  <2>3. CASE kind \notin {"exclusive", "parallel", "inclusive", "eventGateway"}
    BY <1>1, <1>2, <2>3 DEF OutDegreeOk
  <2> QED
    BY <2>1, <2>2, <2>3
<1>3. degree > 0
  BY <1>1, <1>2
<1>4. 1 \in DOMAIN Out(f, n) /\ Out(f, n) # <<>>
  BY <1>1, <1>3
<1> QED
  BY <1>4 DEF Predecessors, Targets, Range, FirstOut

\* A token that changes its state stays.
LEMMA HaltWalks ==
  ASSUME NEW f, NEW a \in Aggregate(f), NEW t \in TokenId, NEW state
  PROVE  Walks(f, a, Halt(a, t, state), {})
<1> DEFINE x == [state |-> state, node |-> a.token[t].node, via |-> a.token[t].via]
<1>1. a.token \in [TokenId -> Token(f)] /\ Halt(a, t, state).token = [a.token EXCEPT ![t] = x]
  BY HaltIs, AggregateIs
<1>2. Stays(a.token[t], x)
  BY DEF Stays
<1> HIDE DEF x
<1> QED
  BY <1>1, <1>2 DEF Walks, Stays

\* A token is put down at n.
LEMMA PlaceWalks ==
  ASSUME NEW f, NEW a \in Aggregate(f), NEW t \in TokenId, NEW n, NEW open,
         n \in Joins(f) => a.token[t].node \in Predecessors(f, n),
         AtJoin(f, a.token[t]) => a.token[t].node \in open
  PROVE  Walks(f, a, Place(a, t, n), open)
<1> DEFINE x == [state |-> "Active", node |-> n, via |-> a.token[t].node]
<1>1. a.token \in [TokenId -> Token(f)] /\ Place(a, t, n).token = [a.token EXCEPT ![t] = x]
  BY PlaceIs, AggregateIs
<1>2. CameIn(f, x)
  BY DEF CameIn
<1> HIDE DEF x
<1> QED
  BY <1>1, <1>2 DEF Walks, Stays

\* Tokens that are removed are nowhere.
LEMMA GoneNowhere ==
  ASSUME NEW f \in Flow
  PROVE  CameIn(f, GoneToken) /\ \A x : AtJoin(f, x) => GoneToken.via # x.node
BY NodesAssumption DEF CameIn, AtJoin, GoneToken, Joins, OfKind

LEMMA DropTokensWalks ==
  ASSUME NEW f \in Flow, NEW a \in Aggregate(f), NEW gone
  PROVE  Walks(f, a, DropTokens(a, gone), {})
<1> DEFINE b == DropTokens(a, gone)
<1>1. b.token = [u \in TokenId |-> IF u \in gone THEN GoneToken ELSE a.token[u]]
  BY DropTokensIs
<1> HIDE DEF b
<1>2. \A u \in TokenId : b.token[u] = IF u \in gone THEN GoneToken ELSE a.token[u]
  BY <1>1
<1>3. Walks(f, a, b, {})
  BY <1>2, GoneNowhere DEF Walks, Stays
<1> QED
  BY <1>3 DEF b

LEMMA EndAllWalks ==
  ASSUME NEW f, NEW a \in Aggregate(f)
  PROVE  Walks(f, a, EndAll(a), {})
<1> DEFINE x(t) == [state |-> "Ended", node |-> a.token[t].node, via |-> a.token[t].via]
           b == EndAll(a)
<1>1. b.token = [u \in TokenId |-> IF u \in Alive(a) THEN x(u) ELSE a.token[u]]
  BY EndAllIs
<1>2. \A u \in TokenId : Stays(a.token[u], x(u)) /\ Stays(a.token[u], a.token[u])
  BY DEF Stays
<1> HIDE DEF x, b
<1>3. \A u \in TokenId : b.token[u] = IF u \in Alive(a) THEN x(u) ELSE a.token[u]
  BY <1>1
<1>4. Walks(f, a, b, {})
  BY <1>2, <1>3 DEF Walks
<1> QED
  BY <1>4 DEF b

\* Each token stays or comes somewhere over a flow.
Comes(f, a, b) ==
  \A u \in TokenId : Stays(a.token[u], b.token[u]) \/ CameIn(f, b.token[u])

LEMMA ComesCame ==
  ASSUME NEW f, NEW a, NEW b, AllCame(f, a), Comes(f, a, b)
  PROVE  AllCame(f, b)
BY DEF AllCame, Comes, Stays, CameIn

LEMMA ComesTrans ==
  ASSUME NEW f, NEW a, NEW b, NEW c, Comes(f, a, b), Comes(f, b, c)
  PROVE  Comes(f, a, c)
BY DEF Comes, Stays, CameIn

LEMMA SameComes ==
  ASSUME NEW f, NEW a, NEW b, b.token = a.token
  PROVE  Comes(f, a, b)
BY DEF Comes, Stays

LEMMA WalksComes ==
  ASSUME NEW f, NEW a, NEW b, NEW open, Walks(f, a, b, open)
  PROVE  Comes(f, a, b)
BY DEF Walks, Comes

\* One token is replaced.
Put(a, m, x) == [a EXCEPT !.token[m] = x]

LEMMA PutIs ==
  ASSUME NEW f, NEW a, Fields(a), a.token \in [TokenId -> Token(f)], NEW m, NEW x
  PROVE  LET b == Put(a, m, x)
         IN  /\ \A u \in TokenId : b.token[u] = IF u = m THEN x ELSE a.token[u]
             /\ CameIn(f, x) => Comes(f, a, b)
<1> DEFINE tokens == [a.token EXCEPT ![m] = x]
           b == [a EXCEPT !.token = tokens]
<1>2. b.token = tokens
  <2> HIDE DEF tokens
  <2> QED
    BY TokensSet
<1> HIDE DEF b
<1>3. \A u \in TokenId : b.token[u] = IF u = m THEN x ELSE a.token[u]
  BY <1>2
<1>4. CameIn(f, x) => Comes(f, a, b)
  BY <1>3 DEF Comes, Stays
<1> QED
  BY <1>3, <1>4 DEF b, Put

LEMMA PlaceComes ==
  ASSUME NEW f, NEW a \in Aggregate(f), NEW t \in TokenId, NEW n,
         n \in Joins(f) => a.token[t].node \in Predecessors(f, n)
  PROVE  Comes(f, a, Place(a, t, n))
<1>1. AtJoin(f, a.token[t]) => a.token[t].node \in Joins(f)
  BY DEF AtJoin
<1> QED
  BY <1>1, PlaceWalks, WalksComes

-----------------------------------------------------------------------------
(* Joins in the steps of a run. *)

\* The tokens that join at n came over every flow that ends there.
Gathered(f, a, b, n) ==
  Predecessors(f, n) \subseteq
    {a.token[u].via : u \in {v \in Tokens(a, {"Joining", "Active"}) :
                               a.token[v].node = n /\ b.token[v] # a.token[v]}}

\* Whoever leaves a join does so for a token over each of its flows.
Turns(f, a, b) ==
  \E open : Walks(f, a, b, open) /\ \A n \in open : Gathered(f, a, b, n)

LEMMA WalksTurns ==
  ASSUME NEW f, NEW a, NEW b, Walks(f, a, b, {})
  PROVE  Turns(f, a, b)
BY DEF Turns

\* Two tokens at one join came over different flows. Whether a second token
\* can come over the same flow before the join has opened depends on the whole
\* graph, and the code does count both (RemindedFlow).
OnePerFlow ==
  \A u, v \in TokenId :
    /\ AtJoin(flow, wk.token[u]) /\ AtJoin(flow, wk.token[v])
    /\ wk.token[u].node = wk.token[v].node /\ wk.token[u].via = wk.token[v].via
    => u = v

LEMMA VisitPlaceTurns ==
  ASSUME TInv, NEW t \in TokenId, NEW kinds, Visit(t, kinds), "parallel" \notin kinds, NEW n,
         n \in Joins(flow) => Here(t) \in Predecessors(flow, n)
  PROVE  Turns(flow, wk, Place(wk, t, n))
<1>1. wk \in Aggregate(flow) /\ Here(t) = wk.token[t].node /\ KindOf(flow, Here(t)) \in kinds
  BY Visited, GoodIs
<1>2. ~AtJoin(flow, wk.token[t])
  BY <1>1, OtherKind DEF AtJoin
<1>3. Walks(flow, wk, Place(wk, t, n), {})
  BY <1>1, <1>2, PlaceWalks
<1> QED
  BY <1>3, WalksTurns

LEMMA PassOnTurns ==
  ASSUME TInv, NEW t \in TokenId, NEW kinds, Visit(t, kinds), "parallel" \notin kinds,
         \/ Out(flow, Here(t)) # <<>>
         \/ kinds \cap {"end", "terminateEnd", "eventSubProcess", "subProcess"} = {}
  PROVE  Turns(flow, wk, PassOn(wk, t))
<1>1. flow \in Flow /\ Here(t) = wk.token[t].node /\ Here(t) \in Node(flow)
      /\ KindOf(flow, Here(t)) \in kinds
  BY Visited
<1>2. Here(t) \in Predecessors(flow, FirstOut(flow, Here(t)))
  BY <1>1, FirstWay
<1> QED
  BY <1>1, <1>2, VisitPlaceTurns DEF PassOn

LEMMA HaltTurns ==
  ASSUME TInv, NEW t \in TokenId, NEW state
  PROVE  Turns(flow, wk, Halt(wk, t, state))
BY HaltWalks, WalksTurns, GoodIs DEF TInv

\* A split, which leaves a join only if that is open.
LEMMA SplitWalks ==
  ASSUME NEW f, NEW a, Good(f, a), NEW t \in TokenId, a.token[t].state # "None",
         NEW targets \in Seq(Node(f)), targets # <<>>, RoomFor(a, Len(targets) - 1),
         \A n \in Range(targets) : a.token[t].node \in Predecessors(f, n),
         NEW open, AtJoin(f, a.token[t]) => a.token[t].node \in open
  PROVE  Walks(f, a, Split(a, t, targets), open)
<1> DEFINE b == Split(a, t, targets)
<1>1. \A u \in TokenId :
        \/ /\ u = t \/ a.token[u].state = "None"
           /\ b.token[u].node \in Range(targets) /\ b.token[u].via = a.token[t].node
        \/ u # t /\ b.token[u] = a.token[u]
  BY SplitIs
<1> HIDE DEF b
<1>2. \A u \in TokenId :
        \/ /\ u = t \/ a.token[u].state = "None"
           /\ CameIn(f, b.token[u])
        \/ b.token[u] = a.token[u]
  BY <1>1 DEF CameIn
<1>3. Walks(f, a, b, open)
  BY <1>2 DEF Walks, Stays, AtJoin
<1> QED
  BY <1>3 DEF b

\* Tokens parked at n join there, and one leaves.
LEMMA MergeIs ==
  ASSUME NEW f, f = flow, NEW a, Good(f, a), NEW n,
         NEW targets \in Seq(Node(f)), targets # <<>>, Merge(a, n, targets)
  PROVE  \E u \in Parked(a, n) : \A v \in TokenId :
           LET x == wk'.token[v]
           IN  \/ v \in Parked(a, n) \ {u} /\ x = GoneToken
               \/ /\ v = u \/ a.token[v].state = "None"
                  /\ x.state = "Active" /\ x.node \in Range(targets) /\ x.via = n
               \/ v \notin Parked(a, n) /\ x = a.token[v]
<1>1. RoomFor(a, Len(targets) - 1)
  BY DEF Merge
<1>2. PICK u \in Parked(a, n) : wk' = Split(DropTokens(a, Parked(a, n) \ {u}), u, targets)
  BY DEF Merge, Set
<1> DEFINE gone == Parked(a, n) \ {u}
           c == DropTokens(a, gone)
<1>3. u \in TokenId /\ a.token[u].state = "Joining" /\ a.token[u].node = n
  BY DEF Parked
<1>4. \A v \in gone : v \in TokenId /\ a.token[v].state = "Joining"
  BY DEF Parked
<1> HIDE DEF gone
<1>5. Good(f, c)
  BY <1>4, DropTokensGood
<1>6. c.token = [v \in TokenId |-> IF v \in gone THEN GoneToken ELSE a.token[v]]
  BY DropTokensIs, GoodIs
<1> HIDE DEF c
<1>7. \A v \in TokenId : c.token[v] = IF v \in gone THEN GoneToken ELSE a.token[v]
  BY <1>6
<1>8. GoneToken.state = "Removed"
  BY DEF GoneToken
<1>9. u \notin gone /\ c.token[u] = a.token[u]
  BY <1>3, <1>7 DEF gone
<1>10. SameNone(a, c)
  BY <1>4, <1>7, <1>8 DEF SameNone
<1>11. RoomFor(c, Len(targets) - 1)
  BY <1>1, <1>10, SameNextToken
<1> DEFINE b == Split(c, u, targets)
<1>12. \A v \in TokenId :
         \/ /\ v = u \/ c.token[v].state = "None"
            /\ b.token[v].state = "Active"
            /\ b.token[v].node \in Range(targets) /\ b.token[v].via = c.token[u].node
         \/ v # u /\ b.token[v] = c.token[v]
  <2> HIDE DEF b
  <2>1. c.token[u].state # "None" /\ u \in TokenId
    BY <1>3, <1>9
  <2> QED
    BY <1>5, <1>11, <2>1, SplitIs DEF b
<1>13. wk' = b
  BY <1>2 DEF c, gone
<1> HIDE DEF b
<1> SUFFICES ASSUME NEW v \in TokenId
             PROVE  \/ v \in Parked(a, n) \ {u} /\ wk'.token[v] = GoneToken
                    \/ /\ v = u \/ a.token[v].state = "None"
                       /\ wk'.token[v].state = "Active"
                       /\ wk'.token[v].node \in Range(targets) /\ wk'.token[v].via = n
                    \/ v \notin Parked(a, n) /\ wk'.token[v] = a.token[v]
  BY <1>2
<1>14. CASE v \in gone
  BY <1>7, <1>8, <1>9, <1>12, <1>13, <1>14 DEF gone
<1>15. CASE v \notin gone
  BY <1>3, <1>7, <1>9, <1>12, <1>13, <1>15 DEF gone
<1> QED
  BY <1>14, <1>15

\* What merges leaves a node that is no join, or one that is open.
LEMMA MergeWalks ==
  ASSUME flow \in Flow, NEW a, Good(flow, a), NEW n,
         NEW targets \in Seq(Node(flow)), targets # <<>>, Merge(a, n, targets),
         \A m \in Range(targets) : n \in Predecessors(flow, m),
         NEW open, n \in Joins(flow) => n \in open
  PROVE  Walks(flow, a, wk', open)
<1>1. PICK u \in Parked(a, n) : \A v \in TokenId :
        \/ v \in Parked(a, n) \ {u} /\ wk'.token[v] = GoneToken
        \/ /\ v = u \/ a.token[v].state = "None"
           /\ wk'.token[v].state = "Active" /\ wk'.token[v].node \in Range(targets)
           /\ wk'.token[v].via = n
        \/ v \notin Parked(a, n) /\ wk'.token[v] = a.token[v]
  BY MergeIs
<1>2. a.token[u].node = n
  BY DEF Parked
<1> SUFFICES ASSUME NEW v \in TokenId
             PROVE  \/ Stays(a.token[v], wk'.token[v])
                    \/ /\ CameIn(flow, wk'.token[v])
                       /\ AtJoin(flow, a.token[v]) /\ wk'.token[v].via = a.token[v].node
                            => a.token[v].node \in open
  BY DEF Walks
<1>3. CASE wk'.token[v] = GoneToken
  BY <1>3, GoneNowhere
<1>4. CASE /\ v = u \/ a.token[v].state = "None"
           /\ wk'.token[v].node \in Range(targets) /\ wk'.token[v].via = n
  BY <1>2, <1>4 DEF CameIn, AtJoin
<1>5. CASE wk'.token[v] = a.token[v]
  BY <1>5 DEF Stays
<1> QED
  BY <1>1, <1>3, <1>4, <1>5

\* Parking at a join changes the state of a token alone.
LEMMA ParkedWalks ==
  ASSUME NEW f, NEW a \in Aggregate(f), NEW t \in TokenId, a.token[t].state = "Active",
         NEW b, NEW open, Walks(f, Halt(a, t, "Joining"), b, open)
  PROVE  Walks(f, a, b, open)
<1> DEFINE joining == "Joining"
           c == Halt(a, t, joining)
           x == [state |-> joining, node |-> a.token[t].node, via |-> a.token[t].via]
<1>1. a.token \in [TokenId -> Token(f)] /\ c.token = [a.token EXCEPT ![t] = x]
  <2> HIDE DEF joining
  <2> QED
    BY HaltIs, AggregateIs
<1>2. AtJoin(f, x) <=> AtJoin(f, a.token[t])
  BY DEF AtJoin
<1>3. x.node = a.token[t].node /\ x.via = a.token[t].via
  OBVIOUS
<1>4. Walks(f, c, b, open)
  OBVIOUS
<1> HIDE DEF c, x
<1>5. \A u \in TokenId : c.token[u] = IF u = t THEN x ELSE a.token[u]
  BY <1>1
<1> QED
  BY <1>2, <1>3, <1>4, <1>5 DEF Walks, Stays

LEMMA WayPredecessor ==
  ASSUME NEW f, NEW n \in Node(f), NEW m \in Targets(f, n)
  PROVE  n \in Predecessors(f, m)
BY DEF Predecessors

LEMMA ChosenWays ==
  ASSUME NEW f \in Flow, NEW n \in Node(f), NEW targets \in Chosen(f, n)
  PROVE  Range(targets) \subseteq Targets(f, n)
<1>1. PICK m \in 1 .. Len(Out(f, n)) : \E pick \in [1 .. m -> DOMAIN Out(f, n)] :
        targets = [i \in 1 .. m |-> Out(f, n)[pick[i]]]
  BY DEF Chosen
<1>2. PICK pick \in [1 .. m -> DOMAIN Out(f, n)] : targets = [i \in 1 .. m |-> Out(f, n)[pick[i]]]
  BY <1>1
<1> QED
  BY <1>2 DEF Targets, Range

LEMMA ParallelForkTurns ==
  ASSUME TInv, NEW t \in TokenId, ParallelFork(t)
  PROVE  Turns(flow, wk, wk')
<1> DEFINE targets == Out(flow, Here(t))
<1>1. Visit(t, {"parallel"}) /\ InDegree(flow, Here(t)) <= 1 /\ wk' = Split(wk, t, targets)
      /\ RoomFor(wk, Len(targets) - 1)
  BY DEF ParallelFork, Set
<1>2. /\ flow \in Flow /\ Good(flow, wk) /\ wk.token[t].state # "None" /\ Here(t) = wk.token[t].node
      /\ Here(t) \in Node(flow) /\ KindOf(flow, Here(t)) = "parallel"
  BY <1>1, Visited
<1>3. targets \in Seq(Node(flow)) /\ targets # <<>>
  BY <1>2, WaysOut
<1>4. \A n \in Range(targets) : Here(t) \in Predecessors(flow, n)
  BY <1>2 DEF Predecessors, Targets
<1>5. ~AtJoin(flow, wk.token[t])
  <2>1. InDegree(flow, Here(t)) \in Nat
    BY <1>2, FlowsIn
  <2> QED
    BY <1>1, <1>2, <2>1 DEF AtJoin, Joins
<1> HIDE DEF targets
<1>6. Walks(flow, wk, Split(wk, t, targets), {})
  BY <1>1, <1>2, <1>3, <1>4, <1>5, SplitWalks
<1> QED
  BY <1>1, <1>6, WalksTurns

LEMMA InclusiveForkTurns ==
  ASSUME TInv, NEW t \in TokenId, InclusiveFork(t)
  PROVE  Turns(flow, wk, wk')
<1>1. PICK targets \in Chosen(flow, Here(t)) :
        RoomFor(wk, Len(targets) - 1) /\ wk' = Split(wk, t, targets)
  BY DEF InclusiveFork, Set
<1>2. Visit(t, {"inclusive"})
  BY DEF InclusiveFork
<1>3. /\ flow \in Flow /\ Good(flow, wk) /\ wk.token[t].state # "None" /\ Here(t) = wk.token[t].node
      /\ Here(t) \in Node(flow) /\ KindOf(flow, Here(t)) = "inclusive"
  BY <1>2, Visited
<1>4. targets \in Seq(Node(flow)) /\ targets # <<>>
  BY <1>3, ChosenTyped
<1>5. \A n \in Range(targets) : Here(t) \in Predecessors(flow, n)
  BY <1>3, ChosenWays, WayPredecessor
<1>6. ~AtJoin(flow, wk.token[t])
  BY <1>3, OtherKind DEF AtJoin
<1>7. Walks(flow, wk, Split(wk, t, targets), {})
  BY <1>1, <1>3, <1>4, <1>5, <1>6, SplitWalks
<1> QED
  BY <1>1, <1>7, WalksTurns

LEMMA InclusiveJoinTurns ==
  ASSUME TInv, NEW t \in TokenId, InclusiveJoin(t)
  PROVE  Turns(flow, wk, wk')
<1> DEFINE a == Halt(wk, t, "Joining")
<1>1. Visit(t, {"inclusive"})
  BY DEF InclusiveJoin
<1>2. /\ flow \in Flow /\ Good(flow, wk) /\ wk.token[t].state = "Active" /\ Here(t) = wk.token[t].node
      /\ Here(t) \in Node(flow) /\ KindOf(flow, Here(t)) = "inclusive" /\ wk \in Aggregate(flow)
  BY <1>1, Visited, GoodIs
<1>3. Good(flow, a)
  <2>1. KindOf(flow, Here(t)) = "inclusive" /\ InDegree(flow, Here(t)) > 1
    BY <1>2 DEF InclusiveJoin
  <2> QED
    BY <1>1, <2>1, ParkRuns DEF RestsAt
<1>4. (\E targets \in Chosen(flow, Here(t)) : Merge(a, Here(t), targets)) \/ wk' = a
  BY DEF InclusiveJoin, Set
<1>5. CASE wk' = a
  BY <1>5, HaltTurns
<1>6. ASSUME NEW targets \in Chosen(flow, Here(t)), Merge(a, Here(t), targets)
      PROVE  Turns(flow, wk, wk')
  <2>1. targets \in Seq(Node(flow)) /\ targets # <<>>
    BY <1>2, ChosenTyped
  <2>2. \A n \in Range(targets) : Here(t) \in Predecessors(flow, n)
    BY <1>2, ChosenWays, WayPredecessor
  <2>3. Here(t) \notin Joins(flow)
    BY <1>2, OtherKind
  <2> HIDE DEF a
  <2>4. Walks(flow, a, wk', {})
    BY <1>2, <1>3, <1>6, <2>1, <2>2, <2>3, MergeWalks
  <2>5. Walks(flow, wk, wk', {})
    BY <1>2, <2>4, ParkedWalks DEF a
  <2> QED
    BY <2>5, WalksTurns
<1> QED
  BY <1>4, <1>5, <1>6

\* A join opens for one token over each of its flows.
LEMMA ParallelJoinTurns ==
  ASSUME TInv, AllCame(flow, wk), OnePerFlow, Direct(flow), NEW t \in TokenId, ParallelJoin(t)
  PROVE  Turns(flow, wk, wk')
<1> DEFINE joining == "Joining"
           a == Halt(wk, t, joining)
           n == Here(t)
           before == Predecessors(flow, n)
<1>1. Visit(t, {"parallel"}) /\ InDegree(flow, n) > 1
  BY DEF ParallelJoin
<1>2. /\ flow \in Flow /\ Good(flow, wk) /\ wk.token[t].state = "Active" /\ n = wk.token[t].node
      /\ n \in Node(flow) /\ KindOf(flow, n) = "parallel"
      /\ wk \in Aggregate(flow) /\ wk.token \in [TokenId -> Token(flow)]
  BY <1>1, Visited, GoodIs
<1>3. n \in Joins(flow) /\ n \notin before
  BY <1>1, <1>2 DEF Joins, OfKind, Direct
<1>4. Good(flow, a)
  BY <1>1, <1>2, ParkRuns DEF RestsAt
<1>5. (Arrived(a, n) /\ Merge(a, n, Out(flow, n))) \/ wk' = a
  BY DEF ParallelJoin, Set
<1>6. CASE wk' = a
  BY <1>6, HaltTurns
<1>7. CASE Arrived(a, n) /\ Merge(a, n, Out(flow, n))
  <2> DEFINE x == [state |-> joining, node |-> wk.token[t].node, via |-> wk.token[t].via]
             S == Parked(a, n)
             from == [u \in S |-> wk.token[u].via]
  <2>1. a.token = [wk.token EXCEPT ![t] = x]
    <3> HIDE DEF joining
    <3> QED
      BY <1>2, HaltIs
  <2>2. x.state = "Joining" /\ x.node = wk.token[t].node
    OBVIOUS
  <2> HIDE DEF x, a, joining
  <2>3. \A u \in TokenId : a.token[u] = IF u = t THEN x ELSE wk.token[u]
    BY <1>2, <2>1
  <2>4. ASSUME NEW u \in S
        PROVE  /\ u \in TokenId /\ wk.token[u].node = n /\ AtJoin(flow, wk.token[u])
               /\ wk.token[u].state \in {"Active", "Joining"}
    <3>1. u \in TokenId /\ a.token[u].state = "Joining" /\ a.token[u].node = n
      BY DEF Parked
    <3>2. wk.token[u].state \in {"Active", "Joining"} /\ wk.token[u].node = n
      BY <1>2, <2>2, <2>3, <3>1
    <3> QED
      BY <1>3, <3>1, <3>2 DEF AtJoin
  <2>5. Out(flow, n) \in Seq(Node(flow)) /\ Out(flow, n) # <<>>
    BY <1>2, WaysOut
  <2>6. \A m \in Range(Out(flow, n)) : n \in Predecessors(flow, m)
    BY <1>2 DEF Predecessors, Targets
  <2>7. Walks(flow, a, wk', {n})
    BY <1>2, <1>4, <1>7, <2>5, <2>6, MergeWalks
  <2>8. Walks(flow, wk, wk', {n})
    BY <1>2, <2>7, ParkedWalks DEF a, joining
  <2>9. \A u \in S : wk.token[u].via \in before
    BY <1>3, <2>4 DEF AllCame, CameIn
  <2>10. \A u, v \in S : wk.token[u].via = wk.token[v].via => u = v
    BY <2>4 DEF OnePerFlow
  <2>11. before \subseteq {wk.token[u].via : u \in S}
    <3>1. Cardinality(S) >= InDegree(flow, n)
      BY <1>7 DEF Arrived
    <3>2. from \in [S -> before] /\ \A u, v \in S : from[u] = from[v] => u = v
      BY <2>9, <2>10
    <3>3. {from[u] : u \in S} = {wk.token[u].via : u \in S}
      OBVIOUS
    <3> HIDE DEF from, S, n
    <3>4. before \subseteq {from[u] : u \in S}
      BY <1>2, <3>1, <3>2, EachFlow
    <3> QED
      BY <3>3, <3>4
  <2>12. \A u \in S : wk'.token[u].node # n
    <3>1. PICK w \in S : \A v \in TokenId :
            \/ v \in S \ {w} /\ wk'.token[v] = GoneToken
            \/ /\ v = w \/ a.token[v].state = "None"
               /\ wk'.token[v].state = "Active" /\ wk'.token[v].node \in Range(Out(flow, n))
               /\ wk'.token[v].via = n
            \/ v \notin S /\ wk'.token[v] = a.token[v]
      BY <1>4, <1>7, <2>5, MergeIs
    <3>2. n \notin Range(Out(flow, n))
      BY <1>3, <2>6
    <3>3. GoneToken.node = "" /\ n # ""
      BY <1>2, NodesAssumption DEF GoneToken
    <3> QED
      BY <2>4, <3>1, <3>2, <3>3
  <2>13. S \subseteq {v \in Tokens(wk, {"Joining", "Active"}) :
                        wk.token[v].node = n /\ wk'.token[v] # wk.token[v]}
    BY <2>4, <2>12 DEF Tokens
  <2> HIDE DEF S, n
  <2>14. Gathered(flow, wk, wk', n)
    BY <2>11, <2>13 DEF Gathered
  <2> QED
    BY <2>8, <2>14 DEF Turns
<1> QED
  BY <1>5, <1>6, <1>7

LEMMA ServiceTaskTurns ==
  ASSUME TInv, Direct(flow), NEW t \in TokenId, ServiceTask(t)
  PROVE  Turns(flow, wk, wk')
<1>1. Visit(t, {"serviceTask"})
  BY DEF ServiceTask
<1>2. flow \in Flow /\ Good(flow, wk)
  BY <1>1, Visited
<1>3. PICK answer :
        \/ wk' = PassOn(wk, t)
        \/ wk' = Halt(wk, t, "Incident")
        \/ \E b \in BoundaryErrorsFor(flow, Here(t), answer) : wk' = Place(wk, t, FirstOut(flow, b))
        \/ /\ RoomFor(wk, 1)
           /\ \E e \in ErrorStartsFor(flow, answer) :
                wk' = [Complete(EndAll(wk), LiveTasks(wk)) EXCEPT
                        !.token[NextToken(wk)] = [state |-> "Active", via |-> Here(t),
                                                  node |-> FirstOut(flow, e)]]
  BY DEF ServiceTask, Set
<1>4. CASE wk' = PassOn(wk, t)
  BY <1>1, <1>4, PassOnTurns
<1>5. CASE wk' = Halt(wk, t, "Incident")
  BY <1>5, HaltTurns
<1>6. CASE \E b \in BoundaryErrorsFor(flow, Here(t), answer) : wk' = Place(wk, t, FirstOut(flow, b))
  <2>1. PICK b \in BoundaryErrorsFor(flow, Here(t), answer) : wk' = Place(wk, t, FirstOut(flow, b))
    BY <1>6
  <2>2. b \in OfKind(flow, "boundaryError")
    BY DEF BoundaryErrorsFor, BestMatch
  <2>3. FirstOut(flow, b) \notin Joins(flow)
    BY <2>2 DEF Direct
  <2> QED
    BY <1>1, <2>1, <2>3, VisitPlaceTurns
<1>7. CASE /\ RoomFor(wk, 1)
           /\ \E e \in ErrorStartsFor(flow, answer) :
                wk' = [Complete(EndAll(wk), LiveTasks(wk)) EXCEPT
                        !.token[NextToken(wk)] = [state |-> "Active", via |-> Here(t),
                                                  node |-> FirstOut(flow, e)]]
  <2> DEFINE c == Complete(EndAll(wk), LiveTasks(wk))
             m == NextToken(wk)
  <2>1. PICK e \in ErrorStartsFor(flow, answer) :
          wk' = [c EXCEPT !.token[m] = [state |-> "Active", via |-> Here(t), node |-> FirstOut(flow, e)]]
    BY <1>7
  <2>2. e \in OfKind(flow, "errorStart")
    BY DEF ErrorStartsFor, BestMatch
  <2> DEFINE x == [state |-> "Active", via |-> Here(t), node |-> FirstOut(flow, e)]
             b == Put(c, m, x)
  <2>3. CameIn(flow, x)
    BY <2>2 DEF Direct, CameIn
  <2>4. Good(flow, EndAll(wk)) /\ EndAll(wk) \in Aggregate(flow)
    BY <1>2, EndAllGood, GoodIs
  <2>5. Fields(c) /\ c.token \in [TokenId -> Token(flow)]
    BY <1>2, ClearedIs, GoodIs
  <2>6. c.token = EndAll(wk).token
    BY <2>4, CompleteIs DEF OtherTasks
  <2>7. wk.token[m].state = "None"
    BY <1>2, <1>7, NextFree
  <2>8. Walks(flow, wk, EndAll(wk), {})
    BY <1>2, EndAllWalks, GoodIs
  <2> HIDE DEF c, m, x
  <2>9. \A u \in TokenId : b.token[u] = IF u = m THEN x ELSE c.token[u]
    BY <2>5, PutIs
  <2>10. wk' = b
    BY <2>1 DEF x, Put
  <2> HIDE DEF b
  <2>11. Walks(flow, wk, b, {})
    BY <2>3, <2>6, <2>7, <2>8, <2>9 DEF Walks, Stays, AtJoin
  <2> QED
    BY <2>10, <2>11, WalksTurns
<1> QED
  BY <1>3, <1>4, <1>5, <1>6, <1>7

LEMMA HaltSameTurns ==
  ASSUME TInv, NEW t \in TokenId, NEW state, NEW a, Good(flow, a), a.token = wk.token
  PROVE  Turns(flow, wk, Halt(a, t, state))
<1>1. Walks(flow, a, Halt(a, t, state), {})
  BY HaltWalks, GoodIs
<1>2. Walks(flow, wk, Halt(a, t, state), {})
  BY <1>1 DEF Walks
<1> QED
  BY <1>2, WalksTurns

LEMMA EnterUserTaskTurns ==
  ASSUME TInv, NEW t \in TokenId, EnterUserTask(t)
  PROVE  Turns(flow, wk, wk')
<1> DEFINE n == Here(t)
           a1 == AddTask(wk, t, n, 0)
<1>1. Visit(t, {"userTask"}) /\ HasFreeTask(wk)
  BY DEF EnterUserTask
<1>2. PICK skipped \in SUBSET (BoundaryTimersOn(flow, n) \cap Def[flow].fragile) :
        wk' = Halt(Armed(a1, t, BoundaryTimersOn(flow, n) \ skipped), t, "Waiting")
  BY DEF EnterUserTask, Set
<1> DEFINE events == BoundaryTimersOn(flow, n) \ skipped
           a2 == Armed(a1, t, events)
<1>3. /\ flow \in Flow /\ Good(flow, wk) /\ wk.token[t].state # "None"
      /\ n \in OfKind(flow, "userTask")
  BY <1>1, Visited DEF OfKind
<1>4. events \in SUBSET (OfKind(flow, "timerCatch") \cup OfKind(flow, "boundaryTimer"))
  BY DEF BoundaryTimersOn
<1> HIDE DEF events, n
<1>5. Good(flow, a1) /\ OtherTasks(wk, a1)
  BY <1>1, <1>3, AddTaskGood
<1> HIDE DEF a1
<1>6. Good(flow, a2) /\ OtherTimers(a1, a2)
  BY <1>3, <1>4, <1>5, ArmedGood, ArmedIs, GoodIs
<1>7. wk' = Halt(a2, t, "Waiting")
  BY <1>2 DEF events
<1> HIDE DEF a2
<1>8. a2.token = wk.token
  BY <1>5, <1>6 DEF OtherTimers, OtherTasks
<1> QED
  BY <1>6, <1>7, <1>8, HaltSameTurns

LEMMA EnterMultiInstanceTurns ==
  ASSUME TInv, NEW t \in TokenId, EnterMultiInstance(t)
  PROVE  Turns(flow, wk, wk')
<1> DEFINE d == DropTokens(wk, {t})
<1>1. Visit(t, {"userTask"})
  BY DEF EnterMultiInstance
<1>2. flow \in Flow /\ Good(flow, wk) /\ wk \in Aggregate(flow)
  BY <1>1, Visited, GoodIs
<1>3. wk' = PassOn(wk, t) \/ \E scopes : wk' = [d EXCEPT !.scope = scopes]
  BY DEF EnterMultiInstance, Set
<1>4. CASE wk' = PassOn(wk, t)
  BY <1>1, <1>4, PassOnTurns
<1>5. ASSUME NEW scopes, wk' = [d EXCEPT !.scope = scopes]
      PROVE  Turns(flow, wk, wk')
  <2>1. OtherTokens(wk, d)
    BY <1>2, DropTokensIs
  <2>2. Walks(flow, wk, d, {})
    BY <1>2, DropTokensWalks
  <2> HIDE DEF d
  <2>3. wk'.token = d.token
    BY <1>5, <2>1 DEF OtherTokens, Fields
  <2>4. Walks(flow, wk, wk', {})
    BY <2>2, <2>3 DEF Walks
  <2> QED
    BY <2>4, WalksTurns
<1> QED
  BY <1>3, <1>4, <1>5

LEMMA ParkTimerTurns ==
  ASSUME TInv, NEW t \in TokenId, ParkTimer(t)
  PROVE  Turns(flow, wk, wk')
<1> DEFINE events == {Here(t)}
           a == Armed(wk, t, events)
<1>1. Visit(t, {"timerCatch"})
  BY DEF ParkTimer
<1>2. flow \in Flow /\ Good(flow, wk) /\ Here(t) \in OfKind(flow, "timerCatch")
  BY <1>1, Visited DEF OfKind
<1>3. wk' = Halt(a, t, "WaitingTimer") \/ wk' = Halt(wk, t, "Incident")
  BY DEF ParkTimer, Set
<1>4. events \in SUBSET (OfKind(flow, "timerCatch") \cup OfKind(flow, "boundaryTimer"))
  BY <1>2
<1> HIDE DEF events
<1>5. Good(flow, a) /\ OtherTimers(wk, a)
  BY <1>2, <1>4, ArmedGood, ArmedIs, GoodIs
<1> HIDE DEF a
<1>6. a.token = wk.token
  BY <1>5 DEF OtherTimers
<1> QED
  BY <1>3, <1>5, <1>6, HaltTurns, HaltSameTurns

LEMMA ParkEventGatewayTurns ==
  ASSUME TInv, NEW t \in TokenId, ParkEventGateway(t)
  PROVE  Turns(flow, wk, wk')
<1> DEFINE out == Out(flow, Here(t))
           timers(upto) == {out[i] : i \in 1 .. upto} \cap OfKind(flow, "timerCatch")
<1>1. Visit(t, {"eventGateway"})
  BY DEF ParkEventGateway
<1>2. flow \in Flow /\ Good(flow, wk)
  BY <1>1, Visited
<1>3. \E upto : \/ wk' = Halt(Armed(wk, t, timers(upto)), t, "WaitingEventGateway")
                \/ wk' = Halt(Armed(wk, t, timers(upto)), t, "Incident")
  BY DEF ParkEventGateway, Set
<1>4. PICK upto : \/ wk' = Halt(Armed(wk, t, timers(upto)), t, "WaitingEventGateway")
                  \/ wk' = Halt(Armed(wk, t, timers(upto)), t, "Incident")
  BY <1>3
<1> DEFINE events == timers(upto)
           a == Armed(wk, t, events)
<1>5. events \in SUBSET (OfKind(flow, "timerCatch") \cup OfKind(flow, "boundaryTimer"))
  OBVIOUS
<1> HIDE DEF events
<1>6. Good(flow, a) /\ OtherTimers(wk, a)
  BY <1>2, <1>5, ArmedGood, ArmedIs, GoodIs
<1>7. wk' = Halt(a, t, "WaitingEventGateway") \/ wk' = Halt(a, t, "Incident")
  BY <1>4 DEF events
<1> HIDE DEF a
<1>8. a.token = wk.token
  BY <1>6 DEF OtherTimers
<1> QED
  BY <1>6, <1>7, <1>8, HaltSameTurns

LEMMA TerminateEndTurns ==
  ASSUME TInv, NEW t \in TokenId, TerminateEnd(t)
  PROVE  Turns(flow, wk, wk')
<1> DEFINE e == EndAll(wk)
           c == Complete(e, LiveTasks(wk))
<1>1. Visit(t, {"terminateEnd"}) /\ wk' = c
  BY DEF TerminateEnd, Set
<1>2. wk \in Aggregate(flow) /\ Good(flow, wk)
  BY <1>1, Visited, GoodIs
<1>3. Walks(flow, wk, e, {})
  BY <1>2, EndAllWalks
<1>4. e \in Aggregate(flow)
  BY <1>2, EndAllGood, GoodIs
<1> HIDE DEF e
<1>5. c.token = e.token
  BY <1>4, CompleteIs DEF OtherTasks
<1>6. Walks(flow, wk, wk', {})
  BY <1>1, <1>3, <1>5 DEF Walks
<1> QED
  BY <1>6, WalksTurns

LEMMA ExpandTurns ==
  ASSUME TInv, NEW s \in wk.scope, Expand(s)
  PROVE  Turns(flow, wk, wk')
<1> DEFINE m == NextToken(wk)
           w == [state |-> "Waiting", node |-> s.node, via |-> s.node]
           d == AddTask(wk, m, s.node, 0)
           c == Put(d, m, w)
<1>1. /\ RoomFor(wk, 1) /\ HasFreeTask(wk)
      /\ \E scopes : wk' = [[d EXCEPT !.token[m] = w] EXCEPT !.scope = scopes]
  BY DEF Expand, Set
<1>2. /\ Good(flow, wk) /\ flow \in Flow /\ s.node \in DOMAIN Def[flow].mi
      /\ wk \in Aggregate(flow)
  BY GoodIs DEF TInv, ScopesPlaced
<1>3. s.node \in OfKind(flow, "userTask")
  BY <1>2, DefAssumption
<1>4. m \in TokenId /\ wk.token[m].state = "None"
  BY <1>1, <1>2, NextFree
<1>5. CameIn(flow, w)
  BY <1>3 DEF CameIn, Joins, OfKind
<1>6. OtherTasks(wk, d)
  BY <1>2, AddTaskIs
<1> HIDE DEF m, w, d
<1>7. PICK scopes : wk' = [c EXCEPT !.scope = scopes]
  BY <1>1 DEF Put
<1>8. wk'.token = c.token
  BY <1>6, <1>7 DEF Put, OtherTasks, Fields
<1>9. Fields(d) /\ d.token = wk.token /\ d.token \in [TokenId -> Token(flow)]
  BY <1>2, <1>6, GoodIs DEF OtherTasks
<1>10. \A u \in TokenId : c.token[u] = IF u = m THEN w ELSE d.token[u]
  BY <1>9, PutIs
<1> HIDE DEF c
<1>11. Walks(flow, wk, wk', {})
  BY <1>4, <1>5, <1>8, <1>9, <1>10 DEF Walks, Stays, AtJoin
<1> QED
  BY <1>11, WalksTurns

LEMMA StepTurns ==
  ASSUME TInv, AllCame(flow, wk), OnePerFlow, Direct(flow), NEW t \in TokenId, Step(t)
  PROVE  Turns(flow, wk, wk')
<1>1. CASE PassThrough(t)
  BY <1>1, PassOnTurns DEF PassThrough, Set
<1>2. CASE End(t)
  BY <1>2, HaltTurns DEF End, Set
<1>3. CASE ExclusiveGateway(t)
  <2>1. Visit(t, {"exclusive"}) /\ flow \in Flow /\ Here(t) \in Node(flow)
    BY <1>3, Visited DEF ExclusiveGateway
  <2>2. PICK n \in Targets(flow, Here(t)) : wk' = Place(wk, t, n)
    BY <1>3 DEF ExclusiveGateway, Set
  <2>3. Here(t) \in Predecessors(flow, n)
    BY <2>1, WayPredecessor
  <2> QED
    BY <2>1, <2>2, <2>3, VisitPlaceTurns
<1>4. CASE ParkAsync(t) \/ ParkSubflow(t) \/ ParkMessage(t)
  BY <1>4, HaltTurns DEF ParkAsync, ParkSubflow, ParkMessage, Set
<1> QED
  BY <1>1, <1>2, <1>3, <1>4, TerminateEndTurns, ServiceTaskTurns, ParallelForkTurns,
     ParallelJoinTurns, InclusiveForkTurns, InclusiveJoinTurns, EnterUserTaskTurns,
     EnterMultiInstanceTurns, ParkTimerTurns, ParkEventGatewayTurns DEF Step

LEMMA FireTimerTurns ==
  ASSUME TInv, Kept(flow, wk), Direct(flow), NEW j \in wk.timer, FireTimer(j)
  PROVE  Turns(flow, wk, wk')
<1> DEFINE t == j.token
           fired == [wk EXCEPT !.timer = @ \ {j}]
<1>1. Good(flow, wk) /\ flow \in Flow /\ t \in TokenId /\ wk \in Aggregate(flow)
  BY EndsTyped, GoodIs DEF TInv
<1>2. Good(flow, fired) /\ OtherTimers(wk, fired)
  BY <1>1, FiredGood
<1>3. HostedIn(flow, wk, j)
  BY DEF Kept, Clocked
<1>4. ~AtJoin(flow, wk.token[t])
  BY <1>3 DEF HostedIn, AtJoin
<1> HIDE DEF fired
<1>5. ASSUME NEW a, Good(flow, a), a.token = wk.token, NEW n,
             n \in Joins(flow) => wk.token[t].node \in Predecessors(flow, n)
      PROVE  Turns(flow, wk, Place(a, t, n))
  <2>1. Walks(flow, a, Place(a, t, n), {})
    BY <1>1, <1>4, <1>5, PlaceWalks, GoodIs
  <2>2. Walks(flow, wk, Place(a, t, n), {})
    BY <1>5, <2>1 DEF Walks
  <2> QED
    BY <2>2, WalksTurns
<1>6. CASE wk' = fired
  <2>1. Walks(flow, wk, wk', {})
    BY <1>2, <1>6 DEF Walks, Stays, OtherTimers
  <2> QED
    BY <2>1, WalksTurns
<1>7. CASE /\ KindOf(flow, j.node) = "timerCatch"
           /\ wk' = Place(IF wk.token[t].state = "WaitingEventGateway"
                          THEN DropTimers(wk, t) ELSE fired, t, FirstOut(flow, j.node))
  <2>1. j.node \in Node(flow)
    BY <1>1, GoodIs, AggregateIs DEF Timer
  <2>2. j.node \in Predecessors(flow, FirstOut(flow, j.node)) /\ Out(flow, j.node) # <<>>
    BY <1>1, <1>7, <2>1, FirstWay
  <2>3. CASE wk.token[t].state = "WaitingEventGateway"
    <3>1. Good(flow, DropTimers(wk, t)) /\ DropTimers(wk, t).token = wk.token
      BY <1>1, DropTimersGood, DropTimersIs DEF OtherTimers
    <3>2. j.node \in Targets(flow, wk.token[t].node)
      BY <1>3, <1>7, <2>3 DEF HostedIn
    <3>3. wk.token[t].node \in OfKind(flow, "eventGateway")
      BY <1>1, <2>3, GoodIs DEF Placed, RestsAt, Lives, OfKind
    <3>4. FirstOut(flow, j.node) \notin Joins(flow)
      BY <2>2, <3>2, <3>3 DEF Direct
    <3> QED
      BY <1>5, <1>7, <2>3, <3>1, <3>4
  <2>4. CASE wk.token[t].state # "WaitingEventGateway"
    <3>1. wk.token[t].node = j.node
      BY <1>3, <1>7, <2>4 DEF HostedIn
    <3> QED
      BY <1>2, <1>5, <1>7, <2>2, <2>4, <3>1 DEF OtherTimers
  <2> QED
    BY <2>3, <2>4
<1>8. CASE /\ j.node \in Def[flow].cancel
           /\ wk' = Place(DropTimers(DropTasks(wk, TasksOf(wk, t)), t), t, j.node)
  <2> DEFINE c == DropTasks(wk, TasksOf(wk, t))
  <2>1. KindOf(flow, j.node) = "boundaryTimer"
    BY <1>1, <1>8, DefAssumption DEF OfKind
  <2>2. j.node \notin Joins(flow)
    BY <2>1, OtherKind
  <2>3. Good(flow, c) /\ c.token = wk.token
    BY <1>1, DropTasksGood, DropTasksIs DEF OtherTasks
  <2> HIDE DEF c
  <2>4. Good(flow, DropTimers(c, t)) /\ DropTimers(c, t).token = wk.token
    BY <2>3, DropTimersGood, DropTimersIs, GoodIs DEF OtherTimers
  <2> QED
    BY <1>5, <1>8, <2>2, <2>4 DEF c
<1>9. CASE /\ j.node \in OfKind(flow, "boundaryTimer") \ Def[flow].cancel
           /\ RoomFor(wk, 1)
           /\ wk' = [fired EXCEPT
                      !.timer = @ \cup Rearmed(j),
                      !.token[NextToken(wk)] =
                         [state |-> "Active", node |-> j.node, via |-> wk.token[t].node]]
  <2> DEFINE m == NextToken(wk)
             x == [state |-> "Active", node |-> j.node, via |-> wk.token[t].node]
             timers == fired.timer \cup Rearmed(j)
             c == [fired EXCEPT !.timer = timers]
             b == Put(c, m, x)
  <2>1. m \in TokenId /\ wk.token[m].state = "None"
    BY <1>1, <1>9, NextFree
  <2>2. CameIn(flow, x)
    BY <1>9, OtherKind DEF CameIn, OfKind
  <2>3. Fields(c) /\ c.token = wk.token /\ wk.token \in [TokenId -> Token(flow)]
    <3>1. Fields(fired) /\ fired.token = wk.token
      BY <1>2 DEF OtherTimers
    <3> HIDE DEF timers
    <3>2. Fields(c) /\ c.token = fired.token
      BY <3>1 DEF Fields
    <3> QED
      BY <1>1, <3>1, <3>2, GoodIs
  <2>4. wk' = b
    BY <1>9 DEF Put
  <2> HIDE DEF m, x, c
  <2>5. \A u \in TokenId : b.token[u] = IF u = m THEN x ELSE c.token[u]
    BY <2>3, PutIs
  <2> HIDE DEF b
  <2>6. Walks(flow, wk, wk', {})
    BY <2>1, <2>2, <2>3, <2>4, <2>5 DEF Walks, Stays, AtJoin
  <2> QED
    BY <2>6, WalksTurns
<1> QED
  BY <1>6, <1>7, <1>8, <1>9 DEF FireTimer, Set, fired

-----------------------------------------------------------------------------
(* Joins in the calls. *)

\* Everything ended and every task gone: the tokens stay where they are.
LEMMA ClearedComes ==
  ASSUME NEW f, NEW a, Good(f, a)
  PROVE  LET c == DropTasks(EndAll(a), LiveTasks(a))
             d == Complete(EndAll(a), LiveTasks(a))
         IN  Comes(f, a, c) /\ Comes(f, a, d)
<1> DEFINE e == EndAll(a)
<1>1. Comes(f, a, e)
  BY EndAllWalks, WalksComes, GoodIs
<1>2. e \in Aggregate(f)
  BY EndAllGood, GoodIs
<1> HIDE DEF e
<1>3. \A gone : DropTasks(e, gone).token = e.token /\ Complete(e, gone).token = e.token
  BY <1>2, DropTasksIs, CompleteIs DEF OtherTasks
<1> QED
  BY <1>1, <1>3, SameComes, ComesTrans DEF e

LEMMA RestateComes ==
  ASSUME NEW f, NEW a, Good(f, a), NEW those, NEW state,
         NEW b, b = [a EXCEPT !.token = [t \in TokenId |->
                       IF t \in those THEN [@[t] EXCEPT !.state = state] ELSE @[t]]]
  PROVE  Comes(f, a, b)
<1> DEFINE x(t) == [a.token[t] EXCEPT !.state = state]
           tokens == [t \in TokenId |-> IF t \in those THEN x(t) ELSE a.token[t]]
           c == [a EXCEPT !.token = tokens]
<1>1. b = c
  OBVIOUS
<1>2. a.token \in [TokenId -> Token(f)] /\ Fields(a)
  BY GoodIs
<1>3. \A t \in TokenId : x(t).node = a.token[t].node /\ x(t).via = a.token[t].via
  BY <1>2 DEF Token
<1> HIDE DEF x
<1>4. c.token = tokens
  <2> HIDE DEF tokens
  <2> QED
    BY <1>2, TokensSet
<1>5. \A t \in TokenId : c.token[t] = IF t \in those THEN x(t) ELSE a.token[t]
  BY <1>4
<1> HIDE DEF c
<1>6. Comes(f, a, c)
  BY <1>3, <1>5 DEF Comes, Stays
<1> QED
  BY <1>1, <1>6

\* Token t goes on over the way out of where it waits.
LEMMA AnsweredComes ==
  ASSUME TInv, NEW t \in TokenId, db.token[t].state \in {"WaitingAsync", "WaitingSubflow"}
  PROVE  Comes(flow, db, PassOn(db, t))
<1>1. Good(flow, db) /\ flow \in Flow /\ Lives(db.token[t]) /\ db \in Aggregate(flow)
  BY GoodIs DEF TInv, Lives
<1>2. /\ db.token[t].node \in Node(flow)
      /\ KindOf(flow, db.token[t].node) \in {"serviceTask", "callActivity"}
  BY <1>1, GoodIs DEF Placed, RestsAt
<1>3. db.token[t].node \in Predecessors(flow, FirstOut(flow, db.token[t].node))
  BY <1>1, <1>2, FirstWay
<1> QED
  BY <1>1, <1>3, PlaceComes DEF PassOn

LEMMA FinishScopeComes ==
  ASSUME flow \in Flow, NEW a, Good(flow, a), NEW s \in a.scope
  PROVE  Comes(flow, a, FinishScope(a, s))
<1> DEFINE rest == TasksAt(a, s.node)
           gone == {a.task[k].token : k \in rest}
           c == DropTokens(a, gone)
           left == DropTasks(c, rest)
           x == [state |-> "Active", node |-> FirstOut(flow, s.node), via |-> s.node]
           m == NextToken(a)
           d == Put(left, m, x)
           b == FinishScope(a, s)
<1>1. s.node \in Node(flow) /\ KindOf(flow, s.node) = "userTask"
  BY GoodIs, DefAssumption DEF ScopesPlaced, OfKind
<1>2. CameIn(flow, x)
  BY <1>1, FirstWay DEF CameIn
<1>3. a \in Aggregate(flow)
  BY GoodIs
<1>4. rest \subseteq LiveTasks(a) /\ \A t \in gone : t \in TokenId /\ a.token[t].state # "None"
  BY GoodIs DEF TasksAt, LiveTasks, TasksPlaced
<1>5. \E scopes : b = [[left EXCEPT !.token[m] = x] EXCEPT !.scope = scopes]
  BY DEF FinishScope
<1> HIDE DEF gone, rest, x, m, b
<1>6. Comes(flow, a, c) /\ c \in Aggregate(flow)
  BY <1>3, <1>4, DropTokensWalks, WalksComes, DropTokensGood, GoodIs
<1> HIDE DEF c
<1>7. OtherTasks(c, left)
  BY <1>6, DropTasksIs
<1> HIDE DEF left
<1>8. left.token = c.token /\ Fields(left) /\ left.token \in [TokenId -> Token(flow)]
  BY <1>6, <1>7, AggregateIs DEF OtherTasks
<1>9. Comes(flow, left, d)
  BY <1>2, <1>8, PutIs
<1>10. Comes(flow, a, d)
  BY <1>6, <1>8, <1>9, SameComes, ComesTrans
<1>11. b.token = d.token
  BY <1>5, <1>8 DEF Put, Fields
<1> HIDE DEF d
<1>12. Comes(flow, a, b)
  BY <1>10, <1>11, SameComes, ComesTrans
<1> QED
  BY <1>12 DEF b

LEMMA CompleteTaskComes ==
  ASSUME TInv, Kept(flow, db), NEW k \in TaskId, CompleteTask(k)
  PROVE  Comes(flow, db, wk')
<1> DEFINE gone == {k}
           base == Complete(db, gone)
           t == db.task[k].token
           n == db.task[k].node
           p == db.task[k].parent
<1>1. Actionable(k) /\ flow \in Flow /\ Good(flow, db) /\ db \in Aggregate(flow)
  BY GoodIs DEF CompleteTask, TInv
<1>2. k \in LiveTasks(db)
  BY <1>1, ActionableOpen
<1>3. t \in TokenId /\ n \in Node(flow) /\ KindOf(flow, n) = "userTask"
  BY <1>1, <1>2, GoodIs DEF TasksPlaced, OfKind
<1>4. db.token[t].node = n
  BY <1>2 DEF Kept, Held
<1>5. \/ wk' = FinishAddSign(base, p)
      \/ \E s \in ScopesAt(db, n), closes \in BOOLEAN :
           wk' = FinishElement(Halt(base, t, "Ended"), s, closes)
      \/ wk' = Place(DropTimers(base, t), t, FirstOut(flow, n))
  BY DEF CompleteTask, Begin
<1> HIDE DEF n, t, p, gone
<1>6. Good(flow, base) /\ OtherTasks(db, base) /\ base \in Aggregate(flow)
  BY <1>1, CompleteSome, GoodIs
<1> HIDE DEF base
<1>7. base.token = db.token /\ base.scope = db.scope /\ Fields(base)
  BY <1>6 DEF OtherTasks
<1>8. CASE wk' = FinishAddSign(base, p)
  <2>1. wk'.token = base.token
    BY <1>7, <1>8 DEF FinishAddSign, Fields
  <2> QED
    BY <1>7, <2>1, SameComes
<1>9. ASSUME NEW s \in ScopesAt(db, n), NEW closes \in BOOLEAN,
             wk' = FinishElement(Halt(base, t, "Ended"), s, closes)
      PROVE  Comes(flow, db, wk')
  <2> DEFINE ended == "Ended"
             h == Halt(base, t, ended)
  <2>1. ended \in TokenState /\ ended \notin {"None", "Removed"} /\ ended = "Ended"
    BY DEF TokenState
  <2>2. base.token[t].state # "None"
    BY <1>1, <1>2, <1>7, GoodIs DEF TasksPlaced, t
  <2> HIDE DEF ended
  <2>3. Good(flow, h) /\ OtherTokens(base, h) /\ Comes(flow, base, h)
    BY <1>3, <1>6, <2>1, <2>2, HaltGood, HaltIs, HaltWalks, WalksComes
  <2>4. wk' = FinishElement(h, s, closes)
    BY <1>9, <2>1
  <2> HIDE DEF h
  <2>5. Comes(flow, db, h) /\ s \in h.scope /\ Fields(h)
    BY <1>7, <1>9, <2>3, SameComes, ComesTrans DEF OtherTokens, ScopesAt
  <2>6. CASE closes
    <3>1. Comes(flow, h, FinishScope(h, s))
      BY <1>1, <2>3, <2>5, FinishScopeComes
    <3> QED
      BY <2>4, <2>5, <2>6, <3>1, ComesTrans DEF FinishElement
  <2>7. CASE ~closes
    <3>1. \E scopes : wk' = [h EXCEPT !.scope = scopes]
      BY <2>4, <2>7 DEF FinishElement
    <3>2. wk'.token = h.token
      BY <2>5, <3>1 DEF Fields
    <3> QED
      BY <2>5, <3>2, SameComes, ComesTrans
  <2> QED
    BY <2>6, <2>7
<1>10. CASE wk' = Place(DropTimers(base, t), t, FirstOut(flow, n))
  <2> DEFINE c == DropTimers(base, t)
  <2>1. Good(flow, c) /\ OtherTimers(base, c)
    BY <1>6, DropTimersGood, DropTimersIs
  <2> HIDE DEF c
  <2>2. c.token = db.token /\ c \in Aggregate(flow)
    BY <1>7, <2>1, GoodIs DEF OtherTimers
  <2>3. n \in Predecessors(flow, FirstOut(flow, n))
    BY <1>1, <1>3, FirstWay
  <2>4. Comes(flow, c, Place(c, t, FirstOut(flow, n)))
    BY <1>3, <1>4, <2>2, <2>3, PlaceComes
  <2> QED
    BY <1>10, <2>2, <2>4, SameComes, ComesTrans DEF c
<1> QED
  BY <1>5, <1>8, <1>9, <1>10

LEMMA AddSignComes ==
  ASSUME TInv, NEW k \in TaskId, AddSign(k)
  PROVE  Comes(flow, db, wk')
<1> DEFINE c == Restated(db, k, "Suspended")
           b == AddTask(c, db.task[k].token, db.task[k].node, k)
<1>1. k \in LiveTasks(db) /\ Good(flow, db) /\ wk' = b
  BY ActionableOpen DEF AddSign, TInv, Restated, Save
<1>2. Good(flow, c) /\ OtherTasks(db, c)
  BY <1>1, TaskStateGood
<1> HIDE DEF c
<1>3. OtherTasks(c, b)
  BY <1>2, AddTaskIs, GoodIs
<1> HIDE DEF b
<1> QED
  BY <1>1, <1>2, <1>3, SameComes DEF OtherTasks

LEMMA RejectTaskComes ==
  ASSUME TInv, NEW k \in TaskId, NEW target \in OfKind(flow, "userTask"), RejectTask(k, target)
  PROVE  Comes(flow, db, wk')
<1> DEFINE gone == {k}
           base == Complete(db, gone)
           t == db.task[k].token
           c == DropTimers(base, t)
<1>1. /\ k \in LiveTasks(db) /\ Good(flow, db) /\ flow \in Flow /\ wk' = Place(c, t, target)
  BY ActionableOpen DEF RejectTask, TInv, Begin
<1>2. t \in TokenId /\ target \notin Joins(flow)
  BY <1>1, GoodIs, OtherKind DEF TasksPlaced, OfKind
<1> HIDE DEF t, gone
<1>3. Good(flow, base) /\ OtherTasks(db, base)
  BY <1>1, CompleteSome
<1> HIDE DEF base
<1>4. Good(flow, c) /\ OtherTimers(base, c)
  BY <1>3, DropTimersGood, DropTimersIs, GoodIs
<1> HIDE DEF c
<1>5. c.token = db.token
  BY <1>3, <1>4 DEF OtherTasks, OtherTimers
<1>6. Comes(flow, c, Place(c, t, target))
  BY <1>2, <1>4, PlaceComes, GoodIs
<1> QED
  BY <1>1, <1>5, <1>6, SameComes, ComesTrans

LEMMA JumpToComes ==
  ASSUME TInv, NEW t \in TokenId, NEW target \in OfKind(flow, "userTask"), JumpTo(t, target)
  PROVE  Comes(flow, db, wk')
<1> DEFINE d == Complete(EndAll(db), LiveTasks(db))
<1>1. Good(flow, db) /\ wk' = Place(d, t, target)
  BY DEF JumpTo, TInv, Begin
<1>2. Good(flow, d) /\ Comes(flow, db, d)
  BY <1>1, ClearedIs, ClearedComes
<1> HIDE DEF d
<1>3. target \notin Joins(flow)
  BY OtherKind DEF OfKind
<1>4. Comes(flow, d, Place(d, t, target))
  BY <1>2, <1>3, PlaceComes, GoodIs
<1> QED
  BY <1>1, <1>2, <1>4, ComesTrans

LEMMA WithdrawProcessComes ==
  ASSUME TInv, NEW landing \in FirstUserTasks[flow], WithdrawProcess(landing)
  PROVE  Comes(flow, db, wk')
<1> DEFINE c == DropTasks(EndAll(db), LiveTasks(db))
           m == NextToken(db)
           d == AddTask(c, m, landing, 0)
           x == [state |-> "Waiting", node |-> landing, via |-> ""]
           b == Put(d, m, x)
<1>1. Good(flow, db) /\ flow \in Flow /\ wk' = b
  BY DEF WithdrawProcess, TInv, Save, Put
<1>2. landing \in OfKind(flow, "userTask")
  BY <1>1 DEF FirstUserTasks
<1>3. CameIn(flow, x)
  BY <1>2, OtherKind DEF CameIn, OfKind
<1>4. Good(flow, c) /\ Comes(flow, db, c)
  BY <1>1, ClearedIs, ClearedComes
<1> HIDE DEF c, m, x
<1>5. OtherTasks(c, d)
  BY <1>4, AddTaskIs, GoodIs
<1> HIDE DEF d
<1>6. d.token = c.token /\ Fields(d) /\ d.token \in [TokenId -> Token(flow)]
  BY <1>4, <1>5, GoodIs DEF OtherTasks
<1>7. Comes(flow, d, b)
  BY <1>3, <1>6, PutIs
<1> HIDE DEF b
<1> QED
  BY <1>1, <1>4, <1>6, <1>7, SameComes, ComesTrans

LEMMA CancelProcessComes ==
  ASSUME TInv, CancelProcess
  PROVE  Comes(flow, db, wk') \/ UNCHANGED kernel
<1> DEFINE c == DropTasks(EndAll(db), LiveTasks(db))
           over == "Terminated"
           b == [c EXCEPT !.inst = over]
<1>1. Good(flow, db) /\ over \in InstState /\ (wk' = b \/ UNCHANGED kernel)
  BY DEF CancelProcess, Save, TInv, InstState
<1>2. Good(flow, c) /\ Comes(flow, db, c)
  BY <1>1, ClearedIs, ClearedComes
<1> HIDE DEF c, over
<1>3. b.token = c.token
  BY <1>1, <1>2, InstGood
<1> HIDE DEF b
<1> QED
  BY <1>1, <1>2, <1>3, SameComes, ComesTrans

LEMMA SuspendComes ==
  ASSUME TInv, SuspendProcess \/ ResumeProcess
  PROVE  Comes(flow, db, wk')
<1>1. PICK inst \in {"Active", "Suspended"} : wk' = [db EXCEPT !.inst = inst]
  BY DEF SuspendProcess, ResumeProcess, Save, Begin
<1>2. Good(flow, db) /\ inst \in InstState
  BY DEF TInv, InstState
<1>3. wk'.token = db.token
  BY <1>1, <1>2, InstGood
<1> QED
  BY <1>3, SameComes

LEMMA RetryIncidentComes ==
  ASSUME TInv, RetryIncident
  PROVE  Comes(flow, db, wk')
<1> DEFINE those == Tokens(db, {"Incident"})
           active == "Active"
           here == [t \in TokenId |->
                IF db.token[t].state = "Incident" THEN [db.token[t] EXCEPT !.state = "Active"]
                ELSE db.token[t]]
           same == [t \in TokenId |->
                IF t \in those THEN [db.token[t] EXCEPT !.state = active] ELSE db.token[t]]
           b == [db EXCEPT !.token = [t \in TokenId |->
                   IF t \in those THEN [@[t] EXCEPT !.state = active] ELSE @[t]]]
<1>1. here = same
  BY DEF Tokens
<1>2. wk' = [db EXCEPT !.token = here]
  BY DEF RetryIncident, Begin
<1>3. b = [db EXCEPT !.token = same]
  OBVIOUS
<1>4. wk' = b
  <2> HIDE DEF here, same, b
  <2> QED
    BY <1>1, <1>2, <1>3
<1>5. Good(flow, db)
  BY DEF TInv
<1> HIDE DEF those, active
<1> QED
  BY <1>4, <1>5, RestateComes

LEMMA SubflowIncidentComes ==
  ASSUME TInv, NEW n, SubflowIncident(n)
  PROVE  Comes(flow, db, wk')
<1> DEFINE those == {t \in Tokens(db, {"WaitingSubflow"}) : db.token[t].node = n}
           incident == "Incident"
<1>1. wk' = [db EXCEPT !.token = [t \in TokenId |->
               IF t \in those THEN [@[t] EXCEPT !.state = incident] ELSE @[t]]]
  BY DEF SubflowIncident, Save
<1>2. Good(flow, db)
  BY DEF TInv
<1> HIDE DEF those, incident
<1> QED
  BY <1>1, <1>2, RestateComes

LEMMA StartProcessComes ==
  ASSUME TInv, Direct(flow), StartProcess
  PROVE  Comes(flow, db, wk')
<1> DEFINE x == [state |-> "Active", node |-> Def[flow].start, via |-> ""]
           b == [Absent EXCEPT !.inst = "Active", !.token[1] = x]
<1>1. wk' = b /\ flow \in Flow
  BY DEF StartProcess, TInv, Begin
<1>2. CameIn(flow, x) /\ CameIn(flow, NoToken)
  BY <1>1, NodesAssumption DEF CameIn, Direct, NoToken, Joins, OfKind
<1> HIDE DEF x
<1>3. \A t \in TokenId : b.token[t] = IF t = 1 THEN x ELSE NoToken
  BY DEF Absent
<1> HIDE DEF b
<1> QED
  BY <1>1, <1>2, <1>3 DEF Comes

LEMMA CorrelateMessageComes ==
  ASSUME TInv, Direct(flow), NEW t \in TokenId, NEW catch \in OfKind(flow, "messageCatch"),
         CorrelateMessage(t, catch)
  PROVE  Comes(flow, db, wk')
<1>1. Good(flow, db) /\ flow \in Flow /\ db \in Aggregate(flow)
  BY GoodIs DEF TInv
<1>2. catch \in Predecessors(flow, FirstOut(flow, catch)) /\ Out(flow, catch) # <<>>
  BY <1>1, FirstWay DEF OfKind
<1>3. CASE db.token[t].node = catch /\ wk' = Place(db, t, FirstOut(flow, catch))
  BY <1>1, <1>2, <1>3, PlaceComes
<1>4. CASE /\ db.token[t].state = "WaitingEventGateway"
           /\ catch \in Targets(flow, db.token[t].node)
           /\ wk' = Place(DropTimers(db, t), t, FirstOut(flow, catch))
  <2> DEFINE c == DropTimers(db, t)
  <2>1. db.token[t].node \in OfKind(flow, "eventGateway")
    BY <1>1, <1>4, GoodIs DEF Placed, RestsAt, Lives, OfKind
  <2>2. FirstOut(flow, catch) \notin Joins(flow)
    BY <1>2, <1>4, <2>1 DEF Direct
  <2>3. Good(flow, c) /\ c.token = db.token
    BY <1>1, DropTimersGood, DropTimersIs DEF OtherTimers
  <2> HIDE DEF c
  <2>4. Comes(flow, c, Place(c, t, FirstOut(flow, catch)))
    BY <2>2, <2>3, PlaceComes, GoodIs
  <2> QED
    BY <1>4, <2>3, <2>4, SameComes, ComesTrans DEF c
<1> QED
  BY <1>3, <1>4 DEF CorrelateMessage, Begin

\* A call brings tokens to joins over their flows, if at all.
LEMMA CallComes ==
  ASSUME TInv, Kept(flow, db), Direct(flow), op = Idle, [Next]_vars
  PROVE  Comes(flow, db, wk') \/ UNCHANGED kernel
<1>1. CASE UNCHANGED vars
  BY <1>1 DEF vars, kernel
<1>2. ASSUME NEW t \in TokenId, NEW state, wk' = Halt(db, t, state)
      PROVE  Comes(flow, db, wk')
  BY <1>2, HaltWalks, WalksComes, GoodIs DEF TInv
<1>3. CASE Run \/ RunExpand \/ Commit \/ Discard \/ RunTimers \/ \E j \in wk.timer : FireTimer(j)
  <2>1. op.name = "idle"
    BY DEF Idle
  <2> QED
    BY <1>3, <2>1 DEF Run, RunExpand, Commit, Discard, RunTimers, FireTimer, Step, Settled, Running,
       Expand, PassThrough, End, TerminateEnd, ExclusiveGateway, ParkAsync, ServiceTask,
       ParallelFork, ParallelJoin, InclusiveFork, InclusiveJoin, EnterUserTask,
       EnterMultiInstance, ParkSubflow, ParkMessage, ParkTimer, ParkEventGateway, Visit
<1>4. CASE BeginTimers
  BY <1>4, SameComes DEF BeginTimers, Begin
<1>5. ASSUME NEW r \in asyncJob, CompleteAsync(r) \/ FailAsync(r)
      PROVE  Comes(flow, db, wk') \/ UNCHANGED kernel
  <2>1. r.token \in TokenId
    BY DEF TInv, ServiceJob
  <2> QED
    BY <1>2, <1>5, <2>1, AnsweredComes DEF CompleteAsync, FailAsync, Save
<1>6. ASSUME NEW r \in deadLetter, RetryDeadLetter(r)
      PROVE  Comes(flow, db, wk') \/ UNCHANGED kernel
  <2>1. r.token \in TokenId
    BY DEF TInv, ServiceJob
  <2> QED
    BY <1>2, <1>6, <2>1 DEF RetryDeadLetter, Save
<1>7. ASSUME NEW t \in TokenId, SubflowDone(t)
      PROVE  Comes(flow, db, wk')
  BY <1>7, AnsweredComes DEF SubflowDone, Begin
<1>8. CASE Next
  BY <1>3, <1>4, <1>5, <1>6, <1>7, <1>8, StartProcessComes, CompleteTaskComes, AddSignComes,
     RejectTaskComes, JumpToComes, WithdrawProcessComes, CancelProcessComes, SuspendComes,
     RetryIncidentComes, CorrelateMessageComes, SubflowIncidentComes DEF Next
<1> QED
  BY <1>1, <1>8

\* During a call whoever leaves a join does so for a token over each flow.
LEMMA RunTurns ==
  ASSUME TInv, Kept(flow, wk), AllCame(flow, wk), OnePerFlow, Direct(flow),
         op # Idle, op' # Idle, [Next]_vars
  PROVE  Turns(flow, wk, wk')
<1>1. op.name # "idle"
  BY IdleIs
<1>2. ASSUME wk' = wk PROVE Turns(flow, wk, wk')
  BY <1>2, WalksTurns DEF Walks, Stays
<1>3. CASE UNCHANGED vars \/ RunTimers
  BY <1>2, <1>3 DEF vars, kernel, RunTimers
<1>4. CASE Run \/ RunExpand \/ \E j \in wk.timer : FireTimer(j)
  BY <1>4, StepTurns, ExpandTurns, FireTimerTurns DEF Run, RunExpand
<1>5. CASE Commit \/ Discard
  BY <1>5 DEF Commit, Discard
<1>6. \A call : ~May(call)
  BY DEF May
<1>7. ~StartProcess
  BY DEF StartProcess
<1>8. \A k \in TaskId : ~CompleteTask(k) /\ ~AddSign(k)
  BY <1>6 DEF CompleteTask, AddSign
<1>9. \A k \in TaskId, n \in OfKind(flow, "userTask") : ~RejectTask(k, n)
  BY <1>6, <1>8 DEF RejectTask
<1>10. \A t \in TokenId, n \in OfKind(flow, "userTask") : ~JumpTo(t, n)
  BY <1>6 DEF JumpTo
<1>11. \A n \in FirstUserTasks[flow] : ~WithdrawProcess(n)
  BY <1>6 DEF WithdrawProcess
<1>12. ~CancelProcess /\ ~SuspendProcess /\ ~ResumeProcess /\ ~RetryIncident /\ ~BeginTimers
  BY <1>6 DEF CancelProcess, SuspendProcess, ResumeProcess, RetryIncident, BeginTimers
<1>13. \A t \in TokenId, n \in OfKind(flow, "messageCatch") : ~CorrelateMessage(t, n)
  BY <1>6 DEF CorrelateMessage
<1>14. \A r \in asyncJob : ~CompleteAsync(r) /\ ~FailAsync(r)
  BY <1>6 DEF CompleteAsync, FailAsync
<1>15. \A r \in deadLetter : ~RetryDeadLetter(r)
  BY <1>6 DEF RetryDeadLetter
<1>16. \A t \in TokenId : ~SubflowDone(t)
  BY <1>6 DEF SubflowDone
<1>17. \A n \in OfKind(flow, "callActivity") : ~SubflowIncident(n)
  BY <1>6 DEF SubflowIncident
<1> QED
  BY <1>3, <1>4, <1>5, <1>7, <1>8, <1>9, <1>10, <1>11, <1>12, <1>13, <1>14, <1>15, <1>16, <1>17
     DEF Next

-----------------------------------------------------------------------------
(* The invariant of the joins: their tokens came over their flows. *)

JInv == AllCame(flow, db) /\ AllCame(flow, wk)

LEMMA InitJInv == Init => JInv
<1> SUFFICES ASSUME Init PROVE JInv
  OBVIOUS
<1>1. db = Absent /\ wk = Absent /\ flow \in Flow
  BY DEF Init
<1>2. CameIn(flow, NoToken)
  BY <1>1, NodesAssumption DEF CameIn, NoToken, Joins, OfKind
<1>3. \A t \in TokenId : Absent.token[t] = NoToken
  BY DEF Absent
<1> QED
  BY <1>1, <1>2, <1>3 DEF JInv, AllCame

LEMMA KeepsJInv ==
  ASSUME TInv, KInv, JInv, Careful(flow), Direct(flow), OnePerFlow, Moves, [Next]_vars
  PROVE  JInv'
<1>1. /\ flow \in Flow /\ Good(flow, wk) /\ Kept(flow, wk) /\ Kept(flow, db) /\ flow' = flow
      /\ AllCame(flow, wk) /\ AllCame(flow, db)
  BY DEF TInv, KInv, JInv, Moves
<1>2. ASSUME AllCame(flow, db'), AllCame(flow, wk') PROVE JInv'
  BY <1>1, <1>2 DEF JInv, AllCame, CameIn, Joins
<1>3. CASE op # Idle /\ op' # Idle /\ db' = db
  <2>1. PICK open : Walks(flow, wk, wk', open)
    BY <1>1, <1>3, RunTurns DEF Turns
  <2> QED
    BY <1>1, <1>2, <1>3, <2>1, WalksCame
<1>4. CASE op = Idle /\ (db' = db \/ db' = wk')
  <2>1. CASE Comes(flow, db, wk')
    BY <1>1, <1>2, <1>4, <2>1, ComesCame
  <2>2. CASE UNCHANGED kernel
    BY <1>1, <1>2, <2>2 DEF kernel
  <2> QED
    BY <1>1, <1>4, <2>1, <2>2, CallComes
<1>5. CASE db' = Concluded(wk) /\ wk' = Concluded(wk)
  <2> DEFINE b == Concluded(wk)
  <2>1. b.token = wk.token
    BY <1>1, ConcludedIs
  <2> HIDE DEF b
  <2>2. AllCame(flow, b)
    BY <1>1, <2>1 DEF AllCame
  <2> QED
    BY <1>2, <1>5, <2>2 DEF b
<1>6. CASE db' = db /\ (wk' = wk \/ wk' = db)
  BY <1>1, <1>2, <1>6
<1> QED
  BY <1>3, <1>4, <1>5, <1>6 DEF Moves

LEMMA JoinInvariant == Spec /\ [](Careful(flow) /\ Direct(flow) /\ OnePerFlow) => []JInv
<1>1. EInv /\ JInv /\ Careful(flow) /\ Direct(flow) /\ OnePerFlow /\ [Next]_vars => JInv'
  BY NextEInv, KeepsJInv DEF EInv
<1> QED
  BY <1>1, InitJInv, EngineInvariant, PTL DEF Spec

\* A parallel join lets a token through only for one token over each of its
\* flows ("等入边令牌到齐"), although the code counts the tokens that are there
\* and not the flows they came over: they came over its flows (JInv), over
\* different ones (OnePerFlow), and there are as many as flows (EachFlow).
THEOREM JoinsFill ==
  Spec /\ [](Careful(flow) /\ Direct(flow) /\ OnePerFlow) => JoinsComplete
<1> DEFINE Goes(n) ==
      LET used == {u \in Tokens(wk, {"Joining", "Active"}) :
                     wk.token[u].node = n /\ wk'.token[u] # wk.token[u]}
      IN  /\ op.name # "idle" /\ op'.name # "idle"
          /\ InDegree(flow, n) > 1
          /\ \E u \in used : wk'.token[u].via = n
          => Predecessors(flow, n) \subseteq {wk.token[u].via : u \in used}
<1>1. ASSUME EInv, JInv, Careful(flow), Direct(flow), OnePerFlow, EInv', [Next]_vars,
             NEW n \in OfKind(flow, "parallel")
      PROVE  Goes(n)
  <2> DEFINE used == {u \in Tokens(wk, {"Joining", "Active"}) :
                        wk.token[u].node = n /\ wk'.token[u] # wk.token[u]}
  <2> SUFFICES ASSUME op.name # "idle", op'.name # "idle", InDegree(flow, n) > 1,
                      NEW u \in used, wk'.token[u].via = n
               PROVE  Predecessors(flow, n) \subseteq {wk.token[v].via : v \in used}
    OBVIOUS
  <2>1. op # Idle /\ op' # Idle
    BY DEF Idle
  <2>2. Kept(flow, wk) /\ AllCame(flow, wk)
    BY <1>1 DEF EInv, KInv, JInv
  <2>3. PICK open : Walks(flow, wk, wk', open) /\ \A m \in open : Gathered(flow, wk, wk', m)
    BY <1>1, <2>1, <2>2, RunTurns DEF Turns, EInv
  <2>4. /\ u \in TokenId /\ wk.token[u].node = n
        /\ AtJoin(flow, wk.token[u]) /\ n \in Joins(flow)
    BY DEF Tokens, AtJoin, Joins
  <2>5. n \notin Predecessors(flow, n)
    BY <1>1, <2>4 DEF Direct
  <2>6. ~Stays(wk.token[u], wk'.token[u])
    BY <2>2, <2>4, <2>5 DEF Stays, AllCame, CameIn
  <2>7. n \in open
    BY <2>3, <2>4, <2>6 DEF Walks
  <2> QED
    BY <2>3, <2>7 DEF Gathered
<1>2. ASSUME EInv, JInv, Careful(flow), Direct(flow), OnePerFlow, EInv', [Next]_vars
      PROVE  [\A n \in OfKind(flow, "parallel") : Goes(n)]_vars
  BY <1>1, <1>2
<1> QED
  BY <1>2, EngineInvariant, JoinInvariant, PTL DEF Spec, JoinsComplete
=============================================================================
