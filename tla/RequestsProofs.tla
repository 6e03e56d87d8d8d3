---------------------------- MODULE RequestsProofs ----------------------------
(***************************************************************************)
(* Proofs about Requests, for every number of clients, tasks, requests and *)
(* faults.                                                                 *)
(***************************************************************************)
EXTENDS Requests, Integers, TLAPS

-----------------------------------------------------------------------------
(* The inductive invariant.                                                *)

Op == {"none", "start", "complete", "reject", "set", "reassign", "withdraw", "cancel"}
Step == {"none", "commit", "record", "link", "compensate", "instance", "tasks",
         "reread", "rest"}
Request == [op : Op, at : Step, task : Task \cup {None}, value : Value \cup {None},
            link : BOOLEAN, before : Snapshot \cup {<<>>}, opened : SUBSET Task]
Row == [old : Value \cup {None}, new : Value]

Typed ==
  /\ inst \in {"none", "running", "completed", "terminated"}
  /\ open \in SUBSET Task /\ next \in 1 .. MaxTask + 1
  /\ value \in Value \cup {None}
  /\ history \in Seq(Row)
  /\ created \in [Task -> 0 .. 2]
  /\ req \in [Client -> Request]
  /\ faults \in Nat

\* The steps a request goes through.
Stage(c) ==
  /\ req[c].op = "none" => req[c] = Idle
  /\ req[c].op = "start" => req[c].at \in {"commit", "record", "link", "compensate",
                                           "instance", "tasks"}
  /\ req[c].op = "complete" => req[c].at \in {"commit", "record", "reread", "rest"}
  /\ req[c].op \in {"reject", "set"} => req[c].at \in {"commit", "record"}
  /\ req[c].op \in {"reassign", "withdraw"} => req[c].at \in {"commit", "tasks"}
  /\ req[c].op = "cancel" => req[c].at \in {"commit", "instance"}
Staged == \A c \in Client : Stage(c)

\* Before the instance is there, and only then, its one start is to commit.
Born(c) ==
  /\ inst = "none" => req[c].op \in {"none", "start"}
  /\ req[c].op = "start" => (inst = "none" <=> req[c].at = "commit")
Unborn == inst = "none" => value = None /\ history = <<>> /\ ~asked
OneStart == \A c, d \in Client : req[c].op = "start" /\ req[d].op = "start" => c = d

\* Open tasks are of a running instance and have been numbered.
Placed ==
  /\ open \subseteq 1 .. next - 1 /\ owed \subseteq open
  /\ inst # "running" => open = {}
  /\ ended # "none" => ended \in {"completed", "terminated", "atStart"}
  /\ ended # "none" => inst = IF ended = "atStart" THEN "completed" ELSE ended
Numbered(c) ==
  /\ req[c].task # None => req[c].task \in 1 .. next - 1
  /\ req[c].op = "complete" => req[c].task # None
  /\ req[c].op = "complete" /\ req[c].at # "commit" => req[c].task \notin open
  /\ req[c].op = "withdraw" => req[c].task = None
Known == \A c \in Client : Born(c) /\ Numbered(c)

Base == Typed /\ Staged /\ Unborn /\ OneStart /\ Placed /\ Known

\* A start knows whether a link was asked for, and goes on once it is there.
Linking(c) ==
  req[c].op = "start" =>
    /\ req[c].at # "commit" => req[c].link = asked
    /\ req[c].at \in {"instance", "tasks"} => (asked => linked)
Linked == (\A c \in Client : Linking(c)) /\ NoOrphan

\* What the last row of the history left.
Left == IF history = <<>> THEN None ELSE history[Len(history)].new
Threaded ==
  /\ history # <<>> => history[1].old = None
  /\ \A i \in 2 .. Len(history) : history[i].old = history[i - 1].new
\* What a request that runs alone has read and is to record.
Recording(c) ==
  /\ req[c].op \in {"complete", "reject", "set"} /\ req[c].at = "commit" => Old(c) = value
  /\ req[c].op = "start" => Old(c) = None
  /\ req[c].op \in {"start", "set"} => req[c].value \in Value
  /\ req[c].at = "record" =>
       /\ Left = Old(c)
       /\ value = IF req[c].value = None THEN Old(c) ELSE req[c].value
       /\ req[c].op = "reject" => req[c].value = None
Chained ==
  /\ inst # "none" => value \in Value
  /\ clean => \A c, d \in Client : req[c].op # "none" /\ req[d].op # "none" => c = d
  /\ \A c \in Client : req[c].op \in {"start", "set"} => req[c].value \in Value
  /\ clean /\ faults = 0 =>
       /\ Threaded
       /\ (\A c \in Client : req[c].at # "record") => Left = value
       /\ \A c \in Client : Recording(c)

\* The announcements a request will still make.
Owes(c, t) ==
  \/ /\ req[c].op = "start" /\ req[c].at \in {"record", "link", "instance", "tasks"}
     /\ t \in req[c].opened
  \/ /\ req[c].op = "complete" /\ req[c].at \in {"record", "reread"}
  \/ /\ req[c].op = "complete" /\ req[c].at = "rest"
     /\ req[c].before.inst # "completed" /\ t \in req[c].before.open \ {req[c].task}
  \/ /\ req[c].op = "withdraw" /\ req[c].at = "tasks" /\ t \in req[c].opened
Ends(c) ==
  \/ ended = "terminated" /\ req[c].op = "cancel" /\ req[c].at = "instance"
  \/ /\ ended = "completed" /\ req[c].op = "complete"
     /\ \/ req[c].at \in {"record", "reread"}
        \/ req[c].at = "rest" /\ req[c].before.inst = "completed"
Announced ==
  faults = 0 =>
    /\ \A t \in owed : created[t] > 0 \/ t \in reassigned \/ \E c \in Client : Owes(c, t)
    /\ ended \in Kind => ended \in told \/ \E c \in Client : Ends(c)

IInv == Base /\ Linked /\ Chained /\ Announced

-----------------------------------------------------------------------------
(* How a request moves on.                                                 *)

LEMMA IdleType == Idle \in Request /\ Idle.op = "none" /\ Idle.at = "none"
BY DEF Idle, Request, Op, Step

\* Only the request of c changes.
Others(c) == \A d \in Client \ {c} : req'[d] = req[d]

LEMMA Returns ==
  ASSUME Typed, NEW c \in Client, Return(c)
  PROVE  /\ req' \in [Client -> Request] /\ Others(c)
         /\ req'[c] = Idle /\ req'[c].op = "none" /\ req'[c].at = "none"
         /\ req'[c].task = None
BY IdleType DEF Typed, Return, Others, Idle

\* What stays of a request that moves on.
Same(c) == /\ req'[c].op = req[c].op /\ req'[c].task = req[c].task
           /\ req'[c].value = req[c].value /\ req'[c].link = req[c].link

LEMMA Goes ==
  ASSUME Typed, NEW c \in Client, NEW at \in Step, Goto(c, at)
  PROVE  /\ req' \in [Client -> Request] /\ Others(c)
         /\ Same(c) /\ req'[c].at = at /\ req'[c].before = req[c].before
         /\ req'[c].opened = req[c].opened
BY DEF Typed, Goto, Others, Same, Request

LEMMA GoesOpening ==
  ASSUME Typed, NEW c \in Client, NEW at \in Step, NEW new \in SUBSET Task,
         req' = [req EXCEPT ![c].at = at, ![c].opened = new]
  PROVE  /\ req' \in [Client -> Request] /\ Others(c)
         /\ Same(c) /\ req'[c].at = at /\ req'[c].before = req[c].before
         /\ req'[c].opened = new
BY DEF Typed, Others, Same, Request

LEMMA GoesReading ==
  ASSUME Typed, NEW c \in Client, NEW at \in Step,
         req' = [req EXCEPT ![c].at = at, ![c].before = Now]
  PROVE  /\ req' \in [Client -> Request] /\ Others(c)
         /\ Same(c) /\ req'[c].at = at /\ req'[c].before = Now
         /\ req'[c].opened = req[c].opened
<1>1. Now \in Snapshot
  BY DEF Now, Snapshot, Typed
<1> QED
  BY <1>1 DEF Typed, Others, Same, Request

\* The tasks after the engine's answer.
LEMMA Advanced ==
  ASSUME Typed, NEW stay \in SUBSET open, open \subseteq 1 .. next - 1,
         NEW least \in {0, 1}, Advance(stay, least)
  PROVE  /\ next' \in 1 .. MaxTask + 1 /\ next <= next'
         /\ next' \in Nat /\ 1 <= next
         /\ stay \subseteq open' /\ open' \in SUBSET Task
         /\ open' \subseteq 1 .. next' - 1
         /\ open' \cap (1 .. next - 1) \subseteq stay
         /\ inst' \in {"running", "completed"}
         /\ inst' = "completed" => open' = {}
         /\ least = 1 => open' # {}
<1>1. PICK n \in least .. MaxOpened :
        /\ next + n <= MaxTask + 1
        /\ next' = next + n
        /\ open' = stay \cup (next .. next + n - 1)
        /\ inst' \in IF open' = {} THEN {"running", "completed"} ELSE {"running"}
  BY DEF Advance
<1>2. MaxTask \in Nat /\ MaxOpened \in Nat /\ next \in Nat
  BY RequestsAssumption DEF Typed
<1>3. n \in Nat /\ least <= n
  BY <1>1, <1>2
<1>4. next \in open' \/ least # 1
  BY <1>1, <1>2, <1>3
<1>5. /\ next' \in Nat /\ next <= next' /\ next' <= MaxTask + 1 /\ 1 <= next
      /\ next' = next + n
  BY <1>1, <1>2, <1>3 DEF Typed
<1>6. \A t \in next .. next + n - 1 :
        t \in Task /\ t \in 1 .. next' - 1 /\ t \notin 1 .. next - 1
  BY <1>2, <1>3, <1>5 DEF Task
<1>7. \A t \in 1 .. next - 1 : t \in 1 .. next' - 1
  BY <1>2, <1>3, <1>5
<1>8. stay \subseteq Task
  BY DEF Typed
<1> QED
  BY <1>1, <1>2, <1>4, <1>5, <1>6, <1>7, <1>8

LEMMA InitInv == Init => IInv
<1> SUFFICES ASSUME Init PROVE IInv
  OBVIOUS
<1>1. Typed
  <2>1. history \in Seq(Row)
    BY DEF Init
  <2> QED
    BY <2>1, IdleType, RequestsAssumption DEF Init, Typed
<1>2. \A c \in Client : req[c] = Idle /\ req[c].op = "none" /\ req[c].at = "none"
                        /\ req[c].task = None
  BY IdleType DEF Init, Idle
<1>3. Base
  BY <1>1, <1>2 DEF Base, Staged, Stage, Unborn, OneStart, Placed, Known, Born, Numbered, Init
<1>4. Linked /\ Announced
  BY <1>2 DEF Linked, Linking, NoOrphan, Announced, Kind, Init
<1>5. Chained
  <2>1. Left = None /\ Threaded
    BY DEF Init, Left, Threaded
  <2> QED
    BY <1>2, <2>1 DEF Chained, Recording, Init
<1> QED
  BY <1>3, <1>4, <1>5 DEF IInv

-----------------------------------------------------------------------------
(* Steps keep the base.                                                    *)

\* What makes the base out of what a step says of its own request.
LEMMA BaseMoves ==
  ASSUME Base, NEW c \in Client, Others(c),
         req'[c].op \in {req[c].op, "none"},
         Typed', Unborn', Placed', Stage(c)', Born(c)', Numbered(c)',
         next <= next', open' \cap (1 .. next - 1) \subseteq open,
         inst # inst' => inst' # "none",
         inst # inst' => inst # "none" \/ req[c].op = "start"
  PROVE  Base'
<1>1. Staged'
  BY DEF Base, Staged, Stage, Others
<1>2. OneStart'
  BY DEF Base, OneStart, Others
<1>3. ASSUME NEW d \in Client, d # c PROVE Born(d)' /\ Numbered(d)'
  <2>1. req'[d] = req[d] /\ Born(d) /\ Numbered(d)
    BY <1>3 DEF Base, Known, Others
  <2>2. Born(d)'
    BY <1>3, <2>1 DEF Base, Born, OneStart
  <2>3. Numbered(d)'
    BY <2>1 DEF Base, Numbered, Typed
  <2> QED
    BY <2>2, <2>3
<1> QED
  BY <1>1, <1>2, <1>3 DEF Base, Known

\* A request that has been read, before it commits.
LEMMA BeginBase ==
  ASSUME Base, NEW c \in Client, NEW r \in Request, Begin(c, r),
         r.op # "none", r.at = "commit",
         inst = "none" <=> r.op = "start",
         r.op = "start" => \A d \in Client : req[d].op # "start",
         r.task \in open \cup {None},
         r.op = "complete" => r.task # None, r.op = "withdraw" => r.task = None
  PROVE  Base'
<1>1. /\ req' = [req EXCEPT ![c] = r] /\ req[c] = Idle
      /\ UNCHANGED <<inst, open, next, value, history, created, faults, owed, ended, asked>>
  BY DEF Begin, data, events
<1>2. /\ req' \in [Client -> Request] /\ req'[c] = r /\ Others(c)
  BY <1>1 DEF Base, Typed, Others
<1>3. Typed' /\ Unborn' /\ Placed'
  BY <1>1, <1>2 DEF Base, Typed, Unborn, Placed
<1>4. Stage(c)' /\ Born(c)' /\ Numbered(c)'
  <2>1. r.task = None \/ r.task \in 1 .. next - 1
    BY DEF Base, Placed
  <2> QED
    BY <1>1, <1>2, <2>1 DEF Stage, Born, Numbered
<1>5. Staged'
  BY <1>2, <1>4 DEF Base, Staged, Stage, Others
<1>6. OneStart'
  BY <1>2 DEF Base, OneStart, Others
<1>7. Known'
  BY <1>1, <1>2, <1>4 DEF Base, Known, Born, Numbered, Others
<1> QED
  BY <1>3, <1>5, <1>6, <1>7 DEF Base

\* What each kind of request is when it begins.
Begun(c) == \E r \in Request :
  /\ Begin(c, r)
  /\ r.op # "none" /\ r.at = "commit"
  /\ inst = "none" <=> r.op = "start"
  /\ r.op = "start" => \A d \in Client : req[d].op # "start"
  /\ r.task \in open \cup {None}
  /\ r.op = "complete" => r.task # None
  /\ r.op = "withdraw" => r.task = None
  /\ r.op \in {"complete", "reject", "set"} => r.before = Now
  /\ r.op = "start" => r.before = <<>>
  /\ r.op \in {"start", "set"} => r.value \in Value
Begins(c) == Start(c) \/ Complete(c) \/ Reject(c) \/ SetVariables(c)
             \/ Reassign(c) \/ Withdraw(c) \/ Cancel(c)

LEMMA BeginsBegun ==
  ASSUME Base, NEW c \in Client, Begins(c)
  PROVE  Begun(c)
<1>1. /\ Now \in Snapshot /\ Now = [inst |-> inst, open |-> open, value |-> value]
      /\ open \subseteq Task /\ None \notin Task
      /\ open # {} => inst = "running"
  BY RequestsAssumption DEF Now, Snapshot, Base, Typed, Placed, Task
<1>2. CASE Start(c)
  <2>1. PICK v \in Value, link \in BOOLEAN :
          Begin(c, [Idle EXCEPT !.op = "start", !.at = "commit", !.value = v, !.link = link])
    BY <1>2 DEF Start
  <2> DEFINE r == [Idle EXCEPT !.op = "start", !.at = "commit", !.value = v, !.link = link]
  <2>2. /\ r \in Request /\ r.op = "start" /\ r.at = "commit" /\ r.task = None
        /\ r.before = <<>> /\ r.value = v
    BY DEF Idle, Request, Op, Step
  <2>3. \A d \in Client : req[d].op # "start"
    BY <1>2, IdleType DEF Start, Busy, Idle
  <2> HIDE DEF r
  <2> QED
    BY <1>2, <2>1, <2>2, <2>3 DEF Begun, Start, r
<1>3. ASSUME NEW op \in {"complete", "reject"}, OldValues(c, op)
      PROVE  Begun(c)
  <2>1. PICK t \in open, v \in Value \cup {None} :
          Begin(c, [Idle EXCEPT !.op = op, !.at = "commit", !.task = t,
                                !.value = v, !.before = Now])
    BY <1>3 DEF OldValues
  <2> DEFINE r == [Idle EXCEPT !.op = op, !.at = "commit", !.task = t,
                               !.value = v, !.before = Now]
  <2>2. /\ r \in Request /\ r.op = op /\ r.at = "commit" /\ r.task = t
        /\ r.before = Now /\ r.value = v
    BY <1>1 DEF Idle, Request, Op, Step
  <2>3. inst # "none" /\ t # None
    BY <1>1
  <2> HIDE DEF r
  <2> QED
    BY <2>1, <2>2, <2>3 DEF Begun, r
<1>4. CASE SetVariables(c)
  <2>1. PICK v \in Value :
          Begin(c, [Idle EXCEPT !.op = "set", !.at = "commit", !.value = v, !.before = Now])
    BY <1>4 DEF SetVariables
  <2> DEFINE r == [Idle EXCEPT !.op = "set", !.at = "commit", !.value = v, !.before = Now]
  <2>2. /\ r \in Request /\ r.op = "set" /\ r.at = "commit" /\ r.task = None
        /\ r.before = Now /\ r.value = v
    BY <1>1 DEF Idle, Request, Op, Step
  <2> HIDE DEF r
  <2> QED
    BY <1>4, <2>1, <2>2 DEF Begun, SetVariables, r
<1>5. ASSUME NEW t \in open,
             Begin(c, [Idle EXCEPT !.op = "reassign", !.at = "commit", !.task = t])
      PROVE  Begun(c)
  <2> DEFINE r == [Idle EXCEPT !.op = "reassign", !.at = "commit", !.task = t]
  <2>1. r \in Request /\ r.op = "reassign" /\ r.at = "commit" /\ r.task = t
    BY <1>1 DEF Idle, Request, Op, Step
  <2>2. inst # "none"
    BY <1>1
  <2> HIDE DEF r
  <2> QED
    BY <1>5, <2>1, <2>2 DEF Begun, r
<1>6. ASSUME NEW op \in {"withdraw", "cancel"}, inst # "none",
             Begin(c, [Idle EXCEPT !.op = op, !.at = "commit"])
      PROVE  Begun(c)
  <2> DEFINE r == [Idle EXCEPT !.op = op, !.at = "commit"]
  <2>1. r \in Request /\ r.op = op /\ r.at = "commit" /\ r.task = None
    BY DEF Idle, Request, Op, Step
  <2> HIDE DEF r
  <2> QED
    BY <1>6, <2>1 DEF Begun, r
<1>7. CASE Reassign(c)
  BY <1>1, <1>5, <1>7 DEF Reassign
<1>8. CASE Withdraw(c) \/ Cancel(c)
  BY <1>6, <1>8 DEF Withdraw, Cancel
<1> QED
  BY <1>2, <1>3, <1>4, <1>7, <1>8 DEF Begins, Complete, Reject

\* A step after the commit leaves what the engine wrote.
LEMMA AfterBase ==
  ASSUME Base, NEW c \in Client, req[c].op # "none", req[c].at # "commit",
         req' \in [Client -> Request], Others(c), Stage(c)',
         (Same(c) /\ req'[c].at # "commit") \/ req'[c] = Idle,
         UNCHANGED <<inst, open, next, value, owed, ended, asked>>,
         history' \in Seq(Row), created' \in [Task -> 0 .. 2], faults' \in Nat
  PROVE  Base'
<1>1. inst # "none" /\ next \in Nat
  BY DEF Base, Known, Born, Op, Typed, Request
<1>2. Typed' /\ Unborn' /\ Placed'
  BY <1>1 DEF Base, Typed, Unborn, Placed
<1>3. Born(c)' /\ Numbered(c)' /\ req'[c].op \in {req[c].op, "none"}
  BY <1>1, IdleType DEF Base, Known, Born, Numbered, Same, Idle
<1> QED
  BY <1>1, <1>2, <1>3, BaseMoves

LEMMA PublishTyped ==
  ASSUME Typed, NEW tasks
  PROVE  /\ Quiet \/ Fault => faults' \in Nat
         /\ AnnounceCreated(tasks) \/ UNCHANGED created => created' \in [Task -> 0 .. 2]
BY DEF Typed, Quiet, Fault, AnnounceCreated

\* No request ends before the steps of its kind.
LEMMA AtSome ==
  ASSUME Base, NEW c \in Client, req[c].at # "none"
  PROVE  req[c].op # "none"
BY IdleType DEF Base, Staged, Stage

LEMMA CommitBase ==
  ASSUME Base, NEW c \in Client,
         \/ CommitStart(c) \/ CommitTask(c) \/ CommitVariables(c)
         \/ CommitReassign(c) \/ CommitWithdraw(c) \/ CommitCancel(c)
  PROVE  Base'
<1> USE DEF Base, Known
<1>0. next \in Nat /\ open \subseteq 1 .. next - 1 /\ Stage(c) /\ Born(c) /\ Numbered(c)
  BY DEF Typed, Placed, Staged
<1>1. CASE CommitStart(c)
  <2>1. /\ req[c].op = "start" /\ req[c].at = "commit" /\ inst = "none" /\ open = {}
        /\ Advance({}, 0) /\ value' = req[c].value
        /\ req' = [req EXCEPT ![c].at = "record", ![c].opened = open']
        /\ owed' = open' /\ UNCHANGED <<history, created, faults>>
        /\ ended' = IF inst' = "completed" THEN "atStart" ELSE ended
    BY <1>1 DEF CommitStart, At, Quiet, events, Born, Placed
  <2>2. /\ next' \in 1 .. MaxTask + 1 /\ next <= next' /\ next' \in Nat /\ 1 <= next
        /\ open' \in SUBSET Task
        /\ open' \subseteq 1 .. next' - 1 /\ open' \cap (1 .. next - 1) = {}
        /\ inst' \in {"running", "completed"}
        /\ inst' = "completed" => open' = {}
    BY <1>0, <2>1, Advanced
  <2>3. /\ req' \in [Client -> Request] /\ Others(c) /\ Same(c) /\ req'[c].at = "record"
    BY <2>1, <2>2, GoesOpening DEF Step
  <2>4. Typed'
    BY <2>1, <2>2, <2>3 DEF Typed, Request
  <2>5. Unborn' /\ Placed' /\ Stage(c)' /\ Born(c)' /\ Numbered(c)'
    BY <1>0, <2>1, <2>2, <2>3 DEF Unborn, Placed, Stage, Born, Numbered, Same
  <2> QED
    BY <1>0, <2>1, <2>2, <2>3, <2>4, <2>5, BaseMoves DEF Same
<1>2. CASE CommitTask(c)
  <2>0. PICK least \in {0, 1} :
          /\ least = IF req[c].op = "reject" THEN 1 ELSE 0
          /\ Advance(open \ {req[c].task}, least)
    BY <1>2 DEF CommitTask
  <2>1. /\ req[c].op \in {"complete", "reject"} /\ req[c].at = "commit"
        /\ inst = "running" /\ req[c].task \in open
        /\ value' = Kept(req[c].value) /\ Goto(c, "record")
        /\ owed' = (owed \cap open') \cup (IF req[c].op = "complete" THEN Opened ELSE {})
        /\ ended' = IF inst' = "completed" THEN "completed" ELSE ended
        /\ UNCHANGED <<history, created, faults, asked>>
    BY <1>2 DEF CommitTask, At, Quiet, events
  <2>2. /\ next' \in 1 .. MaxTask + 1 /\ next <= next' /\ next' \in Nat /\ 1 <= next
        /\ open' \in SUBSET Task /\ open' \subseteq 1 .. next' - 1
        /\ open' \cap (1 .. next - 1) \subseteq open \ {req[c].task}
        /\ inst' \in {"running", "completed"}
        /\ inst' = "completed" => open' = {}
    BY <1>0, <2>0, Advanced
  <2>t. req[c].task \in 1 .. next - 1
    BY <1>0, <2>1
  <2>3. /\ req' \in [Client -> Request] /\ Others(c) /\ Same(c) /\ req'[c].at = "record"
    BY <2>1, Goes DEF Step
  <2>4. Typed'
    <3>1. value' \in Value \cup {None}
      BY <2>1 DEF Typed, Request, Kept
    <3> QED
      BY <2>1, <2>2, <2>3, <3>1 DEF Typed
  <2>5. /\ owed' \subseteq open' /\ open' \subseteq 1 .. next' - 1
        /\ req[c].task \notin open'
    BY <2>1, <2>2, <2>t DEF Opened
  <2>6. Unborn' /\ Placed' /\ Stage(c)' /\ Born(c)' /\ Numbered(c)'
    <3>1. req[c].task \in 1 .. next' - 1
      BY <1>0, <2>2, <2>t
    <3> QED
      BY <1>0, <2>1, <2>2, <2>3, <2>5, <3>1 DEF Unborn, Placed, Stage, Born, Numbered, Same
  <2>7. open' \cap (1 .. next - 1) \subseteq open
    BY <2>2
  <2> QED
    BY <2>1, <2>2, <2>3, <2>4, <2>6, <2>7, BaseMoves DEF Same
<1>3. CASE CommitVariables(c) \/ CommitReassign(c)
  <2>1. PICK at \in {"record", "tasks"} :
          /\ req[c].op = IF at = "record" THEN "set" ELSE "reassign"
          /\ Goto(c, at) /\ value' \in {value, req[c].value}
          /\ UNCHANGED <<inst, open, next, history, created, faults, owed, ended, asked>>
    BY <1>3 DEF CommitVariables, CommitReassign, At, Quiet, data, events, ghosts
  <2>2. /\ req' \in [Client -> Request] /\ Others(c) /\ Same(c) /\ req'[c].at = at
    BY <2>1, Goes DEF Step
  <2>3. Typed'
    BY <2>1, <2>2 DEF Typed, Request
  <2>4. Unborn' /\ Placed' /\ Stage(c)' /\ Born(c)' /\ Numbered(c)'
    BY <1>0, <2>1, <2>2 DEF Unborn, Placed, Stage, Born, Numbered, Same
  <2> QED
    BY <1>0, <2>1, <2>2, <2>3, <2>4, BaseMoves DEF Same
<1>4. CASE CommitWithdraw(c)
  <2>1. /\ req[c].op = "withdraw" /\ inst = "running" /\ next <= MaxTask
        /\ open' = {next} /\ next' = next + 1
        /\ req' = [req EXCEPT ![c].at = "tasks", ![c].opened = open']
        /\ owed' = open'
        /\ UNCHANGED <<inst, value, history, created, faults, ended, asked>>
    BY <1>4 DEF CommitWithdraw, At, Quiet, events
  <2>2. open' \in SUBSET Task /\ next' \in 1 .. MaxTask + 1
    BY <1>0, <2>1, RequestsAssumption DEF Typed, Task
  <2>3. /\ req' \in [Client -> Request] /\ Others(c) /\ Same(c) /\ req'[c].at = "tasks"
    BY <2>1, <2>2, GoesOpening DEF Step
  <2>4. Typed'
    BY <2>1, <2>2, <2>3 DEF Typed
  <2>5. Unborn' /\ Placed' /\ Stage(c)' /\ Born(c)' /\ Numbered(c)'
    BY <1>0, <2>1, <2>2, <2>3 DEF Unborn, Placed, Stage, Born, Numbered, Same, Typed
  <2> QED
    BY <1>0, <2>1, <2>2, <2>3, <2>4, <2>5, BaseMoves DEF Same
<1>5. CASE CommitCancel(c)
  <2>1. /\ req[c].op = "cancel" /\ inst # "none" /\ Goto(c, "instance")
        /\ IF inst = "running"
             THEN /\ inst' = "terminated" /\ open' = {} /\ owed' = {}
                  /\ ended' = "terminated"
             ELSE UNCHANGED <<inst, open, owed, ended>>
        /\ UNCHANGED <<next, value, history, created, faults, asked>>
    BY <1>0, <1>5 DEF CommitCancel, At, Quiet, events, Born
  <2>2. /\ req' \in [Client -> Request] /\ Others(c) /\ Same(c) /\ req'[c].at = "instance"
    BY <2>1, Goes DEF Step
  <2>3. Typed'
    BY <2>1, <2>2 DEF Typed
  <2>4. Unborn' /\ Placed' /\ Stage(c)' /\ Born(c)' /\ Numbered(c)'
    BY <1>0, <2>1, <2>2 DEF Unborn, Placed, Stage, Born, Numbered, Same
  <2> QED
    BY <1>0, <2>1, <2>2, <2>3, <2>4, BaseMoves DEF Same
<1> QED
  BY <1>1, <1>2, <1>3, <1>4, <1>5

\* A request ends and leaves what there is.
LEMMA ReturnBase ==
  ASSUME Base, NEW c \in Client, Refused(c) \/ Crash(c)
  PROVE  Base'
<1> USE DEF Base
<1>1. /\ Return(c) /\ faults' \in Nat
      /\ UNCHANGED <<inst, open, next, value, history, created, owed, ended, asked>>
  BY DEF Refused, Crash, Fault, Quiet, data, events, ghosts, Typed
<1>2. /\ req' \in [Client -> Request] /\ Others(c) /\ req'[c] = Idle
      /\ req'[c].op = "none" /\ req'[c].task = None
  BY <1>1, Returns
<1>3. Typed' /\ Unborn' /\ Placed' /\ next \in Nat
  BY <1>1, <1>2 DEF Typed, Unborn, Placed
<1>4. Stage(c)' /\ Born(c)' /\ Numbered(c)'
  BY <1>1, <1>2 DEF Stage, Born, Numbered
<1> QED
  BY <1>1, <1>2, <1>3, <1>4, BaseMoves

LEMMA RecordBase ==
  ASSUME Base, NEW c \in Client, Record(c) \/ Link(c)
  PROVE  Base'
<1>0. Typed /\ Stage(c) /\ req[c].op # "none"
  BY AtSome DEF Base, Staged, Record, Link, At
<1>1. PICK at \in Step : Goto(c, at) \/ Return(c)
  BY DEF Record, Link, AfterRecord, Step
<1>2. /\ UNCHANGED <<inst, open, next, value, owed, ended, asked, created>>
      /\ faults' \in Nat
  BY <1>0 DEF Record, Link, Fault, Quiet, data, events, ghosts, Typed
<1>3. history' \in Seq(Row)
  <2>1. Changed(c) \in Seq(Row)
    <3>1. req[c] \in Request
      BY <1>0 DEF Typed
    <3>2. Old(c) \in Value \cup {None}
      <4>1. req[c].before # <<>> => req[c].before \in Snapshot
        BY <3>1 DEF Request
      <4> QED
        BY <4>1 DEF Old, Snapshot
    <3>3. req[c].value # None => [old |-> Old(c), new |-> req[c].value] \in Row
      BY <3>1, <3>2 DEF Request, Row
    <3>4. CASE req[c].value = None \/ req[c].value = Old(c)
      <4>1. Changed(c) = <<>>
        BY <3>4 DEF Changed
      <4> QED
        BY <4>1
    <3>5. CASE ~(req[c].value = None \/ req[c].value = Old(c))
      <4>1. Changed(c) = <<[old |-> Old(c), new |-> req[c].value]>>
        BY <3>5, Zenon DEF Changed
      <4> QED
        BY <3>3, <3>5, <4>1
    <3> QED
      BY <3>4, <3>5
  <2>2. history \o Changed(c) \in Seq(Row)
    BY <1>0, <2>1 DEF Typed
  <2> QED
    BY <1>0, <2>2 DEF Record, Link, Typed
<1>4. Stage(c)' /\ ((Same(c) /\ req'[c].at # "commit") \/ req'[c] = Idle)
      /\ req' \in [Client -> Request] /\ Others(c)
  <2>1. CASE Return(c)
    BY <1>0, <2>1, Returns DEF Stage
  <2>2. CASE Record(c) /\ ~Return(c)
    <3>1. \E to \in {"link", "instance", "reread"} :
            /\ Goto(c, to)
            /\ req[c].op = IF to = "reread" THEN "complete" ELSE "start"
      BY <2>2 DEF Record, AfterRecord
    <3> QED
      BY <1>0, <3>1, Goes DEF Stage, Step, Same
  <2>3. CASE Link(c)
    <3>1. \E to \in {"instance", "compensate"} : Goto(c, to) /\ req[c].op = "start"
      BY <2>3 DEF Link, At
    <3> QED
      BY <1>0, <3>1, Goes DEF Stage, Step, Same
  <2> QED
    BY <2>1, <2>2, <2>3
<1>5. req[c].at # "commit" /\ created' \in [Task -> 0 .. 2]
  BY <1>0, <1>2 DEF Record, Link, At, Typed
<1> QED
  BY <1>0, <1>2, <1>3, <1>4, <1>5, AfterBase

LEMMA CompensateBase ==
  ASSUME Base, NEW c \in Client, Compensate(c)
  PROVE  Base'
<1> USE DEF Base
<1>1. /\ Return(c) /\ req[c].op = "start" /\ req[c].at = "compensate"
      /\ Terminate \/ UNCHANGED <<inst, open, owed>>
      /\ UNCHANGED <<next, value, history, created, faults, ended, asked>>
  BY DEF Compensate, At, Quiet, events
<1>2. /\ req' \in [Client -> Request] /\ Others(c) /\ req'[c] = Idle
      /\ req'[c].op = "none" /\ req'[c].task = None
  BY <1>1, Returns
<1>3. inst # "none" /\ inst' # "none" /\ open' \subseteq open /\ owed' \subseteq open'
      /\ (inst' # "running" => open' = {}) /\ (ended # "none" => inst' = inst)
  BY <1>1 DEF Known, Born, Terminate, Placed
<1>4. Typed' /\ Unborn' /\ Placed' /\ next \in Nat
  BY <1>1, <1>2, <1>3 DEF Typed, Unborn, Placed, Terminate
<1>5. Stage(c)' /\ Born(c)' /\ Numbered(c)'
  BY <1>1, <1>2, <1>3 DEF Stage, Born, Numbered
<1> QED
  BY <1>1, <1>2, <1>3, <1>4, <1>5, BaseMoves

LEMMA EventBase ==
  ASSUME Base, NEW c \in Client,
         InstanceEvent(c) \/ TaskEvents(c) \/ CompletedEvent(c) \/ RestEvents(c)
  PROVE  Base'
<1>0. Typed /\ Stage(c) /\ req[c].op # "none" /\ req[c].at # "commit"
  BY AtSome DEF Base, Staged, InstanceEvent, TaskEvents, CompletedEvent, RestEvents, At
<1>1. UNCHANGED <<inst, open, next, value, history, owed, ended, asked>>
  BY DEF InstanceEvent, TaskEvents, CompletedEvent, RestEvents, data, ghosts
<1>2. faults' \in Nat
  BY <1>0, PublishTyped
     DEF InstanceEvent, TaskEvents, CompletedEvent, RestEvents, Publish
<1>3. created' \in [Task -> 0 .. 2]
  BY <1>0, PublishTyped
     DEF InstanceEvent, TaskEvents, CompletedEvent, RestEvents, Publish, events
<1>4. Stage(c)' /\ ((Same(c) /\ req'[c].at # "commit") \/ req'[c] = Idle)
      /\ req' \in [Client -> Request] /\ Others(c)
  <2>1. CASE Return(c)
    BY <1>0, <2>1, Returns DEF Stage
  <2>2. CASE InstanceEvent(c) /\ ~Return(c)
    <3>1. Goto(c, "tasks") /\ req[c].op = "start"
      BY <2>2 DEF InstanceEvent
    <3> QED
      BY <1>0, <3>1, Goes DEF Stage, Step, Same
  <2>3. CASE CompletedEvent(c) /\ ~Return(c)
    <3>1. /\ req' = [req EXCEPT ![c].at = "rest", ![c].before = Now]
          /\ req[c].op = "complete"
      BY <2>3 DEF CompletedEvent, Reread, At
    <3> QED
      BY <1>0, <3>1, GoesReading DEF Stage, Step, Same
  <2> QED
    BY <2>1, <2>2, <2>3 DEF TaskEvents, RestEvents
<1>5. history' \in Seq(Row)
  BY <1>0, <1>1 DEF Typed
<1> QED
  BY <1>0, <1>1, <1>2, <1>3, <1>4, <1>5, AfterBase

\* Numbers stay numbers when there are more of them.
LEMMA Below ==
  ASSUME NEW n \in Nat, NEW m \in Nat, n <= m
  PROVE  \A t \in 1 .. n - 1 : t \in 1 .. m - 1
OBVIOUS

LEMMA EngineBase ==
  ASSUME Base, EngineAdvances
  PROVE  Base'
<1>1. PICK stay \in SUBSET open : Advance(stay, 0)
  BY DEF EngineAdvances
<1>2. /\ inst = "running" /\ owed' = owed \cap open'
      /\ UNCHANGED <<value, history, created, req, faults, ended, asked>>
  BY DEF EngineAdvances, events
<1>3. /\ next' \in 1 .. MaxTask + 1 /\ next <= next' /\ next' \in Nat
      /\ open' \in SUBSET Task /\ open' \subseteq 1 .. next' - 1
      /\ open' \cap (1 .. next - 1) \subseteq open
      /\ inst' \in {"running", "completed"}
      /\ inst' = "completed" => open' = {}
  BY <1>1, Advanced DEF Base, Placed
<1>4. Typed' /\ Unborn' /\ Staged' /\ OneStart'
  BY <1>2, <1>3 DEF Base, Typed, Unborn, Staged, Stage, OneStart
<1>5. Placed'
  BY <1>2, <1>3 DEF Base, Placed
<1>6. Known'
  <2>0. next \in Nat /\ next' \in Nat /\ next <= next'
    BY <1>3 DEF Base, Typed
  <2>1. \A t \in 1 .. next - 1 : t \in 1 .. next' - 1
    <3>1. PICK n \in Nat, m \in Nat : n = next /\ m = next'
      BY <2>0
    <3>2. n <= m
      BY <2>0, <3>1
    <3> QED
      BY <3>1, <3>2, Below
  <2> QED
    BY <1>2, <1>3, <2>1 DEF Base, Known, Born, Numbered
<1> QED
  BY <1>4, <1>5, <1>6 DEF Base

LEMMA BaseStep == Base /\ [Next]_vars => Base'
<1> SUFFICES ASSUME Base, [Next]_vars PROVE Base'
  OBVIOUS
<1>1. ASSUME NEW c \in Client, Begins(c) PROVE Base'
  BY <1>1, BeginsBegun, BeginBase DEF Begun
<1>2. ASSUME NEW c \in Client,
             \/ CommitStart(c) \/ CommitTask(c) \/ CommitVariables(c)
             \/ CommitReassign(c) \/ CommitWithdraw(c) \/ CommitCancel(c)
      PROVE  Base'
  BY <1>2, CommitBase
<1>3. ASSUME NEW c \in Client, Refused(c) \/ Crash(c) PROVE Base'
  BY <1>3, ReturnBase
<1>4. ASSUME NEW c \in Client, Record(c) \/ Link(c) PROVE Base'
  BY <1>4, RecordBase
<1>5. ASSUME NEW c \in Client, Compensate(c) PROVE Base'
  BY <1>5, CompensateBase
<1>6. ASSUME NEW c \in Client,
             InstanceEvent(c) \/ TaskEvents(c) \/ CompletedEvent(c) \/ RestEvents(c)
      PROVE  Base'
  BY <1>6, EventBase
<1>7. CASE UNCHANGED vars
  <2> USE DEF Base
  <2>1. UNCHANGED <<inst, open, next, value, history, created, req, faults, owed, ended, asked>>
    BY <1>7 DEF vars, data, events, ghosts
  <2> QED
    BY <2>1 DEF Typed, Staged, Stage, Unborn, OneStart, Placed, Known, Born, Numbered
<1> QED
  BY <1>1, <1>2, <1>3, <1>4, <1>5, <1>6, <1>7, EngineBase DEF Next, Begins

-----------------------------------------------------------------------------
(* The link.                                                               *)

\* A start on its way is a busy one.
LEMMA Starting ==
  ASSUME Base
  PROVE  (\E c \in Busy : req[c].op = "start") <=> (\E c \in Client : req[c].op = "start")
BY IdleType DEF Busy

LEMMA LinkedMoves ==
  ASSUME Base, Base', Linked, NEW c \in Client, Others(c),
         linked => linked', asked' = asked, orphaned => orphaned',
         inst' = "running" => inst = "running", Linking(c)',
         \/ req'[c].op = req[c].op
         \/ req[c].op # "start"
         \/ asked /\ inst' = "running" => linked' \/ orphaned'
  PROVE  Linked'
<1>1. \A d \in Client : Linking(d)'
  BY DEF Linked, Linking, Others
<1>2. NoOrphan'
  <2> SUFFICES ASSUME asked', inst' = "running", ~\E d \in Client : req'[d].op = "start",
                      ~linked', ~orphaned'
               PROVE  FALSE
    BY IdleType DEF NoOrphan, Busy
  <2>1. PICK d \in Client : req[d].op = "start"
    BY Starting DEF Linked, NoOrphan
  <2>2. d = c
    BY <2>1 DEF Others
  <2> QED
    BY <2>1, <2>2
<1> QED
  BY <1>1, <1>2 DEF Linked

LEMMA LinkedStep ==
  ASSUME Base, Base', Linked, [Next]_vars
  PROVE  Linked'
<1> USE DEF Base
<1>0. Typed /\ Typed' /\ Staged /\ \A c \in Client : Stage(c) /\ Linking(c)
  BY DEF Staged, Linked
<1>1. ASSUME NEW c \in Client, Begins(c) PROVE Linked'
  <2>1. PICK r \in Request :
          /\ Begin(c, r)
          /\ r.at = "commit"
          /\ inst = "none" <=> r.op = "start"
    BY <1>1, BeginsBegun DEF Begun
  <2>2. /\ req' = [req EXCEPT ![c] = r] /\ req[c] = Idle
        /\ UNCHANGED <<inst, linked, asked, orphaned>>
    BY <2>1 DEF Begin, data
  <2>3. Others(c) /\ req'[c] = r /\ req[c].op = "none"
    BY <2>2, IdleType DEF Typed, Others
  <2> QED
    BY <2>1, <2>2, <2>3, LinkedMoves DEF Linking
<1>2. ASSUME NEW c \in Client, CommitStart(c) PROVE Linked'
  <2>1. /\ req[c].op = "start" /\ asked' = req[c].link
        /\ req' = [req EXCEPT ![c].at = "record", ![c].opened = open']
    BY <1>2 DEF CommitStart, At
  <2>2. open' \in SUBSET Task
    BY DEF Typed
  <2>3. Others(c) /\ Same(c) /\ req'[c].at = "record"
    BY <1>0, <2>1, <2>2, GoesOpening DEF Step
  <2>4. \A d \in Client : Linking(d)'
    BY <2>1, <2>3 DEF Linking, Same, Others, OneStart
  <2>5. NoOrphan'
    BY <2>1, <2>3, IdleType DEF NoOrphan, Busy, Same
  <2> QED
    BY <2>4, <2>5 DEF Linked
<1>3. ASSUME NEW c \in Client, NEW at \in Step, Goto(c, at),
             UNCHANGED <<linked, asked, orphaned>>,
             inst' = "running" => inst = "running",
             req[c].op = "start" => req[c].at # "commit",
             req[c].op = "start" /\ at \in {"instance", "tasks"} /\ asked => linked
      PROVE  Linked'
  <2>1. Others(c) /\ Same(c) /\ req'[c].at = at
    BY <1>0, <1>3, Goes
  <2> QED
    BY <1>0, <1>3, <2>1, LinkedMoves DEF Same, Linking
<1>4. ASSUME NEW c \in Client, Return(c), UNCHANGED <<linked, asked>>, orphaned => orphaned',
             inst' = "running" => inst = "running",
             req[c].op = "start" => (asked /\ inst' = "running" => linked \/ orphaned')
      PROVE  Linked'
  <2>1. Others(c) /\ req'[c].op = "none"
    BY <1>0, <1>4, Returns
  <2> QED
    BY <1>0, <1>4, <2>1, LinkedMoves DEF Linking
<1>5. ASSUME NEW c \in Client,
             \/ CommitTask(c) \/ CommitVariables(c) \/ CommitReassign(c) \/ CommitCancel(c)
      PROVE  Linked'
  <2>1. \E at \in {"record", "tasks", "instance"} : Goto(c, at)
    BY <1>5 DEF CommitTask, CommitVariables, CommitReassign, CommitCancel
  <2>2. /\ UNCHANGED <<linked, asked, orphaned>> /\ req[c].op # "start"
        /\ inst' = "running" => inst = "running"
    BY <1>5 DEF CommitTask, CommitVariables, CommitReassign, CommitCancel, At, data, ghosts
  <2> QED
    BY <1>3, <2>1, <2>2 DEF Step
<1>6. ASSUME NEW c \in Client, CommitWithdraw(c) PROVE Linked'
  <2>1. /\ req[c].op = "withdraw" /\ UNCHANGED <<inst, linked, asked, orphaned>>
        /\ req' = [req EXCEPT ![c].at = "tasks", ![c].opened = open']
    BY <1>6 DEF CommitWithdraw, At
  <2>2. open' \in SUBSET Task
    BY DEF Typed
  <2>3. Others(c) /\ Same(c)
    BY <1>0, <2>1, <2>2, GoesOpening DEF Step
  <2> QED
    BY <2>1, <2>3, LinkedMoves DEF Same, Linking
<1>7. ASSUME NEW c \in Client, Refused(c) PROVE Linked'
  BY <1>4, <1>7 DEF Refused, data, ghosts
<1>8. ASSUME NEW c \in Client, Crash(c) PROVE Linked'
  <2>1. req[c].op = "start" => orphaned' \/ inst' # "running"
    BY <1>8 DEF Crash, data
  <2> QED
    BY <1>4, <1>8, <2>1 DEF Crash, data
<1>9. ASSUME NEW c \in Client, Record(c) PROVE Linked'
  <2>1. /\ UNCHANGED <<inst, linked, asked, orphaned>> /\ req[c].at = "record"
    BY <1>9 DEF Record, data, ghosts
  <2>2. CASE req[c].op \in {"start", "complete"}
    <3>1. \E at \in {"link", "instance", "reread"} :
            /\ Goto(c, at)
            /\ req[c].op = "start" => at = IF req[c].link THEN "link" ELSE "instance"
      BY <1>9, <2>2 DEF Record, AfterRecord
    <3>2. req[c].op = "start" => req[c].link = asked
      BY <1>0, <2>1 DEF Linking
    <3> QED
      BY <1>3, <2>1, <3>1, <3>2 DEF Step
  <2>3. CASE req[c].op \notin {"start", "complete"}
    <3>1. Return(c)
      BY <1>9, <2>3 DEF Record, AfterRecord
    <3> QED
      BY <1>4, <2>1, <2>3, <3>1
  <2> QED
    BY <2>2, <2>3
<1>10. ASSUME NEW c \in Client, Link(c) PROVE Linked'
  <2>1. PICK at \in {"instance", "compensate"} :
          Goto(c, at) /\ (at = "instance" => linked') /\ (linked => linked')
    BY <1>10 DEF Link
  <2>2. /\ UNCHANGED <<inst, asked, orphaned>> /\ req[c].op = "start" /\ req[c].at = "link"
    BY <1>10 DEF Link, At, data, ghosts
  <2>3. Others(c) /\ Same(c) /\ req'[c].at = at
    BY <1>0, <2>1, Goes DEF Step
  <2> QED
    BY <1>0, <2>1, <2>2, <2>3, LinkedMoves DEF Same, Linking
<1>11. ASSUME NEW c \in Client, Compensate(c) PROVE Linked'
  <2>1. Return(c) /\ UNCHANGED <<linked, asked>>
    BY <1>11 DEF Compensate
  <2>2. /\ inst' = "running" => inst = "running" /\ orphaned'
    BY <1>11 DEF Compensate, Terminate
  <2>3. orphaned => orphaned'
    BY <1>11 DEF Compensate
  <2> QED
    BY <1>4, <2>1, <2>2, <2>3
<1>12. ASSUME NEW c \in Client,
              InstanceEvent(c) \/ TaskEvents(c) \/ CompletedEvent(c) \/ RestEvents(c)
       PROVE  Linked'
  <2>1. UNCHANGED <<inst, linked, asked, orphaned>>
    BY <1>12 DEF InstanceEvent, TaskEvents, CompletedEvent, RestEvents, data, ghosts
  <2>2. req[c].op = "start" => req[c].at \in {"instance", "tasks"} /\ (asked => linked)
    BY <1>0, <1>12 DEF InstanceEvent, TaskEvents, CompletedEvent, RestEvents, At, Linking
  <2>3. CASE Return(c)
    BY <1>4, <2>1, <2>2, <2>3
  <2>4. CASE InstanceEvent(c) /\ ~Return(c)
    <3>1. Goto(c, "tasks")
      BY <2>4 DEF InstanceEvent
    <3> QED
      BY <1>3, <2>1, <2>2, <3>1 DEF Step
  <2>5. CASE CompletedEvent(c) /\ ~Return(c)
    <3>1. /\ req' = [req EXCEPT ![c].at = "rest", ![c].before = Now] /\ req[c].op = "complete"
      BY <2>5 DEF CompletedEvent, Reread, At
    <3>2. Others(c) /\ Same(c)
      BY <1>0, <3>1, GoesReading DEF Step
    <3> QED
      BY <2>1, <3>1, <3>2, LinkedMoves DEF Same, Linking
  <2> QED
    BY <1>12, <2>3, <2>4, <2>5 DEF TaskEvents, RestEvents
<1>13. CASE EngineAdvances \/ UNCHANGED vars
  <2>1. /\ UNCHANGED <<req, linked, asked, orphaned>>
        /\ inst' = "running" => inst = "running"
    BY <1>13 DEF EngineAdvances, vars, data, ghosts
  <2> QED
    BY <2>1 DEF Linked, Linking, NoOrphan, Busy
<1> QED
  BY <1>1, <1>2, <1>5, <1>6, <1>7, <1>8, <1>9, <1>10, <1>11, <1>12, <1>13 DEF Next, Begins

-----------------------------------------------------------------------------
(* The history.                                                            *)

\* A row that starts from what the last one left.
LEMMA Appended ==
  ASSUME history \in Seq(Row), Threaded, NEW r \in Row, r.old = Left,
         history' = Append(history, r)
  PROVE  Threaded' /\ Left' = r.new
<1> DEFINE n == Len(history)
<1>1. /\ n \in Nat /\ DOMAIN history = 1 .. n /\ Len(history') = n + 1
      /\ history' # <<>> /\ history'[n + 1] = r
      /\ \A i \in 1 .. n : history'[i] = history[i]
  OBVIOUS
<1>2. Left' = r.new
  BY <1>1 DEF Left
<1>3. history'[1].old = None
  <2>1. CASE history = <<>>
    BY <1>1, <2>1 DEF Left
  <2>2. CASE history # <<>>
    <3>1. 1 \in 1 .. n
      BY <1>1, <2>2
    <3> QED
      BY <1>1, <2>2, <3>1 DEF Threaded
  <2> QED
    BY <2>1, <2>2
<1>4. ASSUME NEW i \in 2 .. n + 1 PROVE history'[i].old = history'[i - 1].new
  <2>1. CASE i = n + 1
    <3>1. n >= 1 /\ history # <<>> /\ i - 1 = n /\ n \in 1 .. n
      BY <1>1, <1>4, <2>1
    <3>2. history'[i - 1] = history[n]
      BY <1>1, <3>1
    <3>3. Left = history[n].new
      BY <3>1 DEF Left
    <3> QED
      BY <1>1, <2>1, <3>2, <3>3
  <2>2. CASE i # n + 1
    <3>1. i \in 2 .. n /\ i \in 1 .. n /\ i - 1 \in 1 .. n
      BY <1>1, <1>4, <2>2
    <3> QED
      BY <1>1, <3>1 DEF Threaded
  <2> QED
    BY <2>1, <2>2
<1> QED
  BY <1>1, <1>2, <1>3, <1>4 DEF Threaded

\* A step that writes neither the variable nor the history.
LEMMA ChainedMoves ==
  ASSUME Base, Chained, NEW c \in Client, Others(c), UNCHANGED <<value, history>>,
         inst' # "none" => inst # "none", clean' => clean, faults' = 0 => faults = 0,
         \/ Same(c) /\ req'[c].at \notin {"commit", "record"}
         \/ req'[c] = Idle,
         req[c].at # "record",
         req[c].op = "start" => (req'[c] = Idle \/ req'[c].before = req[c].before)
  PROVE  Chained'
<1>1. req'[c].op \in {req[c].op, "none"} /\ req'[c].at # "record" /\ req'[c].at # "commit"
  BY IdleType DEF Same
<1>2. /\ inst' # "none" => value' \in Value
      /\ clean' => \A d, e \in Client : req'[d].op # "none" /\ req'[e].op # "none" => d = e
  BY <1>1 DEF Chained, Others
<1>3. \A d \in Client : req'[d].op \in {"start", "set"} => req'[d].value \in Value
  BY IdleType DEF Chained, Others, Same
<1>4. ASSUME clean', faults' = 0
      PROVE  /\ Threaded'
             /\ (\A d \in Client : req'[d].at # "record") => Left' = value'
             /\ \A d \in Client : Recording(d)'
  <2>1. clean /\ faults = 0 /\ Left' = Left /\ value' = value
    BY <1>4 DEF Left
  <2>2. Threaded' /\ ((\A d \in Client : req'[d].at # "record") => Left' = value')
    BY <1>1, <2>1 DEF Chained, Threaded, Others
  <2>3. ASSUME NEW d \in Client PROVE Recording(d)'
    <3>1. CASE d # c
      <4>1. Recording(d) /\ req'[d] = req[d]
        BY <2>1, <3>1 DEF Chained, Others
      <4> QED
        BY <2>1, <4>1 DEF Recording, Old
    <3>2. CASE d = c
      <4>1. Recording(c)
        BY <2>1 DEF Chained
      <4> QED
        BY <1>1, <1>3, <3>2, <4>1, IdleType DEF Recording, Old, Same
    <3> QED
      BY <3>1, <3>2
  <2> QED
    BY <2>2, <2>3
<1> QED
  BY <1>2, <1>3, <1>4 DEF Chained

\* A request that runs alone: the others are doing nothing.
LEMMA RunsAlone ==
  ASSUME Base, Chained, clean, NEW c \in Client, req[c].op # "none"
  PROVE  \A d \in Client : d # c => req[d].op = "none" /\ req[d].at = "none"
BY IdleType DEF Chained, Base, Staged, Stage

\* The commits that write the variable.
LEMMA ChainedCommit ==
  ASSUME Base, Base', Chained, NEW c \in Client, Others(c), Same(c),
         req[c].op \in {"start", "complete", "reject", "set"}, req[c].at = "commit",
         req'[c].at = "record", req'[c].before = req[c].before,
         UNCHANGED <<history, faults>>, inst' # "none",
         clean' => clean, clean' /\ req[c].op = "reject" => req[c].value = None,
         req[c].op # "start" => inst # "none",
         value' = Kept(req[c].value)
  PROVE  Chained'
<1>0. req[c] \in Request /\ None \notin Value
  BY RequestsAssumption DEF Base, Typed
<1>1. value' \in Value
  BY <1>0 DEF Chained, Kept, Request
<1>2. /\ clean' => \A d, e \in Client : req'[d].op # "none" /\ req'[e].op # "none" => d = e
      /\ \A d \in Client : req'[d].op \in {"start", "set"} => req'[d].value \in Value
  BY DEF Chained, Others, Same
<1>3. ASSUME clean', faults' = 0
      PROVE  Threaded' /\ \A d \in Client : Recording(d)'
  <2>1. clean /\ faults = 0 /\ Left' = Left /\ Threaded'
    BY <1>3 DEF Left, Chained, Threaded
  <2>2. \A d \in Client : d # c => req[d].op = "none" /\ req[d].at = "none"
    BY <2>1, RunsAlone
  <2>3. Left = value
    BY <2>1, <2>2 DEF Chained
  <2>4. Old(c) = value /\ Old(c)' = Old(c)
    <3>1. req[c].op = "start" => Old(c) = None /\ value = None
      BY <2>1 DEF Chained, Recording, Base, Known, Born, Unborn
    <3> QED
      BY <2>1, <3>1 DEF Chained, Recording, Old
  <2>5. Recording(c)'
    <3>1. value' = IF req[c].value = None THEN Old(c) ELSE req[c].value
      BY <2>4 DEF Kept
    <3>2. req[c].op = "start" => Old(c) = None
      BY <2>1 DEF Chained, Recording
    <3> QED
      BY <1>2, <1>3, <2>1, <2>3, <2>4, <3>1, <3>2 DEF Recording, Same
  <2>6. \A d \in Client : d # c => Recording(d)'
    BY <2>2 DEF Recording, Others
  <2> QED
    BY <2>1, <2>5, <2>6
<1> QED
  BY <1>1, <1>2, <1>3 DEF Chained

LEMMA ChainedBegin ==
  ASSUME Base, Base', Chained, NEW c \in Client, Begins(c)
  PROVE  Chained'
<1>1. PICK r \in Request :
        /\ Begin(c, r)
        /\ r.op # "none" /\ r.at = "commit"
        /\ r.op \in {"complete", "reject", "set"} => r.before = Now
        /\ r.op = "start" => r.before = <<>>
        /\ r.op \in {"start", "set"} => r.value \in Value
  BY BeginsBegun DEF Begun
<1>2. /\ req' = [req EXCEPT ![c] = r] /\ req[c] = Idle
      /\ UNCHANGED <<inst, value, history, faults>>
      /\ clean' => clean /\ Busy = {}
  BY <1>1 DEF Begin, data
<1>3. /\ Others(c) /\ req'[c] = r /\ req[c].op = "none" /\ req[c].at = "none"
  BY <1>2, IdleType DEF Base, Typed, Others
<1>4. /\ inst' # "none" => value' \in Value
      /\ \A d \in Client : req'[d].op \in {"start", "set"} => req'[d].value \in Value
  BY <1>1, <1>2, <1>3 DEF Chained, Others
<1>5. ASSUME clean'
      PROVE  \A d \in Client : d # c => req'[d].op = "none" /\ req'[d].at = "none"
  BY <1>2, <1>3, <1>5, IdleType DEF Others, Busy
<1>6. ASSUME clean', faults' = 0
      PROVE  /\ Threaded'
             /\ (\A d \in Client : req'[d].at # "record") => Left' = value'
             /\ \A d \in Client : Recording(d)'
  <2>1. clean /\ faults = 0 /\ Left' = Left /\ value' = value /\ Threaded'
    BY <1>2, <1>6 DEF Left, Chained, Threaded
  <2>2. \A d \in Client : req[d].at # "record"
    BY <1>3, <1>5, <1>6 DEF Others
  <2>3. Left' = value'
    BY <2>1, <2>2 DEF Chained
  <2>4. Recording(c)'
    <3>1. r.op = "start" => Old(c)' = None
      BY <1>1, <1>3 DEF Old
    <3>2. r.op \in {"complete", "reject", "set"} => Old(c)' = value'
      <4>1. Now # <<>> /\ Now.value = value
        BY DEF Now
      <4> QED
        BY <1>1, <1>3, <2>1, <4>1 DEF Old
    <3> QED
      BY <1>1, <1>3, <3>1, <3>2 DEF Recording
  <2>5. \A d \in Client : d # c => Recording(d)'
    BY <1>5, <1>6 DEF Recording
  <2> QED
    BY <2>1, <2>3, <2>4, <2>5
<1> QED
  BY <1>1, <1>3, <1>4, <1>5, <1>6 DEF Chained, Others

LEMMA ChainedRecord ==
  ASSUME Base, Base', Chained, NEW c \in Client, Record(c)
  PROVE  Chained'
<1>0. /\ req[c].at = "record" /\ req[c].op # "none" /\ req[c] \in Request
      /\ history \in Seq(Row) /\ None \notin Value
      /\ UNCHANGED <<inst, value, clean>>
      /\ faults' = 0 => faults = 0
  BY AtSome, RequestsAssumption DEF Record, Base, Typed, Quiet, Fault, data, ghosts
<1>1. /\ Others(c)
      /\ req'[c] = Idle \/ (Same(c) /\ req'[c].before = req[c].before
                            /\ req'[c].at \in {"link", "instance", "reread"})
  <2>1. CASE Return(c)
    BY <2>1, Returns DEF Base
  <2>2. CASE ~Return(c)
    <3>1. \E at \in {"link", "instance", "reread"} : Goto(c, at)
      BY <2>2 DEF Record, AfterRecord
    <3> QED
      BY <3>1, Goes DEF Base, Step
  <2> QED
    BY <2>1, <2>2
<1>2. req'[c].op \in {req[c].op, "none"} /\ req'[c].at \notin {"commit", "record"}
  BY <1>1, IdleType DEF Same
<1>3. /\ inst' # "none" => value' \in Value
      /\ clean' => \A d, e \in Client : req'[d].op # "none" /\ req'[e].op # "none" => d = e
      /\ \A d \in Client : req'[d].op \in {"start", "set"} => req'[d].value \in Value
  BY <1>0, <1>1, <1>2, IdleType DEF Chained, Others, Same
<1>4. ASSUME clean', faults' = 0
      PROVE  /\ Threaded' /\ Left' = value'
             /\ \A d \in Client : Recording(d)'
  <2>1. /\ clean /\ faults = 0 /\ Threaded /\ Recording(c) /\ Left = Old(c)
        /\ value = IF req[c].value = None THEN Old(c) ELSE req[c].value
        /\ req[c].op = "reject" => req[c].value = None
    BY <1>0, <1>4 DEF Chained, Recording
  <2>2. Threaded' /\ Left' = value'
    <3>1. CASE history' = history
      <4>1. Left' = Left /\ Threaded'
        BY <2>1, <3>1 DEF Left, Threaded
      <4>2. CASE req[c].value = None \/ req[c].value = Old(c)
        BY <1>0, <2>1, <4>1, <4>2
      <4>3. CASE ~(req[c].value = None \/ req[c].value = Old(c))
        <5>1. history' = history \o Changed(c)
          BY <1>4, <2>1, <4>3 DEF Record, Fault
        <5>2. Changed(c) = <<[old |-> Old(c), new |-> req[c].value]>>
          BY <4>3, Zenon DEF Changed
        <5> DEFINE r == [old |-> Old(c), new |-> req[c].value]
        <5>3. history' = Append(history, r)
          <6> HIDE DEF r
          <6>1. Changed(c) = <<r>>
            BY <5>2 DEF r
          <6> QED
            BY <1>0, <5>1, <6>1
        <5>4. Len(history') = Len(history) + 1
          <6> HIDE DEF r
          <6> QED
            BY <1>0, <5>3
        <5> QED
          BY <1>0, <3>1, <5>4
      <4> QED
        BY <4>2, <4>3
    <3>2. CASE history' # history
      <4>1. history' = history \o Changed(c)
        BY <3>2 DEF Record
      <4>2. CASE req[c].value = None \/ req[c].value = Old(c)
        <5>1. Changed(c) = <<>>
          BY <4>2 DEF Changed
        <5> QED
          BY <1>0, <3>2, <4>1, <5>1
      <4>3. CASE ~(req[c].value = None \/ req[c].value = Old(c))
        <5> DEFINE r == [old |-> Old(c), new |-> req[c].value]
        <5>1. Changed(c) = <<r>>
          BY <4>3, Zenon DEF Changed
        <5>2. r \in Row
          <6>1. Old(c) \in Value \cup {None}
            <7>1. req[c].before # <<>> => req[c].before \in Snapshot
              BY <1>0 DEF Request
            <7> QED
              BY <7>1 DEF Old, Snapshot
          <6> QED
            BY <1>0, <4>3, <6>1 DEF Row, Request
        <5>3. r.old = Left /\ r.new = value
          BY <2>1, <4>3
        <5> HIDE DEF r
        <5>4. history' = Append(history, r)
          BY <1>0, <4>1, <5>1
        <5> QED
          BY <1>0, <2>1, <5>2, <5>3, <5>4, Appended
      <4> QED
        BY <4>2, <4>3
    <3> QED
      BY <3>1, <3>2
  <2>3. \A d \in Client : d # c => req'[d].op = "none" /\ req'[d].at = "none"
    BY <1>0, <1>1, <2>1, RunsAlone DEF Others
  <2>4. Recording(c)'
    <3>1. req'[c].op = "start" => Old(c)' = None
      BY <1>1, <2>1, IdleType DEF Recording, Old, Same
    <3> QED
      BY <1>2, <1>3, <3>1 DEF Recording
  <2>5. \A d \in Client : d # c => Recording(d)'
    BY <2>3 DEF Recording
  <2> QED
    BY <2>2, <2>4, <2>5
<1> QED
  BY <1>3, <1>4 DEF Chained

LEMMA ChainedStep ==
  ASSUME Base, Base', Chained, [Next]_vars
  PROVE  Chained'
<1>0. Typed /\ \A c \in Client : Stage(c) /\ Born(c)
  BY DEF Base, Staged, Known
<1>1. ASSUME NEW c \in Client, CommitStart(c) PROVE Chained'
  <2>1. /\ req[c].op = "start" /\ req[c].at = "commit" /\ Advance({}, 0)
        /\ value' = req[c].value
        /\ req' = [req EXCEPT ![c].at = "record", ![c].opened = open']
        /\ UNCHANGED <<history, faults, clean>>
    BY <1>1 DEF CommitStart, At, Quiet
  <2>2. open' \in SUBSET Task
    BY DEF Base, Typed
  <2>3. Others(c) /\ Same(c) /\ req'[c].at = "record" /\ req'[c].before = req[c].before
    BY <1>0, <2>1, <2>2, GoesOpening DEF Step
  <2>4. value' = Kept(req[c].value)
    BY <2>1, RequestsAssumption DEF Chained, Kept
  <2>5. inst' # "none"
    BY <2>1 DEF Advance
  <2> QED
    BY <2>1, <2>3, <2>4, <2>5, ChainedCommit
<1>2. ASSUME NEW c \in Client, CommitTask(c) PROVE Chained'
  <2>1. /\ req[c].op \in {"complete", "reject"} /\ req[c].at = "commit" /\ inst = "running"
        /\ Goto(c, "record") /\ value' = Kept(req[c].value)
        /\ UNCHANGED <<history, faults>>
    BY <1>2 DEF CommitTask, At, Quiet
  <2>2. /\ clean' => clean
        /\ clean' /\ req[c].op = "reject" => req[c].value = None
        /\ inst' # "none"
    BY <1>2 DEF CommitTask, Advance
  <2>3. Others(c) /\ Same(c) /\ req'[c].at = "record" /\ req'[c].before = req[c].before
    BY <1>0, <2>1, Goes DEF Step
  <2> QED
    BY <2>1, <2>2, <2>3, ChainedCommit
<1>3. ASSUME NEW c \in Client, CommitVariables(c) PROVE Chained'
  <2>1. /\ req[c].op = "set" /\ req[c].at = "commit"
        /\ Goto(c, "record") /\ value' = req[c].value
        /\ UNCHANGED <<inst, history, faults, clean>>
    BY <1>3 DEF CommitVariables, At, Quiet, ghosts
  <2>2. Others(c) /\ Same(c) /\ req'[c].at = "record" /\ req'[c].before = req[c].before
    BY <1>0, <2>1, Goes DEF Step
  <2>3. value' = Kept(req[c].value)
    BY <2>1, RequestsAssumption DEF Chained, Kept
  <2>4. inst # "none"
    BY <1>0, <2>1 DEF Born
  <2> QED
    BY <2>1, <2>2, <2>3, <2>4, ChainedCommit
<1>4. ASSUME NEW c \in Client, CommitReassign(c) \/ CommitCancel(c) PROVE Chained'
  <2>1. PICK at \in {"tasks", "instance"} : Goto(c, at)
    BY <1>4 DEF CommitReassign, CommitCancel
  <2>2. /\ req[c].op \in {"reassign", "cancel"} /\ req[c].at = "commit"
        /\ UNCHANGED <<value, history, faults, clean>>
    BY <1>4 DEF CommitReassign, CommitCancel, At, Quiet, data, ghosts
  <2>3. Others(c) /\ Same(c) /\ req'[c].at = at /\ req'[c].before = req[c].before
    BY <1>0, <2>1, Goes DEF Step
  <2>4. inst # "none"
    BY <1>0, <2>2 DEF Born
  <2> QED
    BY <2>2, <2>3, <2>4, ChainedMoves
<1>5. ASSUME NEW c \in Client, CommitWithdraw(c) PROVE Chained'
  <2>1. /\ req[c].op = "withdraw" /\ req[c].at = "commit"
        /\ UNCHANGED <<inst, value, history, faults, clean>>
        /\ req' = [req EXCEPT ![c].at = "tasks", ![c].opened = open']
    BY <1>5 DEF CommitWithdraw, At, Quiet
  <2>2. open' \in SUBSET Task
    BY DEF Base, Typed
  <2>3. Others(c) /\ Same(c) /\ req'[c].at = "tasks" /\ req'[c].before = req[c].before
    BY <1>0, <2>1, <2>2, GoesOpening DEF Step
  <2> QED
    BY <2>1, <2>3, ChainedMoves
<1>6. ASSUME NEW c \in Client, Refused(c) PROVE Chained'
  <2>1. Return(c) /\ req[c].at = "commit" /\ UNCHANGED <<inst, value, history, faults, clean>>
    BY <1>6 DEF Refused, Quiet, data, ghosts
  <2> QED
    BY <1>0, <2>1, Returns, ChainedMoves
<1>7. ASSUME NEW c \in Client, Crash(c) PROVE Chained'
  <2>1. /\ Return(c) /\ faults' # 0
        /\ UNCHANGED <<inst, value, history, clean>>
    BY <1>0, <1>7 DEF Crash, Fault, Typed, data
  <2>2. Others(c) /\ req'[c].op = "none"
    BY <1>0, <2>1, Returns
  <2> QED
    BY <2>1, <2>2 DEF Chained, Others
<1>8. ASSUME NEW c \in Client, Link(c) PROVE Chained'
  <2>1. PICK at \in {"instance", "compensate"} : Goto(c, at)
    BY <1>8 DEF Link
  <2>2. /\ req[c].at = "link" /\ UNCHANGED <<inst, value, history, clean>>
        /\ (faults' = 0 => faults = 0)
    BY <1>0, <1>8 DEF Link, At, Quiet, Fault, Typed, data, ghosts
  <2>3. Others(c) /\ Same(c) /\ req'[c].at = at /\ req'[c].before = req[c].before
    BY <1>0, <2>1, Goes DEF Step
  <2> QED
    BY <2>2, <2>3, ChainedMoves
<1>9. ASSUME NEW c \in Client, Compensate(c) PROVE Chained'
  <2>1. /\ Return(c) /\ req[c].at = "compensate" /\ req[c].op = "start"
        /\ UNCHANGED <<value, history, faults, clean>>
    BY <1>9 DEF Compensate, At, Quiet
  <2>2. inst # "none"
    BY <1>0, <2>1 DEF Born
  <2> QED
    BY <1>0, <2>1, <2>2, Returns, ChainedMoves
<1>10. ASSUME NEW c \in Client,
              InstanceEvent(c) \/ TaskEvents(c) \/ CompletedEvent(c) \/ RestEvents(c)
       PROVE  Chained'
  <2>1. UNCHANGED <<inst, value, history, clean>>
    BY <1>10 DEF InstanceEvent, TaskEvents, CompletedEvent, RestEvents, data, ghosts
  <2>2. /\ req[c].at \notin {"record", "commit"}
        /\ faults' = 0 => faults = 0
    BY <1>0, <1>10 DEF InstanceEvent, TaskEvents, CompletedEvent, RestEvents, At,
       Publish, Quiet, Fault, Typed
  <2>3. CASE Return(c)
    BY <1>0, <2>1, <2>2, <2>3, Returns, ChainedMoves
  <2>4. CASE InstanceEvent(c) /\ ~Return(c)
    <3>1. Goto(c, "tasks")
      BY <2>4 DEF InstanceEvent
    <3>2. Others(c) /\ Same(c) /\ req'[c].at = "tasks" /\ req'[c].before = req[c].before
      BY <1>0, <3>1, Goes DEF Step
    <3> QED
      BY <2>1, <2>2, <3>2, ChainedMoves
  <2>5. CASE CompletedEvent(c) /\ ~Return(c)
    <3>1. /\ req' = [req EXCEPT ![c].at = "rest", ![c].before = Now] /\ req[c].op = "complete"
      BY <2>5 DEF CompletedEvent, Reread, At
    <3>2. Others(c) /\ Same(c) /\ req'[c].at = "rest"
      BY <1>0, <3>1, GoesReading DEF Step
    <3> QED
      BY <2>1, <2>2, <3>1, <3>2, ChainedMoves
  <2> QED
    BY <1>10, <2>3, <2>4, <2>5 DEF TaskEvents, RestEvents
<1>11. CASE EngineAdvances \/ UNCHANGED vars
  <2>1. /\ UNCHANGED <<req, value, history, faults, clean>>
        /\ inst' # "none" => inst # "none"
    BY <1>11 DEF EngineAdvances, vars, data, ghosts
  <2>2. Left' = Left /\ Threaded' = Threaded
    BY <2>1 DEF Left, Threaded
  <2>3. \A c \in Client : Recording(c)' = Recording(c)
    BY <2>1, <2>2 DEF Recording, Old
  <2> QED
    BY <2>1, <2>2, <2>3 DEF Chained
<1> QED
  BY <1>1, <1>2, <1>3, <1>4, <1>5, <1>6, <1>7, <1>8, <1>9, <1>10, <1>11,
     ChainedBegin, ChainedRecord DEF Next, Begins

-----------------------------------------------------------------------------
(* The announcements.                                                      *)

\* A step that leaves nothing new to announce.
LEMMA AnnouncedMoves ==
  ASSUME Announced, NEW c \in Client, Others(c), ended' = ended, owed' \subseteq owed,
         faults' = 0 => faults = 0,
         \A t \in owed : created[t] > 0 => created'[t] > 0,
         reassigned \subseteq reassigned', told \subseteq told',
         faults' = 0 => \A t \in owed' :
                          Owes(c, t) => Owes(c, t)' \/ created'[t] > 0 \/ t \in reassigned',
         faults' = 0 => (Ends(c) => Ends(c)' \/ ended \in told')
  PROVE  Announced'
<1> SUFFICES ASSUME faults' = 0
             PROVE  /\ \A t \in owed' : \/ created'[t] > 0 \/ t \in reassigned'
                                        \/ \E d \in Client : Owes(d, t)'
                    /\ ended' \in Kind => ended' \in told' \/ \E d \in Client : Ends(d)'
  BY DEF Announced
<1>1. /\ \A d \in Client : \A t : d # c => (Owes(d, t)' <=> Owes(d, t))
      /\ \A d \in Client : d # c => (Ends(d)' <=> Ends(d))
  BY DEF Owes, Ends, Others
<1>2. ASSUME NEW t \in owed'
      PROVE  created'[t] > 0 \/ t \in reassigned' \/ \E d \in Client : Owes(d, t)'
  <2>1. t \in owed /\ (created[t] > 0 \/ t \in reassigned \/ \E d \in Client : Owes(d, t))
    BY DEF Announced
  <2> QED
    BY <1>1, <2>1
<1>3. ended' \in Kind => ended' \in told' \/ \E d \in Client : Ends(d)'
  BY <1>1 DEF Announced
<1> QED
  BY <1>2, <1>3

\* A request that has nothing to announce yet, or any more.
Silent(c) == /\ req[c].op = "start" => req[c].at \in {"commit", "compensate"}
             /\ req[c].op \in {"complete", "withdraw", "cancel"} => req[c].at = "commit"
LEMMA SilentOwes ==
  ASSUME NEW c \in Client, Silent(c)
  PROVE  (\A t : ~Owes(c, t)) /\ ~Ends(c)
BY DEF Silent, Owes, Ends

LEMMA AnnouncedQuiet ==
  ASSUME Announced, NEW c \in Client, Others(c), Silent(c),
         UNCHANGED <<created, reassigned, told, ended>>, owed' \subseteq owed,
         faults' = 0 => faults = 0
  PROVE  Announced'
BY SilentOwes, AnnouncedMoves

LEMMA AnnouncedCommit ==
  ASSUME Base, Base', Announced, NEW c \in Client,
         CommitStart(c) \/ CommitTask(c) \/ CommitWithdraw(c) \/ CommitCancel(c)
  PROVE  Announced'
<1> USE DEF Base
<1>0. Typed /\ Placed /\ Born(c) /\ Numbered(c)
  BY DEF Known
<1>1. CASE CommitStart(c) \/ CommitWithdraw(c)
  <2>1. PICK at \in {"record", "tasks"} :
          /\ req' = [req EXCEPT ![c].at = at, ![c].opened = open']
          /\ req[c].op = IF at = "record" THEN "start" ELSE "withdraw"
    BY <1>1 DEF CommitStart, CommitWithdraw, At
  <2>2. /\ UNCHANGED <<created, reassigned, told, faults>> /\ owed' = open'
        /\ ended' \in {ended, "atStart"}
    BY <1>1 DEF CommitStart, CommitWithdraw, events, Quiet
  <2>3. ended = "none" /\ ended' \notin Kind
    BY <1>0, <1>1, <2>2 DEF CommitStart, CommitWithdraw, At, Born, Placed, Kind
  <2>4. open' \in SUBSET Task
    BY DEF Typed
  <2>5. Same(c) /\ req'[c].at = at /\ req'[c].opened = open'
    BY <1>0, <2>1, <2>4, GoesOpening DEF Step
  <2>6. \A t \in owed' : Owes(c, t)'
    BY <2>1, <2>2, <2>5 DEF Owes, Same
  <2> QED
    BY <2>2, <2>3, <2>6 DEF Announced
<1>2. CASE CommitTask(c)
  <2>0. PICK least \in {0, 1} :
          /\ least = IF req[c].op = "reject" THEN 1 ELSE 0
          /\ Advance(open \ {req[c].task}, least)
    BY <1>2 DEF CommitTask
  <2>1. /\ req[c].op \in {"complete", "reject"} /\ req[c].at = "commit"
        /\ inst = "running" /\ Goto(c, "record")
        /\ owed' = (owed \cap open') \cup (IF req[c].op = "complete" THEN Opened ELSE {})
        /\ ended' = IF inst' = "completed" THEN "completed" ELSE ended
        /\ UNCHANGED <<created, reassigned, told, faults>>
    BY <1>2 DEF CommitTask, At, Quiet, events
  <2>2. ended = "none"
    BY <1>0, <2>1 DEF Placed
  <2>3. Others(c) /\ Same(c) /\ req'[c].at = "record"
    BY <1>0, <2>1, Goes DEF Step
  <2>4. CASE req[c].op = "complete"
    <3>1. \A t : Owes(c, t)'
      BY <2>3, <2>4 DEF Owes, Same
    <3>2. ended' \in Kind => Ends(c)'
      BY <2>1, <2>2, <2>3, <2>4 DEF Ends, Same, Kind
    <3> QED
      BY <3>1, <3>2 DEF Announced
  <2>5. CASE req[c].op = "reject"
    <3>1. inst' # "completed"
      BY <1>0, <2>0, <2>5, Advanced DEF Placed
    <3>2. owed' \subseteq owed /\ ended' = ended
      BY <2>1, <2>5, <3>1
    <3>3. Silent(c)
      BY <2>5 DEF Silent
    <3> QED
      BY <2>1, <2>3, <3>2, <3>3, AnnouncedQuiet
  <2> QED
    BY <2>1, <2>4, <2>5
<1>3. CASE CommitCancel(c)
  <2>1. /\ req[c].op = "cancel" /\ req[c].at = "commit" /\ Goto(c, "instance")
        /\ IF inst = "running" THEN owed' = {} /\ ended' = "terminated"
                               ELSE UNCHANGED <<owed, ended>>
        /\ UNCHANGED <<created, reassigned, told, faults>>
    BY <1>3 DEF CommitCancel, At, Quiet, events
  <2>2. Others(c) /\ Same(c) /\ req'[c].at = "instance"
    BY <1>0, <2>1, Goes DEF Step
  <2>3. CASE inst = "running"
    <3>1. Ends(c)'
      BY <2>1, <2>2, <2>3 DEF Ends, Same
    <3> QED
      BY <2>1, <2>3, <3>1 DEF Announced
  <2>4. CASE inst # "running"
    <3>1. Silent(c)
      BY <2>1 DEF Silent
    <3> QED
      BY <2>1, <2>2, <2>4, <3>1, AnnouncedQuiet
  <2> QED
    BY <2>3, <2>4
<1> QED
  BY <1>1, <1>2, <1>3

\* An announcement of tasks leaves the others announced.
LEMMA Announces ==
  ASSUME Typed, NEW tasks, AnnounceCreated(tasks)
  PROVE  \A t \in Task : (t \in tasks \/ created[t] > 0) => created'[t] > 0
BY DEF Typed, AnnounceCreated

LEMMA AnnouncedEvents ==
  ASSUME Base, Base', Announced, NEW c \in Client,
         InstanceEvent(c) \/ TaskEvents(c) \/ CompletedEvent(c) \/ RestEvents(c)
  PROVE  Announced'
<1>0. /\ Typed /\ Stage(c) /\ Numbered(c) /\ owed \subseteq open /\ open \subseteq Task
      /\ UNCHANGED <<inst, open, owed, ended>>
      /\ inst = "completed" => open = {}
  BY DEF Base, Staged, Known, Typed, Placed, InstanceEvent, TaskEvents, CompletedEvent,
     RestEvents, data, ghosts
<1>1. SUFFICES ASSUME faults' = 0 PROVE Announced'
  BY DEF Announced
<1>2. faults = 0 /\ ~Fault
  BY <1>0, <1>1 DEF InstanceEvent, TaskEvents, CompletedEvent, RestEvents, Publish, Quiet,
     Fault, Typed
<1>3. CASE InstanceEvent(c) /\ req[c].op = "start"
  <2>1. Goto(c, "tasks") /\ UNCHANGED <<created, reassigned>> /\ told \subseteq told'
    BY <1>2, <1>3 DEF InstanceEvent, Publish
  <2>2. /\ Others(c) /\ Same(c) /\ req'[c].at = "tasks" /\ req'[c].opened = req[c].opened
    BY <1>0, <2>1, Goes DEF Step
  <2>3. ~Ends(c) /\ \A t : Owes(c, t) => Owes(c, t)'
    BY <1>3, <2>2 DEF Ends, Owes, Same
  <2> QED
    BY <1>0, <1>2, <2>1, <2>2, <2>3, AnnouncedMoves
<1>4. CASE InstanceEvent(c) /\ req[c].op # "start"
  <2>1. /\ Return(c) /\ UNCHANGED <<created, reassigned>> /\ told' = told \cup {"terminated"}
        /\ req[c].at = "instance"
    BY <1>2, <1>4 DEF InstanceEvent, Publish
  <2>2. Others(c)
    BY <1>0, <2>1, Returns
  <2>3. (\A t : ~Owes(c, t)) /\ (Ends(c) => ended \in told')
    BY <1>4, <2>1 DEF Ends, Owes
  <2> QED
    BY <1>0, <1>2, <2>1, <2>2, <2>3, AnnouncedMoves
<1>5. CASE TaskEvents(c)
  <2>1. /\ Return(c) /\ told' = told /\ req[c].at = "tasks"
        /\ IF req[c].op = "start"
             THEN AnnounceCreated(req[c].opened) /\ reassigned' = reassigned
             ELSE /\ created' = created
                  /\ reassigned' = reassigned \cup
                       (IF req[c].task = None THEN req[c].opened ELSE {req[c].task})
    BY <1>2, <1>5 DEF TaskEvents, Publish
  <2>2. Others(c) /\ reassigned \subseteq reassigned'
    BY <1>0, <2>1, Returns
  <2>3. \A t \in Task : created[t] > 0 => created'[t] > 0
    BY <1>0, <2>1, Announces
  <2>4. \A t \in owed : Owes(c, t) => created'[t] > 0 \/ t \in reassigned'
    <3>1. CASE req[c].op = "start"
      BY <1>0, <2>1, <3>1, Announces DEF Owes
    <3>2. CASE req[c].op # "start"
      BY <1>0, <2>1, <3>2 DEF Owes, Numbered
    <3> QED
      BY <3>1, <3>2
  <2>5. ~Ends(c)
    BY <2>1 DEF Ends
  <2> QED
    BY <1>0, <1>2, <2>1, <2>2, <2>3, <2>4, <2>5, AnnouncedMoves
<1>6. CASE CompletedEvent(c)
  <2>1. /\ req' = [req EXCEPT ![c].at = "rest", ![c].before = Now]
        /\ UNCHANGED <<created, reassigned, told>>
        /\ req[c].op = "complete" /\ req[c].at = "reread"
    BY <1>2, <1>6 DEF CompletedEvent, Publish, Reread, At
  <2>2. Others(c) /\ Same(c) /\ req'[c].at = "rest" /\ req'[c].before = Now
    BY <1>0, <2>1, GoesReading DEF Step
  <2>3. Now.inst = inst /\ Now.open = open
    BY DEF Now
  <2>4. \A t \in owed : Owes(c, t)'
    <3>1. req[c].task \notin open
      BY <1>0, <2>1 DEF Numbered
    <3> QED
      BY <1>0, <2>1, <2>2, <2>3, <3>1 DEF Owes, Same
  <2>5. Ends(c) => Ends(c)'
    <3>1. ended = "completed" => inst = "completed"
      BY DEF Base, Placed
    <3> QED
      BY <1>0, <2>1, <2>2, <2>3, <3>1 DEF Ends, Same
  <2> QED
    BY <1>0, <1>2, <2>1, <2>2, <2>4, <2>5, AnnouncedMoves
<1>7. CASE RestEvents(c)
  <2>1. /\ Return(c) /\ reassigned' = reassigned
        /\ req[c].op = "complete" /\ req[c].at = "rest"
        /\ IF req[c].before.inst = "completed"
             THEN told' = told \cup {"completed"} /\ created' = created
             ELSE told' = told /\ AnnounceCreated(req[c].before.open \ {req[c].task})
    BY <1>2, <1>7 DEF RestEvents, Publish, At
  <2>2. Others(c) /\ told \subseteq told'
    BY <1>0, <2>1, Returns
  <2>3. \A t \in Task : created[t] > 0 => created'[t] > 0
    BY <1>0, <2>1, Announces
  <2>4. \A t \in owed : Owes(c, t) => created'[t] > 0
    BY <1>0, <2>1, Announces DEF Owes
  <2>5. Ends(c) => ended \in told'
    BY <2>1 DEF Ends
  <2> QED
    BY <1>0, <1>2, <2>1, <2>2, <2>3, <2>4, <2>5, AnnouncedMoves
<1> QED
  BY <1>3, <1>4, <1>5, <1>6, <1>7

LEMMA AnnouncedStep ==
  ASSUME Base, Base', Announced, [Next]_vars
  PROVE  Announced'
<1>0. Typed /\ \A c \in Client : Stage(c)
  BY DEF Base, Staged
<1>1. ASSUME NEW c \in Client, Begins(c) PROVE Announced'
  <2>1. PICK r \in Request : Begin(c, r)
    BY <1>1, BeginsBegun DEF Begun
  <2>2. /\ req' = [req EXCEPT ![c] = r] /\ req[c] = Idle
        /\ UNCHANGED <<created, reassigned, told, ended, owed, faults>>
    BY <2>1 DEF Begin, events
  <2>3. Others(c) /\ Silent(c)
    BY <1>0, <2>2, IdleType DEF Typed, Others, Silent
  <2> QED
    BY <2>2, <2>3, AnnouncedQuiet
<1>2. ASSUME NEW c \in Client, CommitVariables(c) \/ CommitReassign(c) PROVE Announced'
  <2>1. PICK at \in {"record", "tasks"} : Goto(c, at)
    BY <1>2 DEF CommitVariables, CommitReassign
  <2>2. UNCHANGED <<created, reassigned, told, ended, owed, faults>> /\ Silent(c)
    BY <1>2 DEF CommitVariables, CommitReassign, At, Quiet, events, ghosts, Silent
  <2>3. Others(c)
    BY <1>0, <2>1, Goes DEF Step
  <2> QED
    BY <2>2, <2>3, AnnouncedQuiet
<1>3. ASSUME NEW c \in Client, Refused(c) PROVE Announced'
  <2>1. /\ Return(c) /\ req[c].at = "commit"
        /\ UNCHANGED <<created, reassigned, told, ended, owed, faults>>
    BY <1>3 DEF Refused, Quiet, events, ghosts
  <2>2. Others(c) /\ Silent(c)
    BY <1>0, <2>1, Returns DEF Silent
  <2> QED
    BY <2>1, <2>2, AnnouncedQuiet
<1>4. ASSUME NEW c \in Client, Crash(c) PROVE Announced'
  BY <1>0, <1>4 DEF Crash, Fault, Typed, Announced
<1>5. ASSUME NEW c \in Client, Record(c) PROVE Announced'
  <2>1. /\ req[c].at = "record" /\ UNCHANGED <<created, reassigned, told, ended, owed>>
        /\ (faults' = 0 => faults = 0)
    BY <1>0, <1>5 DEF Record, Quiet, Fault, Typed, events, ghosts
  <2>2. CASE req[c].op \in {"start", "complete"}
    <3>1. PICK at \in {"link", "instance", "reread"} :
            Goto(c, at) /\ (at = "reread" <=> req[c].op = "complete")
      BY <1>5, <2>2 DEF Record, AfterRecord
    <3>2. /\ Others(c) /\ Same(c) /\ req'[c].at = at /\ req'[c].opened = req[c].opened
      BY <1>0, <3>1, Goes DEF Step
    <3>3. (\A t : Owes(c, t) => Owes(c, t)') /\ (Ends(c) => Ends(c)')
      BY <2>1, <2>2, <3>1, <3>2 DEF Owes, Ends, Same
    <3> QED
      BY <2>1, <3>2, <3>3, AnnouncedMoves
  <2>3. CASE req[c].op \notin {"start", "complete"}
    <3>1. Return(c)
      BY <1>5, <2>3 DEF Record, AfterRecord
    <3>2. Others(c) /\ Silent(c)
      BY <1>0, <2>1, <2>3, <3>1, Returns DEF Silent, Stage
    <3> QED
      BY <2>1, <3>2, AnnouncedQuiet
  <2> QED
    BY <2>2, <2>3
<1>6. ASSUME NEW c \in Client, Link(c) PROVE Announced'
  <2>1. SUFFICES ASSUME faults' = 0 PROVE Announced'
    BY DEF Announced
  <2>2. /\ req[c].op = "start" /\ req[c].at = "link" /\ Goto(c, "instance")
        /\ UNCHANGED <<created, reassigned, told, ended, owed, faults>>
    BY <1>0, <1>6, <2>1 DEF Link, At, Quiet, Fault, Typed, events, ghosts
  <2>3. /\ Others(c) /\ Same(c) /\ req'[c].at = "instance" /\ req'[c].opened = req[c].opened
    BY <1>0, <2>2, Goes DEF Step
  <2>4. (\A t : Owes(c, t) => Owes(c, t)') /\ ~Ends(c)
    BY <2>2, <2>3 DEF Owes, Ends, Same
  <2> QED
    BY <2>2, <2>3, <2>4, AnnouncedMoves
<1>7. ASSUME NEW c \in Client, Compensate(c) PROVE Announced'
  <2>1. /\ Return(c) /\ Silent(c)
        /\ UNCHANGED <<created, reassigned, told, ended, faults>>
    BY <1>7 DEF Compensate, At, Quiet, events, Silent
  <2>2. owed' \subseteq owed
    BY <1>7 DEF Compensate, Terminate
  <2>3. Others(c)
    BY <1>0, <2>1, Returns
  <2> QED
    BY <2>1, <2>2, <2>3, AnnouncedQuiet
<1>8. CASE EngineAdvances \/ UNCHANGED vars
  <2>1. UNCHANGED <<req, created, reassigned, told, ended, faults>> /\ owed' \subseteq owed
    BY <1>8 DEF EngineAdvances, vars, events, ghosts
  <2>2. \A d \in Client : (Ends(d)' <=> Ends(d)) /\ \A t : (Owes(d, t)' <=> Owes(d, t))
    BY <2>1 DEF Ends, Owes
  <2> QED
    BY <2>1, <2>2 DEF Announced
<1> QED
  BY <1>1, <1>2, <1>3, <1>4, <1>5, <1>6, <1>7, <1>8, AnnouncedCommit, AnnouncedEvents
     DEF Next, Begins

LEMMA StepInv == IInv /\ [Next]_vars => IInv'
BY BaseStep, LinkedStep, ChainedStep, AnnouncedStep DEF IInv

-----------------------------------------------------------------------------

\* Whatever requests and engine steps interleave, and whatever fails, a start
\* that was to link a document leaves no running instance without the link
\* unless its compensation failed too or its process ended (start_instance).
THEOREM NoStartOrphaned == Spec => []NoOrphan
<1>1. IInv => NoOrphan
  BY DEF IInv, Linked
<1> QED
  BY InitInv, StepInv, <1>1, PTL DEF Spec

\* Requests made one at a time through the captured paths leave a history that
\* is a chain ending at the value the instance has (diff_var_changes).
THEOREM HistoryIsChained == Spec => []HistoryChained
<1>1. IInv => HistoryChained
  <2> SUFFICES ASSUME IInv, clean, Busy = {}, faults = 0, inst # "none"
               PROVE  /\ history # <<>>
                      /\ history[1].old = None
                      /\ \A i \in 2 .. Len(history) : history[i].old = history[i - 1].new
                      /\ history[Len(history)].new = value
    BY DEF HistoryChained
  <2>1. \A c \in Client : req[c].at # "record"
    BY IdleType DEF Busy
  <2>2. Threaded /\ Left = value /\ value \in Value /\ None \notin Value
    BY <2>1, RequestsAssumption DEF IInv, Chained
  <2>3. history # <<>>
    BY <2>2 DEF Left
  <2> QED
    BY <2>2, <2>3 DEF Left, Threaded
<1> QED
  BY InitInv, StepInv, <1>1, PTL DEF Spec

\* Where nothing failed, whatever a start, a completion or a withdrawal opened
\* and is still open has been announced once no request is under way, and so
\* has the end a completion or a cancellation brought about (complete_task
\* rereads the snapshot after the engine committed, and announces every open
\* task it finds).  The end of a start that runs through is not among them:
\* start_instance does not announce it (EndTold).
THEOREM OpenedAnnounced == Spec => []Told
<1>1. IInv => Told
  <2> SUFFICES ASSUME IInv, Busy = {}, faults = 0
               PROVE  /\ \A t \in owed : created[t] > 0 \/ t \in reassigned
                      /\ ended \in Kind => ended \in told
    BY DEF Told
  <2>1. \A c \in Client : req[c].op = "none"
    BY IdleType DEF Busy
  <2>2. \A c \in Client : ~Ends(c) /\ \A t : ~Owes(c, t)
    BY <2>1 DEF Ends, Owes
  <2> QED
    BY <2>2 DEF IInv, Announced
<1> QED
  BY InitInv, StepInv, <1>1, PTL DEF Spec
=============================================================================
