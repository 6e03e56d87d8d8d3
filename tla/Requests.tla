------------------------------ MODULE Requests ------------------------------
(***************************************************************************)
(* What the request handlers do around the engine for one instance: they   *)
(* read before the engine commits and again after it, write the variable   *)
(* history, the comments and the business link, and announce what happened *)
(* to the event stream and the outbox.  Each of these is a step of its     *)
(* own, other requests and the engine's pollers run in between, and a      *)
(* statement may fail or the process may end at any of them.               *)
(*                                                                         *)
(* Simplifications:                                                        *)
(*  - the engine's answer is any answer ProcessEngine can give: a commit   *)
(*    closes tasks, opens at most MaxOpened new ones, and may complete the *)
(*    instance when no task is open;                                       *)
(*  - there is one variable, and only requests write it; who may make a    *)
(*    request is not modelled, nor a failed read before the commit;        *)
(*  - an announcement is noted (TaskCreated counted, up to two), not       *)
(*    worded;                                                              *)
(*  - history and comment are written in one step, each may fail.          *)
(***************************************************************************)
EXTENDS Naturals, Sequences, FiniteSets

CONSTANTS Client, Value,
          None,       \* no value, no task
          MaxTask,    \* bound on the tasks of the instance
          MaxOpened,  \* bound on the tasks one commit opens
          MaxHistory, \* bound on the rows of the variable history
          MaxRequests, \* bound on the requests made
          Faults      \* bound on failed statements and crashes

ASSUME RequestsAssumption ==
  /\ {MaxTask, MaxOpened, MaxHistory, MaxRequests, Faults} \subseteq Nat
  /\ None \notin Value \cup Nat

Task == 1 .. MaxTask
Kind == {"started", "completed", "terminated"}

VARIABLES
  inst,     \* state of the instance
  open,     \* tasks that are not completed
  next,     \* the next task
  value,    \* the variable
  linked,   \* whether the business document is linked (cmx_flow_biz_link)
  history,  \* cmx_flow_var_history
  created,  \* how often each task was announced as created
  reassigned, finished,  \* tasks announced as reassigned, as completed
  told,     \* instance events announced
  req,      \* what each client's request is doing
  begun,    \* requests made
  faults,
  owed,     \* tasks whose opening a request answers for (history)
  ended,    \* how a request ended the instance: "atStart" is a start that ran
            \* through (history)
  clean,    \* no request overlapped another, and none rejected a task with a
            \* value: the history has no row for that (history)
  asked,    \* whether the instance was started with a link (history)
  orphaned  \* a start died, or could not take back what it started (history)

data == <<inst, open, next, value>>
events == <<created, reassigned, finished, told>>
ghosts == <<owed, ended, clean, asked, orphaned>>
vars == <<data, linked, history, events, req, begun, faults, ghosts>>

Snapshot == [inst : {"none", "running", "completed", "terminated"},
             open : SUBSET Task, value : Value \cup {None}]
Idle == [op |-> "none", at |-> "none", task |-> None, value |-> None,
         link |-> FALSE, before |-> <<>>, opened |-> {}]

TypeOK ==
  /\ inst \in {"none", "running", "completed", "terminated"}
  /\ open \subseteq Task /\ next \in 1 .. MaxTask + 1
  /\ value \in Value \cup {None}
  /\ linked \in BOOLEAN
  /\ history \in Seq([old : Value \cup {None}, new : Value])
  /\ created \in [Task -> 0 .. 2]
  /\ {reassigned, finished} \subseteq SUBSET Task
  /\ told \subseteq Kind
  /\ \A c \in Client :
       /\ req[c].task \in Task \cup {None}
       /\ req[c].value \in Value \cup {None}
       /\ req[c].link \in BOOLEAN
       /\ req[c].before \in Snapshot \cup {<<>>}
       /\ req[c].opened \subseteq Task
  /\ begun \in 0 .. MaxRequests /\ faults \in 0 .. Faults
  /\ owed \subseteq Task
  /\ ended \in Kind \cup {"none", "atStart"}
  /\ {clean, asked, orphaned} \subseteq BOOLEAN

Init ==
  /\ inst = "none" /\ open = {} /\ next = 1 /\ value = None
  /\ linked = FALSE /\ history = <<>>
  /\ created = [t \in Task |-> 0] /\ reassigned = {} /\ finished = {}
  /\ told = {}
  /\ req = [c \in Client |-> Idle]
  /\ begun = 0 /\ faults = 0
  /\ owed = {} /\ ended = "none" /\ clean = TRUE /\ asked = FALSE
  /\ orphaned = FALSE

Now == [inst |-> inst, open |-> open, value |-> value]
Busy == {c \in Client : req[c] # Idle}

At(c, op, at) == req[c].op \in op /\ req[c].at = at
Goto(c, at) == req' = [req EXCEPT ![c].at = at]
Return(c) == req' = [req EXCEPT ![c] = Idle]
Fault == faults < Faults /\ faults' = faults + 1 /\ UNCHANGED begun
Quiet == UNCHANGED <<faults, begun>>

\* TaskCreated once more for each of these tasks.
AnnounceCreated(tasks) ==
  created' = [t \in Task |-> IF t \in tasks /\ created[t] < 2 THEN created[t] + 1
                                                            ELSE created[t]]

\* publish_events: the statement that writes the rows may fail, which is only
\* logged; the caller goes on either way.
Publish(happened) == \/ happened /\ Quiet
                     \/ UNCHANGED events /\ Fault

-----------------------------------------------------------------------------
(* A request begins: the handlers read before they call the engine.        *)

Begin(c, r) ==
  /\ req[c] = Idle /\ begun < MaxRequests
  /\ req' = [req EXCEPT ![c] = r] /\ begun' = begun + 1
  /\ clean' = (clean /\ Busy = {})
  /\ UNCHANGED <<data, linked, history, events, faults, owed, ended, asked,
                 orphaned>>

Start(c) ==
  /\ inst = "none"
  /\ \A d \in Busy : req[d].op # "start"
  /\ \E v \in Value, link \in BOOLEAN :
       Begin(c, [Idle EXCEPT !.op = "start", !.at = "commit", !.value = v,
                             !.link = link])

\* The task's row and the variables are read first.
OldValues(c, op) ==
  \E t \in open, v \in Value \cup {None} :
    Begin(c, [Idle EXCEPT !.op = op, !.at = "commit", !.task = t,
                          !.value = v, !.before = Now])
Complete(c) == OldValues(c, "complete")
Reject(c) == OldValues(c, "reject")

SetVariables(c) ==
  /\ inst # "none"
  /\ \E v \in Value : Begin(c, [Idle EXCEPT !.op = "set", !.at = "commit",
                                            !.value = v, !.before = Now])

\* transfer_task, delegate_task and add_sign_task.
Reassign(c) ==
  \E t \in open : Begin(c, [Idle EXCEPT !.op = "reassign", !.at = "commit",
                                        !.task = t])
Withdraw(c) ==
  inst = "running" /\ Begin(c, [Idle EXCEPT !.op = "withdraw", !.at = "commit"])
Cancel(c) ==
  inst # "none" /\ Begin(c, [Idle EXCEPT !.op = "cancel", !.at = "commit"])

-----------------------------------------------------------------------------
(* The engine commits.                                                     *)

\* The engine leaves the tasks that stay, opens new ones, and may complete
\* the instance once no task is open.
Advance(stay, least) ==
  \E n \in least .. MaxOpened :
    /\ next + n <= MaxTask + 1
    /\ next' = next + n
    /\ open' = stay \cup (next .. next + n - 1)
    /\ inst' \in IF open' = {} THEN {"running", "completed"} ELSE {"running"}

Opened == open' \ open
Kept(v) == IF v = None THEN value ELSE v

CommitStart(c) ==
  /\ At(c, {"start"}, "commit")
  /\ Advance({}, 0)
  /\ value' = req[c].value
  /\ req' = [req EXCEPT ![c].at = "record", ![c].opened = open']
  /\ owed' = open' /\ asked' = req[c].link
  /\ ended' = IF inst' = "completed" THEN "atStart" ELSE ended
  /\ UNCHANGED <<linked, history, events, clean, orphaned>> /\ Quiet

CommitTask(c) ==
  /\ At(c, {"complete", "reject"}, "commit")
  /\ inst = "running" /\ req[c].task \in open
  /\ Advance(open \ {req[c].task}, IF req[c].op = "reject" THEN 1 ELSE 0)
  /\ value' = Kept(req[c].value)
  /\ Goto(c, "record")
  /\ owed' = (owed \cap open') \cup (IF req[c].op = "complete" THEN Opened ELSE {})
  /\ ended' = IF inst' = "completed" THEN "completed" ELSE ended
  /\ clean' = (clean /\ (req[c].op = "complete" \/ req[c].value = None))
  /\ UNCHANGED <<linked, history, events, asked, orphaned>> /\ Quiet

\* Whatever state the instance is in.
CommitVariables(c) ==
  /\ At(c, {"set"}, "commit")
  /\ value' = req[c].value
  /\ Goto(c, "record")
  /\ UNCHANGED <<inst, open, next, linked, history, events, ghosts>> /\ Quiet

CommitReassign(c) ==
  /\ At(c, {"reassign"}, "commit")
  /\ inst = "running" /\ req[c].task \in open
  /\ Goto(c, "tasks")
  /\ UNCHANGED <<data, linked, history, events, ghosts>> /\ Quiet

\* The tasks are dropped and the initiator gets a new one.
CommitWithdraw(c) ==
  /\ At(c, {"withdraw"}, "commit")
  /\ inst = "running" /\ next <= MaxTask
  /\ open' = {next} /\ next' = next + 1
  /\ req' = [req EXCEPT ![c].at = "tasks", ![c].opened = open']
  /\ owed' = open'
  /\ UNCHANGED <<inst, value, linked, history, events, ended, clean, asked,
                 orphaned>> /\ Quiet

\* cancel_process answers an instance that has ended with its view.
CommitCancel(c) ==
  /\ At(c, {"cancel"}, "commit")
  /\ IF inst = "running"
       THEN /\ inst' = "terminated" /\ open' = {} /\ owed' = {}
            /\ ended' = "terminated"
       ELSE UNCHANGED <<inst, open, owed, ended>>
  /\ Goto(c, "instance")
  /\ UNCHANGED <<next, value, linked, history, events, clean, asked, orphaned>> /\ Quiet

\* The task is not open any more, the instance is not running, or another
\* request committed between the engine's load and its save: an error, and
\* nothing else happens.
Refused(c) ==
  /\ req[c].at = "commit" /\ req[c].op # "start"
  /\ \/ req[c].task # None /\ req[c].task \notin open
     \/ req[c].op \notin {"set", "cancel"} /\ inst # "running"
     \/ Busy # {c}
  /\ Return(c)
  /\ UNCHANGED <<data, linked, history, events, ghosts>> /\ Quiet

\* A timer, a job, a message, a jump or a retried incident advances the
\* instance: the callers announce nothing.
EngineAdvances ==
  /\ inst = "running"
  /\ \E stay \in SUBSET open : Advance(stay, 0)
  /\ <<inst', open'>> # <<inst, open>>
  /\ owed' = owed \cap open'
  /\ UNCHANGED <<value, linked, history, events, req, begun, faults, ended,
                 clean, asked, orphaned>>

-----------------------------------------------------------------------------
(* After the commit: the history, the comment, the business link.          *)

\* diff_var_changes: what the request brought, against what was read.
Old_AfterCommit(c) == value
Old(c) == IF req[c].before = <<>> THEN None ELSE req[c].before.value

Changed(c) ==
  IF req[c].value = None \/ req[c].value = Old(c) THEN <<>>
  ELSE <<[old |-> Old(c), new |-> req[c].value]>>

AfterRecord(c) ==
  CASE req[c].op = "start" -> IF req[c].link THEN Goto(c, "link") ELSE Goto(c, "instance")
    [] req[c].op = "complete" -> Goto(c, "reread")
    [] OTHER -> Return(c)

\* record_var_history and insert_task_comment: a failure is only logged.
Record(c) ==
  /\ req[c].at = "record"
  /\ Len(history) < MaxHistory
  /\ \/ req[c].op # "reject" /\ history' = history \o Changed(c) /\ Quiet
     \/ req[c].op = "reject" /\ history' = history /\ Quiet
     \/ history' = history /\ Fault
  /\ AfterRecord(c)
  /\ UNCHANGED <<data, linked, events, ghosts>>

\* A failed link cancels the instance.
Link(c) ==
  /\ At(c, {"start"}, "link")
  /\ \/ linked' = TRUE /\ Goto(c, "instance") /\ Quiet
     \/ linked' = linked /\ Goto(c, "compensate") /\ Fault
  /\ UNCHANGED <<data, history, events, ghosts>>

\* The compensation may conflict with another commit, or fail: only logged.
Terminate_Never == UNCHANGED <<inst, open, owed>>
Terminate ==
  IF inst = "running"
    THEN inst' = "terminated" /\ open' = {} /\ owed' = {}
    ELSE UNCHANGED <<inst, open, owed>>

Compensate(c) ==
  /\ At(c, {"start"}, "compensate")
  /\ \/ Terminate /\ Quiet /\ UNCHANGED orphaned
     \/ UNCHANGED <<inst, open, owed>> /\ orphaned' = TRUE /\ Quiet
  /\ Return(c)
  /\ UNCHANGED <<next, value, linked, history, events, ended, clean, asked>>

-----------------------------------------------------------------------------
(* The announcements.                                                      *)

\* InstanceStarted, then TaskCreated for what the start opened, also where the
\* instance is over already; or InstanceTerminated, whatever state it is in.
InstanceEvent(c) ==
  /\ req[c].at = "instance"
  /\ LET kind == IF req[c].op = "start" THEN "started" ELSE "terminated"
     IN Publish(told' = told \cup {kind}
                /\ UNCHANGED <<created, reassigned, finished>>)
  /\ IF req[c].op = "start" THEN Goto(c, "tasks") ELSE Return(c)
  /\ UNCHANGED <<data, linked, history, ghosts>>

TaskEvents(c) ==
  /\ req[c].at = "tasks"
  /\ Publish(
       IF req[c].op = "start"
       THEN /\ AnnounceCreated(req[c].opened)
            /\ UNCHANGED <<reassigned, finished, told>>
       ELSE /\ reassigned' = reassigned \cup
                 (IF req[c].task = None THEN req[c].opened ELSE {req[c].task})
            /\ UNCHANGED <<created, finished, told>>)
  /\ Return(c)
  /\ UNCHANGED <<data, linked, history, ghosts>>

\* complete_task loads the snapshot again; a failed load announces nothing of
\* what follows.  TaskCompleted goes out first.
Reread_Before(c) == req[c].before
Reread(c) == Now

CompletedEvent(c) ==
  /\ At(c, {"complete"}, "reread")
  /\ \/ req' = [req EXCEPT ![c].at = "rest", ![c].before = Reread(c)]
        /\ Publish(finished' = finished \cup {req[c].task}
                   /\ UNCHANGED <<created, reassigned, told>>)
     \/ /\ finished' = finished \cup {req[c].task}
        /\ Return(c) /\ Fault
        /\ UNCHANGED <<created, reassigned, told>>
  /\ UNCHANGED <<data, linked, history, ghosts>>

\* InstanceCompleted, or TaskCreated for every other task that is open.
RestEvents(c) ==
  /\ At(c, {"complete"}, "rest")
  /\ Publish(
       IF req[c].before.inst = "completed"
       THEN /\ told' = told \cup {"completed"}
            /\ UNCHANGED <<created, reassigned, finished>>
       ELSE /\ AnnounceCreated(req[c].before.open \ {req[c].task})
            /\ UNCHANGED <<reassigned, finished, told>>)
  /\ Return(c)
  /\ UNCHANGED <<data, linked, history, ghosts>>

-----------------------------------------------------------------------------

\* The process ends with the request.
Crash(c) ==
  /\ req[c] # Idle
  /\ Fault
  /\ Return(c)
  /\ orphaned' = (orphaned \/ (req[c].op = "start" /\ inst # "none"))
  /\ UNCHANGED <<data, linked, history, events, owed, ended, clean, asked>>

Next ==
  \/ \E c \in Client :
       \/ Start(c) \/ Complete(c) \/ Reject(c) \/ SetVariables(c)
       \/ Reassign(c) \/ Withdraw(c) \/ Cancel(c)
       \/ CommitStart(c) \/ CommitTask(c) \/ CommitVariables(c)
       \/ CommitReassign(c) \/ CommitWithdraw(c) \/ CommitCancel(c)
       \/ Refused(c)
       \/ Record(c) \/ Link(c) \/ Compensate(c)
       \/ InstanceEvent(c) \/ TaskEvents(c)
       \/ CompletedEvent(c) \/ RestEvents(c)
       \/ Crash(c)
  \/ EngineAdvances

Spec == Init /\ [][Next]_vars

-----------------------------------------------------------------------------
(* Properties.                                                             *)

\* When no request is under way and nothing failed, every open task that a
\* start, a completion or a withdrawal opened has been announced, and so has
\* the end a completion or a cancellation brought about, however the requests
\* and the engine's own steps interleaved (complete_task rereads after the
\* engine committed).
Told ==
  Busy = {} /\ faults = 0 =>
    /\ \A t \in owed : created[t] > 0 \/ t \in reassigned
    /\ ended \in Kind => ended \in told

\* Every end a request brings about is announced (docs/usage/08 lists
\* "instance.completed").  The code does not do it: of an instance that a start
\* runs through, start_instance announces the start and never the end.
EndTold == Busy = {} /\ faults = 0 /\ ended # "none" => inst \in told

\* Requests made one at a time, and by the paths that are captured, leave a
\* history that is a chain: each row starts from the value the row before
\* left, and the last one left the value the instance has (diff_var_changes
\* against what was read before).
HistoryChained ==
  clean /\ Busy = {} /\ faults = 0 /\ inst # "none" =>
    /\ history # <<>>
    /\ history[1].old = None
    /\ \A i \in 2 .. Len(history) : history[i].old = history[i - 1].new
    /\ history[Len(history)].new = value

\* A start that was to link a document leaves no running instance without
\* the link, whatever ran in between, unless its compensation failed too or
\* its process ended (start_instance).
NoOrphan ==
  asked /\ inst = "running" /\ ~(\E c \in Busy : req[c].op = "start")
  => linked \/ orphaned

\* A task is announced as created once: only newly opened tasks are.  The code
\* does not keep this: a completion announces the open tasks of other branches
\* again.
AnnouncedOnce == \A t \in Task : created[t] <= 1
=============================================================================
