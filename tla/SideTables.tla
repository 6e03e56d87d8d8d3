------------------------------ MODULE SideTables ------------------------------
(***************************************************************************)
(* Two tables kept beside the instances, by statements of their own around *)
(* the save of the aggregate: the subscriptions by which a message finds   *)
(* the instance that waits for it, and the ledger of incidents by which    *)
(* the automatic retry finds the instances to retry.  Calls on several     *)
(* instances interleave with each other and with the retry poller; a       *)
(* statement may fail and a process may end between any two of them.       *)
(*                                                                         *)
(* Simplifications:                                                        *)
(*  - an instance has some branches; one that is moved on comes to rest at *)
(*    a user task, a message catch event, an event gateway (a message or a *)
(*    timer), in an incident of its own service task, or at its end;       *)
(*  - there is one message, every catch event of which compares the same   *)
(*    variable, which nobody changes; variables, suspension, sub-processes *)
(*    and asynchronous jobs are left out;                                  *)
(*  - which subscription is the oldest depends on the clocks of the        *)
(*    replicas: any; the lookup and the scan after it are one step;        *)
(*  - a closed row of the ledger is the same as none.                      *)
(***************************************************************************)
EXTENDS Naturals, Sequences, FiniteSets, SequencesExt

CONSTANTS Branch, Client, Key,
          Poller,       \* the automatic retry
          None,         \* no key, no instance
          MaxInstance,  \* bound on instances, numbered as they were created
          ScanLimit,    \* instances the scan looks at (500)
          RetryBatch,   \* instances the poller takes in a round (20)
          MaxCalls,     \* bound on the clients' calls
          Faults        \* bound on failed statements and ended processes

ASSUME SideTablesAssumption ==
  /\ {MaxInstance, ScanLimit, RetryBatch, MaxCalls, Faults} \subseteq Nat
  /\ Poller \notin Client
  /\ None \notin Key \cup Nat

Instance == 1 .. MaxInstance
Caller == Client \cup {Poller}
Rest == {"task", "catch", "gateway", "incident", "done"}

VARIABLES
  key,     \* the variable each instance's catch events compare
  state,   \* state of each instance
  place,   \* where each branch of each instance rests
  subs,    \* cmx_flow_message_subscription: instance and branch
  open,    \* cmx_flow_incident: OPEN rows, the one updated last at the end
  call,    \* what each caller is doing
  todo,    \* instances left of the poller's round
  calls, faults,
  closed   \* rows a retry closed, or that could not be written (history)

vars == <<key, state, place, subs, open, call, todo, calls, faults, closed>>

Idle == [op |-> "none", at |-> "none", inst |-> None, key |-> None,
         moving |-> {}, copy |-> [b \in Branch |-> "task"], waits |-> {},
         stale |-> FALSE, alone |-> TRUE]

TypeOK ==
  /\ key \in [Instance -> Key]
  /\ state \in [Instance -> {"active", "completed", "terminated"}]
  /\ place \in [Instance -> [Branch -> Rest]]
  /\ subs \subseteq Instance \X Branch
  /\ open \in Seq(Instance \X Branch)
  /\ \A c \in Caller :
       /\ call[c].inst \in Instance \cup {None}
       /\ call[c].key \in Key \cup {None}
       /\ call[c].moving \subseteq Branch
       /\ call[c].copy \in [Branch -> Rest]
       /\ call[c].waits \subseteq Branch
       /\ {call[c].stale, call[c].alone} \subseteq BOOLEAN
  /\ todo \in Seq(Instance)
  /\ calls \in 0 .. MaxCalls /\ faults \in 0 .. Faults
  /\ closed \subseteq Instance \X Branch

\* Every instance has been started: its branches rest where they first had to,
\* and the start wrote the rows of those that wait or failed.
Init ==
  /\ key \in [Instance -> Key]
  /\ state = [i \in Instance |-> "active"]
  /\ place \in [Instance -> [Branch -> Rest \ {"done"}]]
  /\ subs = {s \in Instance \X Branch : place[s[1]][s[2]] \in {"catch", "gateway"}}
  /\ open = SetToSeq({r \in Instance \X Branch : place[r[1]][r[2]] = "incident"})
  /\ call = [c \in Caller |-> Idle]
  /\ todo = <<>>
  /\ calls = 0 /\ faults = 0 /\ closed = {}

Busy == {c \in Caller : call[c] # Idle}
Terminal(i) == state[i] # "active"
Of(i) == {i} \X Branch
At(c, op, at) == call[c].op \in op /\ call[c].at = at
Goto(c, at) == call' = [call EXCEPT ![c].at = at]
Return(c) == call' = [call EXCEPT ![c] = Idle]
Fault == faults < Faults /\ faults' = faults + 1
Tables == <<key, state, place, subs, open, closed>>

-----------------------------------------------------------------------------
(* A call begins.                                                          *)

Begin(c, r) ==
  /\ call[c] = Idle
  /\ call' = [d \in Caller |->
                IF d = c THEN [r EXCEPT !.alone = r.key = None \/ Busy = {}]
                ELSE [call[d] EXCEPT !.alone = call[d].key = None]]
  /\ UNCHANGED <<Tables, faults>>

Request(c, op, i) ==
  /\ calls < MaxCalls /\ calls' = calls + 1
  /\ Begin(c, [Idle EXCEPT !.op = op, !.at = "load", !.inst = i])
  /\ UNCHANGED todo

CompleteTask(c) == \E i \in Instance : Request(c, "complete", i)
TriggerTimers(c) == \E i \in Instance : Request(c, "timers", i)
RetryIncident(c) == \E i \in Instance : Request(c, "retry", i)
CancelProcess(c) == \E i \in Instance : Request(c, "cancel", i)
JumpTo(c) == \E i \in Instance : Request(c, "jump", i)

\* With the instance's id, or with a key only.
CorrelateMessage(c) ==
  \/ \E i \in Instance : Request(c, "correlate", i)
  \/ /\ calls < MaxCalls /\ calls' = calls + 1
     /\ \E k \in Key :
          Begin(c, [Idle EXCEPT !.op = "correlate", !.at = "find", !.key = k])
     /\ UNCHANGED todo

\* spawn_incident_retry: the instances with an OPEN row, the one whose rows
\* were all updated longest ago first.
Oldest ==
  LET last == SelectSeq([n \in DOMAIN open |-> <<n, open[n][1]>>],
                        LAMBDA r : \A m \in DOMAIN open : open[m][1] = r[2] => m <= r[1])
  IN [n \in DOMAIN last |-> last[n][2]]

RetryRound ==
  /\ call[Poller] = Idle /\ todo = <<>> /\ open # <<>>
  /\ todo' = SubSeq(Oldest, 1, IF Len(Oldest) < RetryBatch THEN Len(Oldest) ELSE RetryBatch)
  /\ UNCHANGED <<Tables, call, calls, faults>>

RetryNext ==
  /\ todo # <<>>
  /\ Begin(Poller, [Idle EXCEPT !.op = "retry", !.at = "load", !.inst = Head(todo)])
  /\ todo' = Tail(todo)
  /\ UNCHANGED calls

-----------------------------------------------------------------------------
(* Whom a message is for.                                                  *)

\* find_message_instance: the newest instances, of any state, that wait at a
\* catch event; event gateways are not looked at.
Scanned(k) ==
  {i \in Instance : /\ i > MaxInstance - ScanLimit
                    /\ state[i] = "active" /\ key[i] = k
                    /\ \E b \in Branch : place[i][b] = "catch"}

\* The first subscription counts if its instance has the key.
Exact(i, k) == key[i] = k

\* The scan is for when there is no subscription, or the first is not exact,
\* or the lookup failed.
Scanning_NoRow(k) == subs = {}
Scanning(k) == subs = {} \/ \E s \in subs : ~Exact(s[1], k)

Found(k) ==
  {s[1] : s \in {s \in subs : Exact(s[1], k)}}
  \cup (IF Scanning(k) THEN Scanned(k) ELSE {})

FindInstance(c) ==
  /\ At(c, {"correlate"}, "find")
  /\ \/ \E i \in Found(call[c].key) : call' = [call EXCEPT ![c].at = "load", ![c].inst = i]
        /\ UNCHANGED faults
     \/ \E i \in Scanned(call[c].key) : call' = [call EXCEPT ![c].at = "load", ![c].inst = i]
        /\ Fault
  /\ UNCHANGED <<Tables, todo, calls>>

\* Neither a subscription nor the scan leads to an instance, or the instance
\* it leads to has no branch that waits: an error.
Addressed(i) == {b \in Branch : place[i][b] \in {"catch", "gateway"}}

Undelivered(c) ==
  /\ \/ /\ At(c, {"correlate"}, "find")
        /\ \/ Scanning(call[c].key) /\ Scanned(call[c].key) = {}
           \/ Found(call[c].key) = {}
     \/ /\ At(c, {"correlate"}, "load")
        /\ Addressed(call[c].inst) = {}
  /\ Return(c)
  /\ UNCHANGED <<Tables, todo, calls, faults>>

-----------------------------------------------------------------------------
(* Load, run, save.                                                        *)

\* The branches a call moves on: one that waits for it, every incident, or
\* with a jump and a cancellation all of them.
Moved(c) ==
  LET i == call[c].inst
      one(at) == {{b} : b \in {b \in Branch : place[i][b] \in at}}
  IN CASE call[c].op = "complete" -> one({"task"})
       [] call[c].op = "timers" -> one({"gateway"})
       [] call[c].op = "correlate" -> {{b} : b \in Addressed(i)}
       [] call[c].op = "retry" -> {{b \in Branch : place[i][b] = "incident"}} \ {{}}
       [] OTHER -> {Branch}

Load(c) ==
  LET i == call[c].inst
  IN /\ call[c].at = "load"
     /\ ~Terminal(i)
     /\ \E moving \in Moved(c) :
          call' = [call EXCEPT ![c].at = IF call[c].op = "cancel" THEN "save" ELSE "run",
                               ![c].moving = moving, ![c].copy = place[i]]
     /\ UNCHANGED <<Tables, todo, calls, faults>>

\* Nothing to do.  A retry of an instance that has ended closes what is left
\* of it in the ledger.
Leftover_Never(c) == FALSE
Leftover(c) == call[c].op = "retry" /\ Terminal(call[c].inst)

Unmoved(c) ==
  /\ call[c].at = "load" /\ call[c].op # "correlate"
  /\ Terminal(call[c].inst) \/ Moved(c) = {}
  /\ IF Leftover(c) THEN Goto(c, "resolve") ELSE Return(c)
  /\ UNCHANGED <<Tables, todo, calls, faults>>

\* upsert_incident: one row per instance and node, OPEN again.
Upserted(rows, new) == SelectSeq(rows, LAMBDA r : r \notin new) \o SetToSeq(new)

\* The rows of the incidents are written while the instance runs, before the
\* save: a failure is only logged.  An event gateway may fail when its message
\* is subscribed already (late).  A jump ends the other branches.
RunToWait(c) ==
  LET i == call[c].inst
  IN /\ call[c].at = "run"
     /\ \E rest \in [call[c].moving -> Rest] :
        \E late \in SUBSET {b \in call[c].moving : rest[b] = "incident"} :
          LET copy == [b \in Branch |-> IF b \in call[c].moving THEN rest[b]
                                        ELSE call[c].copy[b]]
              new  == {i} \X {b \in call[c].moving : rest[b] = "incident"}
          IN /\ call[c].op = "jump" =>
                  \E b \in Branch :
                    /\ call[c].copy[b] # "done"
                    /\ rest = [d \in Branch |-> IF d = b THEN "task" ELSE "done"]
             /\ call' = [call EXCEPT
                  ![c].at = "save", ![c].copy = copy,
                  ![c].waits = {b \in call[c].moving : rest[b] \in {"catch", "gateway"}}
                               \cup late]
             /\ \/ /\ open' = Upserted(open, new) /\ closed' = closed \ new
                   /\ UNCHANGED faults
                \/ /\ new # {} /\ Fault
                   /\ closed' = closed \cup new /\ UNCHANGED open
     /\ UNCHANGED <<key, state, place, subs, todo, calls>>

AfterSave(op) == IF op = "cancel" THEN "delete" ELSE "flush"

\* The compare-and-swap: whoever loaded before loses.
Save(c) ==
  LET i == call[c].inst
  IN /\ call[c].at = "save"
     /\ IF call[c].stale
          THEN Return(c) /\ UNCHANGED <<state, place>>
          ELSE /\ call' = [d \in Caller |->
                    IF d = c THEN [Idle EXCEPT !.op = call[c].op, !.inst = i,
                                               !.at = AfterSave(call[c].op),
                                               !.waits = call[c].waits]
                    ELSE IF call[d].inst = i /\ call[d].at \in {"run", "save"}
                    THEN [call[d] EXCEPT !.stale = TRUE] ELSE call[d]]
               /\ place' = [place EXCEPT ![i] = IF call[c].op = "cancel"
                              THEN [b \in Branch |-> "done"] ELSE call[c].copy]
               /\ state' = [state EXCEPT ![i] =
                    IF call[c].op = "cancel" THEN "terminated"
                    ELSE IF \A b \in Branch : call[c].copy[b] = "done" THEN "completed"
                    ELSE @]
     /\ UNCHANGED <<key, subs, open, closed, todo, calls, faults>>

-----------------------------------------------------------------------------
(* After the save.                                                         *)

AfterFlush(op) ==
  CASE op \in {"correlate", "timers"} -> "delete"
    [] op = "retry" -> "resolve"
    [] OTHER -> "end"

Then(c, at) == IF at = "end" THEN Return(c) ELSE Goto(c, at)

\* flush_pending_subs: a failure is only logged.
Flush(c) ==
  /\ call[c].at = "flush"
  /\ \/ subs' = subs \cup ({call[c].inst} \X call[c].waits) /\ UNCHANGED faults
     \/ call[c].waits # {} /\ subs' = subs /\ Fault
  /\ Then(c, AfterFlush(call[c].op))
  /\ UNCHANGED <<key, state, place, open, closed, todo, calls>>

\* delete_subscriptions_by_instance: all of them, those just written too.
Delete(c) ==
  /\ call[c].at = "delete"
  /\ \/ subs' = subs \ Of(call[c].inst) /\ UNCHANGED faults
     \/ subs' = subs /\ Fault
  /\ Then(c, IF call[c].op = "cancel" THEN "resolve" ELSE "end")
  /\ UNCHANGED <<key, state, place, open, closed, todo, calls>>

\* resolve_incidents_by_instance.
Resolved_All(i) == <<>>
Resolved(i) == SelectSeq(open, LAMBDA r : r \notin Of(i))

Resolve(c) ==
  /\ call[c].at = "resolve"
  /\ \/ /\ open' = Resolved(call[c].inst)
        /\ closed' = IF call[c].op = "retry" THEN closed \cup Of(call[c].inst) ELSE closed
        /\ UNCHANGED faults
     \/ UNCHANGED <<open, closed>> /\ Fault
  /\ Return(c)
  /\ UNCHANGED <<key, state, place, subs, todo, calls>>

\* The process ends with its call, and with the poller's round.
Crash(c) ==
  /\ c \in Busy /\ Fault
  /\ Return(c)
  /\ todo' = IF c = Poller THEN <<>> ELSE todo
  /\ UNCHANGED <<Tables, calls>>

-----------------------------------------------------------------------------

Advance(c) ==
  \/ FindInstance(c) \/ Undelivered(c) \/ Load(c) \/ Unmoved(c)
  \/ RunToWait(c) \/ Save(c) \/ Flush(c) \/ Delete(c) \/ Resolve(c)

Next ==
  \/ \E c \in Client :
       \/ CompleteTask(c) \/ CorrelateMessage(c) \/ TriggerTimers(c)
       \/ RetryIncident(c) \/ CancelProcess(c) \/ JumpTo(c)
  \/ RetryRound \/ RetryNext
  \/ \E c \in Caller : Advance(c) \/ Crash(c)

Spec == Init /\ [][Next]_vars

\* Calls run to their end and the poller goes round and round.
Fairness ==
  /\ WF_vars(RetryRound) /\ WF_vars(RetryNext)
  /\ \A c \in Caller : WF_vars(Advance(c))

-----------------------------------------------------------------------------
(* Properties.                                                             *)

Waits(i, k) == state[i] = "active" /\ key[i] = k
               /\ \E b \in Branch : place[i][b] = "catch"

\* A message with a key that no call disturbs reaches an instance that waits
\* for it at a catch event, whatever became of the subscriptions before: lost,
\* deleted with another branch's, or left behind.  Only a subscription left
\* behind by another instance with the same key can hide the one that waits
\* (correlate_message, find_message_instance).
Delivered ==
  [][\A c \in Client :
       Undelivered(c) /\ call[c].key # None /\ call[c].alone =>
         \A i \in Instance : Waits(i, call[c].key) =>
           \E s \in subs : s[1] # i /\ key[s[1]] = call[c].key /\ Addressed(s[1]) = {}]_vars

\* An incident of an instance that has not ended is in the ledger, whatever
\* conflicts, failures and crashes came in between, unless the row could not
\* be written or a retry of the instance closed it since (upsert_incident_aux).
Listed ==
  \A i \in Instance, b \in Branch :
    place[i][b] = "incident" => <<i, b>> \in Range(open) \cup closed

\* A failed retry leaves the incident in the ledger for the next round.  The
\* code does not keep this: a retry closes the rows it has just written.
RetriedAgain ==
  \A i \in Instance, b \in Branch :
    place[i][b] = "incident" /\ faults = 0 => <<i, b>> \in Range(open)

Ghosts == {i \in Instance : /\ ~Terminal(i) /\ \E b \in Branch : <<i, b>> \in Range(open)
                            /\ \A b \in Branch : place[i][b] # "incident"}

\* What the ledger lists of an instance that has ended is closed in the end
\* by the automatic retry, unless the rows of instances that go on without an
\* incident fill its round (retry_incident, spawn_incident_retry).
GhostsClosed ==
  \A i \in Instance :
    Terminal(i) /\ (\E b \in Branch : <<i, b>> \in Range(open))
    ~> \/ \A b \in Branch : <<i, b>> \notin Range(open)
       \/ Cardinality(Ghosts) >= RetryBatch
=============================================================================
