--------------------------- MODULE MCProcessEngine ---------------------------
(***************************************************************************)
(* Small process definitions, one per construct whose tokens interact, and *)
(* the calls made on the instances of each.                                *)
(***************************************************************************)
EXTENDS ProcessEngine, TLC

\* The paths of a definition, each a sequence of nodes; where paths part, the
\* node's flows are in the order of the paths.
Edges(paths) ==
  {<<p, i>> \in (DOMAIN paths) \X (1 .. 9) : i < Len(paths[p])}
Follow(paths, n) ==
  LET from == {e \in Edges(paths) : paths[e[1]][e[2]] = n}
      next(e) == paths[e[1]][e[2] + 1]
      rank(e) == Cardinality({next(d) : d \in {x \in from : x[1] < e[1]}})
      firsts == {e \in from : \A d \in from : next(d) = next(e) => e[1] <= d[1]}
  IN  [i \in 1 .. Cardinality(firsts) |-> next(CHOOSE e \in firsts : rank(e) = i - 1)]

None == [n \in {} |-> n]
Graph(kind, paths) ==
  [start |-> "start", kind |-> kind,
   out |-> [n \in DOMAIN kind |-> Follow(paths, n)],
   host |-> None, cancel |-> {}, repeat |-> None, async |-> {}, throws |-> None,
   code |-> None, mi |-> None, fragile |-> {}, lenient |-> FALSE]
Kinds(users, others) == [n \in users |-> "userTask"] @@ others @@
                        [start |-> "start", end |-> "end"]

\* Two user tasks and a choice between them.
Approval ==
  Graph(Kinds({"a", "b"}, [x |-> "exclusive"]),
        <<<<"start", "a", "x", "b", "end">>, <<"x", "end">>>>)

\* A task, then two branches that join.
Parallel ==
  [Graph(Kinds({"a", "b", "c"}, [fork |-> "parallel", join |-> "parallel"]),
         <<<<"start", "a", "fork", "b", "join", "end">>, <<"fork", "c", "join">>>>) EXCEPT
    !.lenient = TRUE]

\* An inclusive fork and join.
Inclusive ==
  Graph(Kinds({"a", "b"}, [fork |-> "inclusive", join |-> "inclusive"]),
        <<<<"start", "fork", "a", "join", "end">>, <<"fork", "b", "join">>>>)

\* One branch ends everything, the other is an embedded sub-process.
Veto ==
  Graph(Kinds({"a", "b"}, [fork |-> "parallel", sub |-> "subProcess", x |-> "terminateEnd"]),
        <<<<"start", "fork", "a", "x">>, <<"fork", "b", "sub">>>>)

Countersign(sequential) ==
  [Graph(Kinds({"m", "a"}, None), <<<<"start", "m", "a", "end">>>>) EXCEPT
    !.mi = [m |-> [sequential |-> sequential, sizes |-> {0, 2}, early |-> TRUE]]]

\* A countersignature on one of two branches.
Nested ==
  [Graph(Kinds({"m", "b"}, [fork |-> "parallel", join |-> "parallel"]),
         <<<<"start", "fork", "m", "join", "end">>, <<"fork", "b", "join">>>>) EXCEPT
    !.mi = [m |-> [sequential |-> FALSE, sizes |-> {0, 2}, early |-> FALSE]]]

\* A countersignature that two branches lead to.
Twice ==
  [Graph(Kinds({"m", "b"}, [fork |-> "parallel"]),
         <<<<"start", "fork", "m", "end">>, <<"fork", "b", "m">>>>) EXCEPT
    !.mi = [m |-> [sequential |-> FALSE, sizes |-> {2}, early |-> FALSE]]]

HumanFlows ==
  {"approval", "parallel", "inclusive", "veto", "all", "oneByOne", "nested"}

\* A task with a reminder that repeats once and an escalation.
Escalation ==
  [Graph(Kinds({"a", "b"}, [remind |-> "boundaryTimer", escalate |-> "boundaryTimer"]),
         <<<<"start", "a", "end">>, <<"remind", "end">>, <<"escalate", "b", "end">>>>) EXCEPT
    !.host = [remind |-> "a", escalate |-> "a"],
    !.cancel = {"escalate"},
    !.repeat = [remind |-> 1]]

\* A message and a timer race; then a plain wait for each.
Race ==
  Graph(Kinds({}, [gate |-> "eventGateway", m |-> "messageCatch", t |-> "timerCatch",
                   n |-> "messageCatch", u |-> "timerCatch"]),
        <<<<"start", "gate", "m", "n", "end">>, <<"gate", "t", "u", "end">>>>)

\* A question that is asked again when no reply comes in time.
Negotiation ==
  [Graph(Kinds({"a"}, [gate |-> "eventGateway", m |-> "messageCatch", t |-> "timerCatch",
                       remind |-> "boundaryTimer"]),
         <<<<"start", "a", "gate", "m", "end">>, <<"gate", "t", "a">>,
           <<"remind", "end">>>>) EXCEPT
    !.host = [remind |-> "a"],
    !.repeat = [remind |-> -1]]

\* A task with a repeated reminder that waits for a message, beside a task
\* with an escalation and a job for a worker.
Office ==
  [Graph(Kinds({"a", "b", "c"},
               [fork |-> "parallel", join |-> "parallel", j |-> "serviceTask",
                remind |-> "boundaryTimer", escalate |-> "boundaryTimer",
                m |-> "messageCatch", x |-> "exclusive"]),
         <<<<"start", "fork", "a", "join", "end">>, <<"fork", "j", "b", "x", "join">>,
           <<"remind", "m", "end">>, <<"escalate", "c", "x">>>>) EXCEPT
    !.host = [remind |-> "a", escalate |-> "b"],
    !.cancel = {"escalate"},
    !.repeat = [remind |-> 1],
    !.async = {"j"},
    !.throws = [j |-> {}]]

\* A service that may fail in every way beside a task.
Errors ==
  [Graph(Kinds({"a", "h", "k"},
               [fork |-> "parallel", s |-> "serviceTask", x |-> "exclusive",
                join |-> "parallel", onE |-> "boundaryError", any |-> "errorStart",
                frame |-> "eventSubProcess"]),
         <<<<"start", "fork", "s", "x", "join", "end">>, <<"fork", "a", "join">>,
           <<"onE", "h", "x">>, <<"any", "k", "end">>>>) EXCEPT
    !.host = [onE |-> "s"],
    !.throws = [s |-> {"ok", "failed", "E", "F"}],
    !.code = [onE |-> "E", any |-> "*"]]

\* A service no event catches the error of, then a job for a worker.
Worker ==
  [Graph(Kinds({"a"}, [r |-> "businessRule", j |-> "serviceTask", s |-> "serviceTask"]),
         <<<<"start", "r", "j", "s", "a", "end">>>>) EXCEPT
    !.async = {"j"},
    !.throws = [s |-> {"ok", "F"}, j |-> {}]]

\* A call activity and a timer whose expression may fail.
Calling ==
  [Graph(Kinds({}, [c |-> "callActivity", t |-> "timerCatch"]),
         <<<<"start", "c", "t", "end">>>>) EXCEPT !.fragile = {"t"}]

\* A task, then a job for a worker.
Handover ==
  [Graph(Kinds({"a"}, [j |-> "serviceTask"]), <<<<"start", "a", "j", "end">>>>) EXCEPT
    !.async = {"j"},
    !.throws = [j |-> {}]]

\* An inclusive join one of whose branches may end elsewhere.
Abandoned ==
  Graph(Kinds({"a", "b"}, [fork |-> "inclusive", x |-> "exclusive", join |-> "inclusive"]),
        <<<<"start", "fork", "a", "join", "end">>, <<"fork", "b", "x", "join">>,
          <<"x", "end">>>>)

\* One of two branches that join has a reminder whose token goes on with it.
Reminded ==
  [Graph(Kinds({"a", "b"}, [fork |-> "parallel", x |-> "exclusive", join |-> "parallel",
                            remind |-> "boundaryTimer"]),
         <<<<"start", "fork", "a", "x", "join", "end">>, <<"fork", "b", "join">>,
           <<"remind", "x">>>>) EXCEPT
    !.host = [remind |-> "a"]]

EventFlows ==
  {"escalation", "race", "errors", "worker", "calling", "negotiation", "office"}

Definitions ==
  [approval |-> Approval, parallel |-> Parallel, inclusive |-> Inclusive, veto |-> Veto,
   nested |-> Nested, all |-> Countersign(FALSE), oneByOne |-> Countersign(TRUE),
   escalation |-> Escalation, race |-> Race, errors |-> Errors, worker |-> Worker,
   calling |-> Calling, negotiation |-> Negotiation, office |-> Office, handover |-> Handover,
   abandoned |-> Abandoned, twice |-> Twice, reminded |-> Reminded]

\* Rejecting is kept to the flow without branches or added tasks, jumps to those
\* without a parallel join, and dead letters are put back only where nothing
\* ends an instance early.  With AddSignRejectCalls, DeadLetterCalls,
\* HandoverCalls, AbandonedCalls, TwiceCalls or RemindedCalls instead, TLC shows
\* what goes wrong there.
HumanCalls ==
  [f \in HumanFlows |->
     {"complete", "suspend", "resume", "cancel"} \cup
     CASE f = "approval" -> {"reject", "jump", "withdraw"}
       [] f = "parallel" -> {"addSign", "withdraw"}
       [] f = "all" -> {"addSign", "jump", "withdraw"}
       [] f = "oneByOne" -> {"addSign", "withdraw"}
       [] f = "nested" -> {"addSign"}
       [] OTHER -> {"jump", "withdraw"}]
EventCalls ==
  [f \in EventFlows |->
     {"complete", "timers", "correlate", "retryIncident", "completeAsync", "subflow",
      "failAsync", "suspend", "resume"}
     \cup (IF f \in {"worker", "office"} THEN {"retryDeadLetter"} ELSE {"cancel"})
     \cup (IF f = "escalation" THEN {"addSign"} ELSE {})]

AllFlows == HumanFlows \cup EventFlows
AllCalls == HumanCalls @@ EventCalls

\* One definition and the calls under which a promise of the code fails.
HandoverFlow == {"handover"}
HandoverCalls == [f \in HandoverFlow |-> {"complete"}]
DeadLetterFlow == {"worker"}
DeadLetterCalls == [f \in DeadLetterFlow |-> {"failAsync", "cancel", "retryDeadLetter"}]
AbandonedFlow == {"abandoned"}
AbandonedCalls == [f \in AbandonedFlow |-> {"complete"}]
TwiceFlow == {"twice"}
TwiceCalls == [f \in TwiceFlow |-> {"complete"}]
RemindedFlow == {"reminded"}
RemindedCalls == [f \in RemindedFlow |-> {"complete", "timers"}]
AddSignRejectFlow == {"approval"}
AddSignRejectCalls == [f \in AddSignRejectFlow |-> {"addSign", "reject"}]
=============================================================================
