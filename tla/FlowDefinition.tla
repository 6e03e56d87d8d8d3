--------------------------- MODULE FlowDefinition ---------------------------
(***************************************************************************)
(* The compiled process definitions the engine runs (cmx-flow-model::ir,   *)
(* compiled by cmx-flow-bpmn) and the questions the engine asks of their   *)
(* graph.  Def[f] is one ProcessDefinition.  The fields that only some     *)
(* nodes have are functions whose domain is those nodes.                   *)
(*                                                                         *)
(* Conditions, expressions and variables are left out: what depends on     *)
(* them (the branch a gateway takes, whether a timer expression can be     *)
(* evaluated, what a delegate returns) is chosen freely by the modules     *)
(* that run a definition, within the sets given here.                      *)
(***************************************************************************)
EXTENDS Integers, Sequences, FiniteSets, Functions

CONSTANTS Flow,   \* the deployed definitions
          Def     \* Def[f]: the record described by DefAssumption

Kind == {"start", "end", "terminateEnd", "userTask", "serviceTask", "businessRule",
         "subProcess", "eventSubProcess", "exclusive", "parallel", "inclusive",
         "boundaryTimer", "boundaryError", "errorStart", "callActivity",
         "messageCatch", "timerCatch", "eventGateway"}

Node(f) == DOMAIN Def[f].kind
KindOf(f, n) == Def[f].kind[n]
OfKind(f, kind) == {n \in Node(f) : KindOf(f, n) = kind}

\* Engine::check_topology: how many outgoing flows each kind of node has.
OutDegreeOk(kind, degree) ==
  CASE kind \in {"end", "terminateEnd", "eventSubProcess"} -> degree = 0
    [] kind = "subProcess" -> degree <= 1
    [] kind \in {"exclusive", "parallel", "inclusive"} -> degree >= 1
    [] kind = "eventGateway" -> degree >= 2
    [] OTHER -> degree = 1

ASSUME DefAssumption ==
  \A f \in Flow :
    /\ Def[f].kind \in [Node(f) -> Kind]
    /\ Def[f].start \in Node(f)
    /\ Def[f].out \in [Node(f) -> Seq(Node(f))]
    /\ \A n \in Node(f) : OutDegreeOk(KindOf(f, n), Len(Def[f].out[n]))
    \* the node a boundary event is attached to
    /\ DOMAIN Def[f].host = OfKind(f, "boundaryTimer") \cup OfKind(f, "boundaryError")
    /\ Range(Def[f].host) \subseteq Node(f)
    \* boundary timers that interrupt their host (cancelActivity)
    /\ Def[f].cancel \subseteq OfKind(f, "boundaryTimer")
    \* repetitions a timeCycle still has when armed, -1 for an endless one
    /\ DOMAIN Def[f].repeat \subseteq OfKind(f, "boundaryTimer")
    /\ Range(Def[f].repeat) \subseteq Nat \cup {-1}
    \* service tasks run by a job worker, and what a delegate may answer
    /\ Def[f].async \subseteq OfKind(f, "serviceTask")
    /\ DOMAIN Def[f].throws = OfKind(f, "serviceTask")
    \* the error code a boundary or error start event catches, "*" for all
    /\ DOMAIN Def[f].code = OfKind(f, "boundaryError") \cup OfKind(f, "errorStart")
    \* multi-instance user tasks: order, sizes the collection may have, and
    \* whether a completion condition may end the scope early
    /\ DOMAIN Def[f].mi \subseteq OfKind(f, "userTask")
    /\ \A n \in DOMAIN Def[f].mi :
         Def[f].mi[n] \in [sequential : BOOLEAN, sizes : SUBSET Nat, early : BOOLEAN]
    \* timers whose duration is an expression that may fail to evaluate
    /\ Def[f].fragile \subseteq OfKind(f, "timerCatch") \cup OfKind(f, "boundaryTimer")
    /\ Def[f].lenient \in BOOLEAN

\* A definition is a finite graph; "" is no node of it, but stands for none.
ASSUME NodesAssumption ==
  \A f \in Flow : IsFiniteSet(Node(f)) /\ "" \notin Node(f)

Out(f, n) == Def[f].out[n]
FirstOut(f, n) == Out(f, n)[1]
Targets(f, n) == Range(Out(f, n))

\* incoming_count: sequence flows, not nodes, that end at n.
InDegree(f, n) ==
  Cardinality(UNION {{<<m, i>> : i \in {j \in DOMAIN Out(f, m) : Out(f, m)[j] = n}} :
                       m \in Node(f)})

Predecessors(f, n) == {m \in Node(f) : n \in Targets(f, m)}

BoundaryTimersOn(f, n) ==
  {b \in OfKind(f, "boundaryTimer") : Def[f].host[b] = n}

\* What an armed timer's cycle_remaining is, 0 for a timer that fires once.
Repeat(f, b) == IF b \in DOMAIN Def[f].repeat THEN Def[f].repeat[b] ELSE 0

\* Of the events that catch an error code, those with the exact code win over
\* those that catch everything.
BestMatch(f, events, code) ==
  LET exact == {e \in events : Def[f].code[e] = code}
  IN  IF exact # {} THEN exact ELSE {e \in events : Def[f].code[e] = "*"}

BoundaryErrorsFor(f, n, code) ==
  BestMatch(f, {b \in OfKind(f, "boundaryError") : Def[f].host[b] = n}, code)

ErrorStartsFor(f, code) == BestMatch(f, OfKind(f, "errorStart"), code)

\* can_reach: the nodes a token at n may still visit, n among them.  The
\* least set that holds n and is closed under Targets, evaluated once.
ReachTable ==
  [f \in Flow |-> [n \in Node(f) |->
     LET level[i \in 0 .. Cardinality(Node(f))] ==
           IF i = 0 THEN {n}
           ELSE LET seen == level[i - 1]
                IN  seen \cup UNION {Targets(f, m) : m \in seen}
     IN  level[Cardinality(Node(f))]]]
CanReach(f, from, to) == to \in ReachTable[f][from]

\* first_user_task_from_start: a user task at the least distance from start.
FirstUserTasks ==
  [f \in Flow |->
     LET level[i \in 0 .. Cardinality(Node(f))] ==
           IF i = 0 THEN {Def[f].start}
           ELSE UNION {Targets(f, m) : m \in level[i - 1]}
         users(i) == level[i] \cap OfKind(f, "userTask")
     IN  IF \E i \in 0 .. Cardinality(Node(f)) : users(i) # {}
         THEN users(CHOOSE i \in 0 .. Cardinality(Node(f)) :
                      users(i) # {} /\ \A j \in 0 .. i - 1 : users(j) = {})
         ELSE {}]
=============================================================================
