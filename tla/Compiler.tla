------------------------------ MODULE Compiler ------------------------------
(***************************************************************************)
(* compile: from a BPMN document to the flat graph the engine runs.        *)
(*                                                                         *)
(* An element is a record: its tag, its id, the attributes of its own (a   *)
(* function from local names to values; the names carry no prefix) and its *)
(* child elements in document order.  The text of an element is its        *)
(* attribute "text", that of a varSchema its attribute "schema": what it   *)
(* reads as, which is nothing (blank), Failed (no JSON of a schema) or the *)
(* declarations.  Values that are read further (timers, variable mappings, *)
(* delegates, candidates) are sequences of characters, the others plain    *)
(* names.                                                                  *)
(***************************************************************************)
EXTENDS Candidates

CONSTANT Bits
Du == INSTANCE Durations
Va == INSTANCE VarSchemas

None == "none"
Attr(e, name) == IF name \in DOMAIN e.attrs THEN e.attrs[name] ELSE None
FirstOf(e, names) ==
  LET present == SelectSeq(names, LAMBDA n : n \in DOMAIN e.attrs)
  IN  IF present = <<>> THEN None ELSE e.attrs[Head(present)]
Kids(e, tag) == SelectSeq(e.kids, LAMBDA k : k.tag = tag)
Has(e, tag) == Kids(e, tag) # <<>>
Child(e, tag) == Head(Kids(e, tag))

\* The text of the first such child that has one.
ChildText(e, tag) ==
  LET texts == SelectSeq(Kids(e, tag),
                         LAMBDA k : "text" \in DOMAIN k.attrs /\ Trim(k.attrs.text) # <<>>)
  IN  IF texts = <<>> THEN <<>> ELSE Trim(Head(texts).attrs.text)

-----------------------------------------------------------------------------
(* What each element says of itself.  A kind is a record with the field    *)
(* kind; Refused stands for every error of the compiler.                   *)

Refused == [kind |-> "refused"]
Plain(kind) == [kind |-> kind]
Triggered(e) == Attr(e, "triggeredByEvent") = "true"

Bad == [spec |-> "bad"]
AsDuration(seconds) == IF seconds = 0 THEN Bad ELSE [spec |-> "duration", seconds |-> seconds]
AsCycle(read) ==
  IF read.ok THEN [spec |-> "cycle", interval |-> read.interval, repeats |-> read.repeats]
  ELSE Bad
Timer(tag, text) ==
  IF \E i \in 1 .. Len(text) - 1 : text[i] = "$" /\ text[i + 1] = "{"
  THEN [spec |-> "expr", expr |-> text, cyclic |-> tag = "timeCycle"]
  ELSE CASE tag = "timeDuration" -> AsDuration(Du!parse_iso8601_duration(text))
         [] tag = "timeCycle" -> AsCycle(Du!parse_iso8601_cycle(text))
         [] tag = "timeDate" -> [spec |-> "date", at |-> text]  \* kept as its text

\* The first of the three forms that is filled in.
ParseTimer(def) ==
  LET found == SelectSeq(<<"timeDuration", "timeDate", "timeCycle">>,
                         LAMBDA tag : ChildText(def, tag) # <<>>)
  IN  IF found = <<>> THEN Bad ELSE Timer(Head(found), ChildText(def, Head(found)))

ErrorCode(e) ==
  LET own == FirstOf(Child(e, "errorEventDefinition"), <<"errorRef", "errorCode">>)
  IN  IF own # None THEN own ELSE Attr(e, "errorCode")
MessageName(e) ==
  LET own == Attr(Child(e, "messageEventDefinition"), "messageRef")
  IN  IF own # None THEN own
      ELSE IF FirstOf(e, <<"message", "name">>) # None
      THEN FirstOf(e, <<"message", "name">>) ELSE e.id
Message(kind, e) ==
  [kind |-> kind, message |-> MessageName(e), correlation |-> Attr(e, "correlationVar")]

Untriggerable ==
  {"timerEventDefinition", "signalEventDefinition", "errorEventDefinition",
   "escalationEventDefinition", "compensateEventDefinition",
   "conditionalEventDefinition"}
parse_start_event(e) ==
  CASE \E tag \in Untriggerable : Has(e, tag) -> Refused
    [] Has(e, "messageEventDefinition") /\ ~\E tag \in Untriggerable : Has(e, tag) ->
         Message("messageStart", e)
    [] OTHER -> Plain("start")

parse_error_start_event(e, within) ==
  IF Has(e, "errorEventDefinition")
  THEN [kind |-> "errorStart", code |-> ErrorCode(e), within |-> within]
  ELSE Refused

Timed(kind, timer) == IF timer.spec = "bad" THEN Refused ELSE kind @@ [timer |-> timer]

parse_intermediate_catch(e) ==
  CASE Has(e, "timerEventDefinition") ->
         Timed([kind |-> "timerCatch"], ParseTimer(Child(e, "timerEventDefinition")))
    [] ~Has(e, "timerEventDefinition") /\ Has(e, "messageEventDefinition") ->
         Message("messageCatch", e)
    [] OTHER -> Refused

parse_boundary_event(e) ==
  LET host == Attr(e, "attachedToRef")
  IN  CASE host = None -> Refused
        [] host # None /\ Has(e, "errorEventDefinition") ->
             [kind |-> "boundaryError", host |-> host, code |-> ErrorCode(e)]
        [] host # None /\ ~Has(e, "errorEventDefinition") ->
             IF ~Has(e, "timerEventDefinition") THEN Refused
             ELSE Timed([kind |-> "boundaryTimer", host |-> host,
                         cancel |-> Attr(e, "cancelActivity") # "false"],
                        ParseTimer(Child(e, "timerEventDefinition")))

parse_service_task(e) ==
  LET delegate == FirstOf(e, <<"delegateExpression", "class", "delegate", "type">>)
      external == Attr(e, "type") = "external-worker"
  IN  CASE external ->
             IF Attr(e, "topic") = None THEN Refused
             ELSE [kind |-> "serviceTask", topic |-> Attr(e, "topic"), async |-> TRUE]
        [] ~external /\ delegate # None ->
             [kind |-> "serviceTask", delegate |-> delegate, topic |-> None,
              async |-> Attr(e, "async") = "true"]
        [] OTHER -> Refused

parse_business_rule_task(e) ==
  LET decision == FirstOf(e, <<"decisionRef", "decision", "decisionRefBinding">>)
  IN  IF decision = None THEN Refused
      ELSE [kind |-> "businessRule", decision |-> decision]

parse_multi_instance(e) ==
  IF ~Has(e, "multiInstanceLoopCharacteristics") THEN Null
  ELSE LET mi == Child(e, "multiInstanceLoopCharacteristics")
       IN  [sequential |-> Attr(mi, "isSequential") = "true",
            collection |-> IF Attr(mi, "collection") # None THEN Attr(mi, "collection")
                           ELSE ChildText(mi, "loopDataInputRef"),
            element |-> Attr(mi, "elementVariable"),
            completion |-> ChildText(mi, "completionCondition")]

Candidates(e, name, default) ==
  IF name \in DOMAIN e.attrs THEN parse_candidate_expr(e.attrs[name], default) ELSE <<>>
parse_user_task(e) ==
  [kind |-> "userTask", assignee |-> Attr(e, "assignee"),
   multi |-> parse_multi_instance(e),
   candidates |-> Candidates(e, "candidateUsers", "User")
                  \o Candidates(e, "candidateGroups", "Role")
                  \o Candidates(e, "candidates", "User"),
   cc |-> Candidates(e, "cc", "User")]

\* source:target pairs between commas; a missing target is the source.
parse_attr_var_mappings(raw) ==
  LET pairs == Split(raw, ",")
      Side(pair, n) == LET colon == Run(pair, LAMBDA i : pair[i] # ":")
                       IN  Trim(IF n = 1 THEN SubSeq(pair, 1, colon)
                                ELSE SubSeq(pair, colon + 2, Len(pair)))
      read == [i \in DOMAIN pairs |->
                 LET pair == Trim(pairs[i])
                 IN  [source |-> Side(pair, 1),
                      target |-> IF Side(pair, 2) = <<>> THEN Side(pair, 1)
                                 ELSE Side(pair, 2)]]
  IN  SelectSeq(read, LAMBDA v : v.source # <<>>)

RECURSIVE collect_var_mappings(_, _)
collect_var_mappings(e, tag) ==
  FlattenSeq([i \in DOMAIN e.kids |->
    LET k == e.kids[i]
        source == FirstOf(k, <<"source", "sourceExpression">>)
    IN  CASE k.tag = tag /\ source # None ->
               <<[source |-> source,
                  target |-> IF Attr(k, "target") = None THEN source ELSE k.attrs.target]>>
          [] k.tag = "extensionElements" -> collect_var_mappings(k, tag)
          [] OTHER -> <<>>])

\* The attribute counts only where no element says anything.
Mappings(e, tag, attr) ==
  LET stated == collect_var_mappings(e, tag)
  IN  IF stated # <<>> THEN stated
      ELSE IF attr \in DOMAIN e.attrs THEN parse_attr_var_mappings(e.attrs[attr]) ELSE <<>>

parse_call_activity(e) ==
  IF Attr(e, "calledElement") = None /\ Attr(e, "calledKey") = None THEN Refused
  ELSE [kind |-> "callActivity", element |-> Attr(e, "calledElement"),
        key |-> Attr(e, "calledKey"), dim |-> Attr(e, "dimKey"),
        input |-> Mappings(e, "in", "inVars"), output |-> Mappings(e, "out", "outVars")]

Gateways == [exclusiveGateway |-> "exclusive", parallelGateway |-> "parallel",
             inclusiveGateway |-> "inclusive", eventBasedGateway |-> "eventGateway"]
is_flow_node_like ==
  {"task", "scriptTask", "sendTask", "receiveTask", "manualTask", "complexGateway",
   "intermediateThrowEvent", "adHocSubProcess", "transaction"}

\* The kind of a child of scope; "within" is the event subprocess around it.
\* An element that is no node at all has the kind "ignored".
Kind(e, scope, within) ==
  CASE e.tag = "startEvent" -> IF within = None THEN parse_start_event(e)
                               ELSE parse_error_start_event(e, within)
    [] e.tag = "endEvent" -> Plain(IF Has(e, "terminateEventDefinition")
                                   THEN "terminateEnd" ELSE "end")
    [] e.tag = "userTask" -> parse_user_task(e)
    [] e.tag = "serviceTask" -> parse_service_task(e)
    [] e.tag = "businessRuleTask" -> parse_business_rule_task(e)
    [] e.tag \in DOMAIN Gateways -> Plain(Gateways[e.tag])
    [] e.tag = "boundaryEvent" -> parse_boundary_event(e)
    [] e.tag = "intermediateCatchEvent" -> parse_intermediate_catch(e)
    [] e.tag = "callActivity" -> parse_call_activity(e)
    [] e.tag = "subProcess" ->
         IF \E i \in DOMAIN scope.kids :
              /\ scope.kids[i].tag = "boundaryEvent"
              /\ Attr(scope.kids[i], "attachedToRef") = e.id
         THEN Refused
         ELSE Plain(IF Triggered(e) THEN "eventSubProcess" ELSE "subProcess")
    [] e.tag \in is_flow_node_like -> Refused
    [] OTHER -> Plain("ignored")

-----------------------------------------------------------------------------
(* The three passes.  Nodes are numbered in document order; an id that is  *)
(* used twice names the later node.                                        *)

Node(e, kind) ==
  IF kind.kind = "ignored" THEN <<>>
  ELSE << [id |-> e.id, what |-> kind, kind |-> kind.kind,
           incoming |-> 0, outgoing |-> <<>>] >>

RECURSIVE collect_nodes(_, _)
collect_nodes(scope, within) ==
  FlattenSeq([i \in DOMAIN scope.kids |->
    LET e == scope.kids[i]
    IN  Node(e, Kind(e, scope, within))
        \o IF e.tag = "subProcess"
           THEN collect_nodes(e, IF Triggered(e) THEN e.id ELSE None) ELSE <<>>])

Index(nodes, id) ==
  LET named == {i \in DOMAIN nodes : nodes[i].id = id}
  IN  IF named = {} THEN 0 ELSE CHOOSE i \in named : \A j \in named : j <= i

RECURSIVE Flows(_)
Flows(scope) ==
  FlattenSeq([i \in DOMAIN scope.kids |->
    CASE scope.kids[i].tag = "subProcess" -> Flows(scope.kids[i])
      [] scope.kids[i].tag = "sequenceFlow" -> <<scope.kids[i]>>
      [] OTHER -> <<>>])

\* Only the children of the process itself are asked for a default flow.
source_default_of(process, id) ==
  LET named == SelectSeq(process.kids, LAMBDA e : e.id = id)
  IN  IF named = <<>> THEN None ELSE Attr(Head(named), "default")

Counted(nodes, to) == [nodes EXCEPT ![to].incoming = @ + 1]

collect_flows(process, nodes) ==
  LET Add(graph, flow) ==
        LET from == Index(graph, Attr(flow, "sourceRef"))
            to == Index(graph, Attr(flow, "targetRef"))
            edge == [target |-> to, condition |-> ChildText(flow, "conditionExpression"),
                     default |-> source_default_of(process, Attr(flow, "sourceRef"))
                                   = flow.id]
        IN  IF graph = <<>> \/ from = 0 \/ to = 0 THEN <<>>
            ELSE Counted([graph EXCEPT ![from].outgoing = Append(@, edge)], to)
  IN  FoldLeft(Add, nodes, Flows(process))

RECURSIVE Subprocesses(_)
Subprocesses(scope) ==
  FlattenSeq([i \in DOMAIN Kids(scope, "subProcess") |->
    LET sp == Kids(scope, "subProcess")[i] IN <<sp>> \o Subprocesses(sp)])

Exits_Late(nodes, sp, entry) == <<entry>>
\* Where the flows out of a subprocess lead, read before its node is rewired.
Exits(nodes, sp, entry) == nodes[Index(nodes, sp.id)].outgoing

\* A subprocess node leads into its start event, its end events lead on to
\* where the subprocess led.
Wire(nodes, sp) ==
  LET into == Index(nodes, Child(sp, "startEvent").id)
      entry == [target |-> into, condition |-> <<>>, default |-> FALSE]
      exits == Exits(nodes, sp, entry)
      entered == Counted([nodes EXCEPT ![Index(nodes, sp.id)].outgoing = <<entry>>], into)
      Leave(graph, end) ==
        FoldLeft(LAMBDA g, edge : Counted(g, edge.target),
                 [graph EXCEPT ![Index(graph, end.id)].kind = "subProcess",
                               ![Index(graph, end.id)].outgoing = exits], exits)
  IN  CASE nodes = <<>> \/ Triggered(sp) -> nodes
        [] nodes # <<>> /\ ~Triggered(sp) /\ ~Has(sp, "startEvent") -> <<>>
        [] nodes # <<>> /\ ~Triggered(sp) /\ Has(sp, "startEvent") ->
             IF exits = <<>> THEN entered ELSE FoldLeft(Leave, entered, Kids(sp, "endEvent"))

wire_subprocesses(process, nodes) == FoldLeft(Wire, nodes, Subprocesses(process))

\* ProcessDefinition::validate.
Sound(nodes) ==
  \A i \in DOMAIN nodes :
    /\ nodes[i].kind \in {"end", "terminateEnd"} => nodes[i].outgoing = <<>>
    /\ nodes[i].kind = "exclusive" =>
         Len(SelectSeq(nodes[i].outgoing, LAMBDA edge : edge.default)) <= 1

\* The process to compile: the first executable one, else the first.
find_process(doc) ==
  LET processes == Kids(doc, "process")
      executable == SelectSeq(processes, LAMBDA p : Attr(p, "isExecutable") = "true")
  IN  IF executable # <<>> THEN executable ELSE processes

\* The declared variables: the first varSchema of the first extensionElements
\* counts; one that is unreadable or fails its own check fails the compilation.
NoSchema == [ok |-> TRUE]
SchemaOf(decls) == [ok |-> TRUE, decls |-> decls]
parse_var_schema(process) ==
  LET found == IF Has(process, "extensionElements")
               THEN Kids(Child(process, "extensionElements"), "varSchema") ELSE <<>>
      read == IF found = <<>> THEN NoSchema ELSE Head(found).attrs.schema
  IN  IF "decls" \in DOMAIN read /\ Va!validate_shape(read.decls) # {} THEN Failed ELSE read

Finished(process, graph) ==
  LET starts == {i \in DOMAIN graph : graph[i].kind \in {"start", "messageStart"}}
      schema == parse_var_schema(process)
  IN  IF graph = <<>> \/ starts = {} \/ ~schema.ok \/ ~Sound(graph) THEN Failed
      ELSE [ok |-> TRUE, nodes |-> graph, schema |-> schema,
            start |-> CHOOSE i \in starts : \A j \in starts : i <= j]

Joined(process, nodes) ==
  IF \E i \in DOMAIN nodes : nodes[i].kind = "refused" THEN Failed
  ELSE Finished(process, wire_subprocesses(process, collect_flows(process, nodes)))

compile(doc) ==
  IF find_process(doc) = <<>> THEN Failed
  ELSE LET process == Head(find_process(doc))
       IN  Joined(process, collect_nodes(process, None))
=============================================================================
