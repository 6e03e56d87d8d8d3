----------------------------- MODULE Algorithms ----------------------------
(***************************************************************************)
(* The pure functions of the engine, called one at a time on every input   *)
(* of a small set, each against a definition of what it is for that is     *)
(* stated another way: a grammar, a recursion, an automaton, a witness.    *)
(***************************************************************************)
EXTENDS Integers, SequencesExt, TLC

CONSTANTS MaxTokens,   \* length of the token lists given to the parser
          MaxGlob,     \* lengths of patterns
          MaxText,     \* and of the texts they are matched with
          MaxTemplate, \* length of the templates
          Bits         \* width of the integers of a duration

ASSUME AlgorithmsAssumption ==
  /\ {MaxTokens, MaxGlob, MaxText, MaxTemplate} \subseteq Nat
  /\ Bits \in Nat /\ Bits > 1

Ex == INSTANCE Expressions
De == INSTANCE Decisions
Ru == INSTANCE RouteRules
Du == INSTANCE Durations
Va == INSTANCE VarSchemas
Ca == INSTANCE Candidates
Co == INSTANCE Compiler
Ro == INSTANCE Routing
Re == INSTANCE Rejections

VARIABLE call

Idle == [fn |-> "none"]
Init == call = Idle

Lists(S, n) == UNION {[1 .. k -> S] : k \in 0 .. n}

-----------------------------------------------------------------------------
(* Parsing: token lists, and trees written out.                            *)

X == [id |-> <<"x">>]
One == [num |-> Ex!Float(1, 1)]
Token == {X} \cup {Ex!Op(s) : s \in {"(", ")", ",", "-", "<", "&&"}}

Leaf == {[var |-> <<"x">>], [value |-> Ex!Float(1, 1)]}
Grown(S) ==
  S \cup {Ex!Unary(op, a) : op \in {"!", "-"}, a \in S}
    \cup {Ex!Binary(op, a, b) : op \in {"||", "&&", "<", "-", "*"}, a, b \in S}
Called(S) == {[call |-> <<"x">>, args |-> args] : args \in Lists(S, 2)}
Tree == Grown(Grown(Leaf)) \cup Grown(Called(Leaf))

\* The grammar at the head of expr.rs, level by level.
RECURSIVE Derives(_, _)
Derives(l, ts) ==
  LET IsOp(i, ops) == Ex!Is("op", ts[i]) /\ ts[i].op \in ops
      n == Len(ts)
      part(i, j) == SubSeq(ts, i, j)
  IN  CASE l \in 1 .. 5 ->
             \/ Derives(l + 1, ts)
             \/ \E i \in 2 .. n - 1 : /\ IsOp(i, Ex!Level[l])
                                      /\ Derives(IF l = 3 THEN 4 ELSE l, part(1, i - 1))
                                      /\ Derives(l + 1, part(i + 1, n))
        [] l = 6 -> \/ n > 1 /\ IsOp(1, {"!", "-"}) /\ Derives(6, Tail(ts))
                    \/ Derives(7, ts)
        [] l = 7 -> \/ n = 1 /\ ~Ex!Is("op", ts[1])
                    \/ n > 2 /\ IsOp(1, {"("}) /\ IsOp(n, {")"}) /\ Derives(1, part(2, n - 1))
                    \/ /\ n > 2 /\ Ex!Is("id", ts[1]) /\ IsOp(2, {"("}) /\ IsOp(n, {")"})
                       /\ n = 3 \/ Derives(8, part(3, n - 1))
        [] l = 8 -> \/ Derives(1, ts)
                    \/ \E i \in 2 .. n - 1 : /\ IsOp(i, {","})
                                             /\ Derives(8, part(1, i - 1))
                                             /\ Derives(1, part(i + 1, n))

\* A tree written with as few parentheses as its levels allow.
LevelOf(op) == CHOOSE l \in DOMAIN Ex!Level : op \in Ex!Level[l]
RECURSIVE Written(_, _)
Written(ast, l) ==
  LET wrap(own, ts) == IF own >= l THEN ts ELSE <<Ex!Op("(")>> \o ts \o <<Ex!Op(")")>>
  IN  CASE Ex!Is("var", ast) -> <<[id |-> ast.var]>>
        [] Ex!Is("value", ast) -> <<[num |-> ast.value]>>
        [] Ex!Is("call", ast) ->
             <<[id |-> ast.call], Ex!Op("(")>>
             \o FlattenSeq([i \in DOMAIN ast.args |->
                  (IF i = 1 THEN <<>> ELSE <<Ex!Op(",")>>) \o Written(ast.args[i], 1)])
             \o <<Ex!Op(")")>>
        [] Ex!Is("unary", ast) -> wrap(6, <<Ex!Op(ast.unary)>> \o Written(ast.of, 6))
        [] Ex!Is("binary", ast) ->
             LET own == LevelOf(ast.binary)
             IN  wrap(own, Written(ast.left, IF own = 3 THEN 4 ELSE own)
                           \o <<Ex!Op(ast.binary)>> \o Written(ast.right, own + 1))

\* The parser accepts exactly the sentences of the grammar its header states,
\* and reads a written tree as that tree: precedence, associativity and
\* comparisons that do not chain.
ParserExact ==
  /\ call.fn = "tokens" => Ex!Parse(call.tokens).ok = Derives(1, call.tokens)
  /\ call.fn = "tree" =>
       LET read == Ex!Parse(Written(call.ast, 1)) IN read.ok /\ read.ast = call.ast

-----------------------------------------------------------------------------
(* Conditions on variables that may be missing.                            *)

Path == <<"o", ".", "a">>
Atom == {Ex!Binary(op, [var |-> name], [value |-> Ex!Whole(1)]) :
           op \in {"<", ">="}, name \in {<<"x">>, Path}}
        \cup {Ex!Binary(">", [value |-> Ex!Whole(1)], [var |-> Path]),
              [call |-> <<"i", "n">>,
               args |-> <<[var |-> <<"x">>], [value |-> Ex!Float(1, 1)]>>],
              Ex!Binary("<", [value |-> Ex!Whole(0)],
                        [call |-> <<"L", "E", "N">>, args |-> <<[var |-> Path]>>])}
Joined(S) == S \cup {Ex!Binary(op, a, b) : op \in {"&&", "||"}, a, b \in S}
Positive ==
  Joined(Atom)
  \cup {Ex!Binary(op, a, b) : op \in {"&&", "||"}, a \in Joined(Atom), b \in Atom}

Number == {Ex!Whole(n) : n \in 0 .. 2}
NoFields == [obj |-> <<>>]
Object == {NoFields} \cup {[obj |-> (<<"a">> :> n)] : n \in Number}
Environment ==
  {(<<"x">> :> x) @@ (<<"o">> :> o) :
     x \in {Ex!Null} \cup Number, o \in {Ex!Null} \cup Object}

Extends(vars, more) ==
  \A v \in DOMAIN vars : vars[v] \in {Ex!Null, NoFields, more[v]}

Persists(accepted, ast, vars) ==
  accepted =>
    \A more \in Environment : Extends(vars, more) => Ex!truthy(Ex!eval(ast, more))
Judged(v, ast, vars) == ~Ex!IsError(v) /\ Persists(Ex!truthy(v), ast, vars)

\* A condition made of orders, IN, LEN, && and || never fails because data is
\* missing, and what it accepts without the data it accepts whatever the data turns out
\* to be: missing data does not satisfy a condition ("缺数据即条件不满足").
MissingNeverSatisfies ==
  call.fn = "condition" => Judged(Ex!eval(call.ast, call.vars), call.ast, call.vars)

-----------------------------------------------------------------------------
(* Templates.                                                              *)

\* The value of the only variable looks like a template itself.
Holder == <<"$", "{", "a", "}">>
Filled == <<"a">> :> Ex!Str(Holder)

\* Reading a template character by character: in the text, after a dollar
\* sign, or inside the braces.
Shown(at, value) ==
  IF Ex!IsError(value) THEN [at EXCEPT !.mode = "error"]
  ELSE [at EXCEPT !.mode = "text", !.out = @ \o Ex!value_to_string(value)]
Reading(at, c) ==
  CASE at.mode = "text" ->
         IF c = "$" THEN [at EXCEPT !.mode = "dollar"]
         ELSE [at EXCEPT !.out = Append(@, c)]
    [] at.mode = "dollar" ->
         IF c = "{" THEN [at EXCEPT !.mode = "inside", !.inner = <<>>]
         ELSE IF c = "$" THEN [at EXCEPT !.out = Append(@, "$")]
         ELSE [at EXCEPT !.mode = "text", !.out = @ \o <<"$", c>>]
    [] at.mode = "inside" ->
         IF c # "}" THEN [at EXCEPT !.inner = Append(@, c)]
         ELSE Shown(at, Ex!eval_value(at.inner, Filled))
    [] at.mode = "error" -> at

Ended(at) ==
  CASE at.mode = "text" -> Ex!Str(at.out)
    [] at.mode = "dollar" -> Ex!Str(Append(at.out, "$"))
    [] OTHER -> Ex!Error("any")
Read(template) ==
  Ended(FoldLeft(Reading, [mode |-> "text", out |-> <<>>, inner |-> <<>>], template))

-----------------------------------------------------------------------------
(* Variable schemas.                                                       *)

Names == {<<"a">>, <<"b">>}
\* Names the check lets through that no condition can speak of.
Odd == {<<"a", ".", "b">>, <<"o", "r">>, <<"a", " ", "b">>, <<"1">>}
Decl(name, type) ==
  [name |-> name, type |-> type, default |-> Va!Undeclared, required |-> FALSE,
   options |-> {}, fields |-> <<>>, item |-> <<>>]
Field ==
  {Decl(n, "STRING") : n \in Names \cup Odd}
  \cup {[Decl(n, "OBJECT") EXCEPT !.fields = <<Decl(m, "NUMBER")>>] :
          n \in Names, m \in Names \cup Odd}
Scalar ==
  {[Decl(n, type) EXCEPT !.default = default, !.required = required,
                         !.options = options] :
     n \in Names, type \in {"STRING", "ENUM"}, required \in BOOLEAN,
     default \in {Va!Undeclared, Ex!Str("x"), Ex!Str("y"), Ex!Whole(1)},
     options \in {{}, {"x"}}}
Composite ==
  {[Decl(n, "OBJECT") EXCEPT !.fields = fields] : n \in Names, fields \in Lists(Field, 2)}
  \cup {[Decl(n, "ARRAY") EXCEPT !.item = <<item>>] : n \in Names, item \in Field}
Schema ==
  {<<d, e>> : d \in Scalar, e \in Scalar}
  \cup {<<d, e>> : d \in Composite, e \in Field} \cup {<<d>> : d \in Composite}

Instances ==
  {(<<"a">> :> v) @@ (<<"b">> :> w) :
     v \in {Ex!Null, Ex!Str("x"), Ex!Whole(1)}, w \in {Ex!Null, Ex!Str("y")}}

\* A value of the declared shape.
RECURSIVE Sample(_), Samples(_)
Sample(d) ==
  CASE d.type \in {"STRING", "ENUM"} -> Ex!Str("x")
    [] d.type = "NUMBER" -> Ex!Whole(1)
    [] d.type = "OBJECT" -> [obj |-> Samples(d.fields)]
    [] d.type = "ARRAY" -> [arr |-> <<>>]
Samples(decls) ==
  FoldLeft(LAMBDA f, d : (d.name :> Sample(d)) @@ f, <<>>, decls)

\* A name as a condition may use it: one identifier of the expression.
IsIdentifier(name) ==
  /\ name # <<>> /\ Head(name) \in Ex!Letters \cup {"_"}
  /\ ToSet(name) \subseteq Ex!Letters \cup Ex!Digits \cup {"_"}
  /\ Ex!Text(name) \notin DOMAIN Ex!Word
RECURSIVE Identified(_)
Identified(decls) ==
  \A d \in ToSet(decls) :
    /\ IsIdentifier(d.name)
    /\ Identified(d.fields)
    /\ d.item # <<>> => Identified(d.item[1].fields)

\* Each path offered to the author of a condition is offered once, is one name
\* for the lexer and leads to the declared value in an instance of that shape.
PathsLead(decls) ==
  LET paths == Va!flatten_paths(decls)
  IN  \A i \in DOMAIN paths :
        /\ \A j \in 1 .. i - 1 : paths[j].path # paths[i].path
        /\ "[" \notin ToSet(paths[i].path) =>
             LET v == Ex!lookup_var(paths[i].path, Samples(decls))
             IN  /\ v # Ex!Null /\ Va!accepts(paths[i].type, v)
                 /\ Ex!tokenize(paths[i].path).tokens = <<[id |-> paths[i].path]>>

\* The instance lacks only what is required and has no default.
Repaired(decls, vars) ==
  LET full == Va!materialize_defaults(decls, vars)
  IN  \A i \in DOMAIN decls :
        Va!Value(decls[i], vars) = Ex!Null =>
          Va!Findings(decls[i], Va!Value(decls[i], full)) =
            IF decls[i].required /\ decls[i].default = Va!Undeclared
            THEN {<<decls[i].name, "REQUIRED">>} ELSE {}

Shaped == call.fn = "schema" /\ Va!validate_shape(call.decls) = {}

-----------------------------------------------------------------------------
(* Decision tables.                                                        *)

Cells == Lists({"blank", "true", "false", "error"}, 2)
\* Every rule writes one output of its own and one that all write.
Table(rows) ==
  [key |-> "k", inputs |-> 0,
   rules |-> [i \in DOMAIN rows |->
                [conditions |-> rows[i], outputs |-> [o \in {"all", ToString(i)} |-> i]]]]

\* A collecting table has every rule that holds, in order, the later outputs
\* winning; a first-hit table has just the first of them and reads no rule
\* after it.  A failing cell counts only where it is reached.
DecisionPolicies ==
  call.fn = "table" =>
    LET rows == call.rows
        met(i) == \A k \in DOMAIN rows[i] : rows[i][k] \in {"blank", "true"}
        fails(i) == \E k \in DOMAIN rows[i] :
                      /\ rows[i][k] = "error"
                      /\ \A j \in 1 .. k - 1 : rows[i][j] # "false"
        hits == {i \in DOMAIN rows : met(i)}
        first == CHOOSE i \in hits : \A j \in hits : i <= j
        last == CHOOSE i \in hits : \A j \in hits : j <= i
        all == De!evaluate(Table(rows) @@ [policy |-> "COLLECT"])
        one == De!evaluate(Table(rows) @@ [policy |-> "FIRST"])
    IN  /\ all.ok = ~\E i \in DOMAIN rows : fails(i)
        /\ all.ok => /\ ToSet(all.matched) = hits
                     /\ \A i, j \in DOMAIN all.matched :
                          i < j => all.matched[i] < all.matched[j]
                     /\ hits # {} => all.outputs["all"] = last
        /\ one.ok = ~\E i \in DOMAIN rows : fails(i) /\ \A j \in hits : i < j
        /\ one.ok => IF hits = {} THEN one.matched = <<>> /\ one.outputs = De!Nothing
                     ELSE one.matched = <<first>> /\ one.outputs["all"] = first

-----------------------------------------------------------------------------
(* Subscriptions of events.                                                *)

RECURSIVE Fits(_, _)
Fits(pattern, text) ==
  CASE pattern = <<>> -> text = <<>>
    [] pattern # <<>> /\ Head(pattern) = "*" ->
         \E n \in 0 .. Len(text) : Fits(Tail(pattern), SubSeq(text, n + 1, Len(text)))
    [] OTHER -> /\ text # <<>> /\ Head(text) = Head(pattern)
                /\ Fits(Tail(pattern), Tail(text))

Rule(name, types, groups, patterns) ==
  [name |-> <<name>>, enabled |-> TRUE, types |-> types, groups |-> groups,
   patterns |-> patterns]
Rules ==
  {Rule(name, types, groups, patterns) :
     name \in {"p", "q"}, types \in {{}, {"done"}}, groups \in {{}, {1}},
     patterns \in {<<>>, << <<"*">> >>}}
Event == [type : {"done", "begun"}, group : {Ru!NoGroup, 1, 2}, key : {Ru!NoKey, <<"a">>}]

\* Matching by one pass with a single way back agrees with the meaning of *,
\* and a rule set takes an event by its first rule that leaves no dimension
\* out: an event without group or key only where that dimension is open.
RoutesExact ==
  /\ call.fn = "glob" => Ru!glob_match(call.pattern, call.text) = Fits(call.pattern, call.text)
  /\ call.fn = "rules" /\ Ru!validate_rules(call.rules, {"done"}, {1}).ok =>
       \A e \in Event :
         LET takes(r) == /\ r.types # {} => e.type \in r.types
                         /\ r.groups # {} => e.group \in r.groups
                         /\ r.patterns # <<>> => e.key # Ru!NoKey
             name == Ru!match_rules(call.rules, e)
         IN  IF name = "none" THEN \A i \in DOMAIN call.rules : ~takes(call.rules[i])
             ELSE \E i \in DOMAIN call.rules :
                    /\ takes(call.rules[i]) /\ call.rules[i].name = <<name>>
                    /\ \A j \in 1 .. i - 1 : ~takes(call.rules[j])

-----------------------------------------------------------------------------
(* Durations, cycles and candidate lists written out.                      *)

Amount == {"absent", "0", "1", "12"}
Digits == ("0" :> <<"0">>) @@ ("1" :> <<"1">>) @@ ("12" :> <<"1", "2">>)
Worth == [a \in Amount |-> IF a = "absent" THEN 0 ELSE IF a = "12" THEN 12
                           ELSE IF a = "1" THEN 1 ELSE 0]
Clock == [D : Amount, H : Amount, M : Amount, S : Amount]

Segment(c, u) == IF c[u] = "absent" THEN <<>> ELSE Append(Digits[c[u]], u)
Duration(c) ==
  <<"P">> \o Segment(c, "D")
  \o (IF \A u \in {"H", "M", "S"} : c[u] = "absent" THEN <<>>
      ELSE <<"T">> \o Segment(c, "H") \o Segment(c, "M") \o Segment(c, "S"))
Total(c) == 60 * (60 * (24 * Worth[c.D] + Worth[c.H]) + Worth[c.M]) + Worth[c.S]

Kinds == [user |-> "User", role |-> "Role", org |-> "Org"]
Spelt == [user |-> <<"u", "s", "e", "r">>, role |-> <<"r", "o", "l", "e">>,
          org |-> <<"o", "r", "g">>, initiator |-> <<"i", "n", "i", "t", "i", "a",
          "t", "o", "r">>]
Item == {[kind |-> k, value |-> <<v>>] : k \in DOMAIN Kinds, v \in {"a", "b"}}
        \cup {[kind |-> "bare", value |-> <<"a">>], [kind |-> "initiator", value |-> <<>>]}
Spell(item) ==
  CASE item.kind = "bare" -> item.value
    [] item.kind = "initiator" -> Spelt.initiator
    [] OTHER -> Spelt[item.kind] \o <<"(">> \o item.value \o <<")">>
Meant(item, default) ==
  CASE item.kind = "bare" -> Ca!Ref(default, item.value)
    [] item.kind = "initiator" -> Ca!Ref("Initiator", <<>>)
    [] OTHER -> Ca!Ref(Kinds[item.kind], item.value)
Commas(texts) ==
  FlattenSeq([i \in DOMAIN texts |-> (IF i = 1 THEN <<>> ELSE <<",", " ">>) \o texts[i]])
Listed(items) == Commas([i \in DOMAIN items |-> Spell(items[i])])
Pair == [source : {<<"a">>, <<"b">>}, target : {<<"a">>, <<"b">>}, said : BOOLEAN]
Wanted(pairs) ==
  [i \in DOMAIN pairs |->
     [source |-> pairs[i].source,
      target |-> IF pairs[i].said THEN pairs[i].target ELSE pairs[i].source]]
Values == UNION {[S -> {1, 2}] : S \in SUBSET {<<"a">>, <<"b">>}}
\* One mapping after the other.
Carried(vars, mappings) ==
  FoldLeft(LAMBDA out, p : IF p.source \in DOMAIN vars
                           THEN (p.target :> vars[p.source]) @@ out ELSE out,
           <<>>, mappings)

SameResult(v, w) == v = w \/ (Ex!IsError(v) /\ Ex!IsError(w))

\* What is written in the documented form is read as what it says: a
\* duration that fits the integers as its seconds, nothing of no length, a
\* cycle with its count, a list of candidates or of variable mappings item
\* by item in its order, what is mapped as if one mapping was carried out
\* after the other, a template once from left to right: text outside ${...}
\* comes out as it is, lone dollars and braces too, what a value puts in is
\* not read again, and an unclosed ${ is an error.
ReadsBack ==
  /\ call.fn = "template" =>
       SameResult(Ex!interpolate(call.text, Filled), Read(call.text))
  /\ call.fn = "clock" /\ Total(call.clock) <= Du!MaxInt =>
       LET text == Duration(call.clock)
           total == Total(call.clock)
           cycle == Du!parse_iso8601_cycle(<<"R">> \o call.count \o <<"/">> \o text)
       IN  /\ Du!parse_iso8601_duration(text) = total
           /\ cycle.ok = (total > 0)
           /\ cycle.ok => /\ cycle.interval = total
                          /\ cycle.repeats = IF call.count = <<>> THEN Du!Endless ELSE 12
  /\ call.fn = "candidates" =>
       \A default \in {"User", "Role"} :
         Ca!parse_candidate_expr(Listed(call.items), default) =
           [i \in DOMAIN call.items |-> Meant(call.items[i], default)]
  /\ call.fn = "mappings" =>
       LET said == Co!parse_attr_var_mappings(Commas([i \in DOMAIN call.pairs |->
                     call.pairs[i].source \o
                     (IF call.pairs[i].said THEN <<" ", ":">> \o call.pairs[i].target
                      ELSE <<>>)]))
       IN  /\ said = Wanted(call.pairs)
           /\ \A vars \in Values, full \in BOOLEAN :
                Va!map_vars(vars, said, full) =
                  IF call.pairs = <<>> /\ full THEN vars ELSE Carried(vars, said)

-----------------------------------------------------------------------------
(* Documents: a start, a task, two subprocesses and an end, joined in every *)
(* way, the subprocesses before or after the start event.                  *)

Element(tag, id, kids) == [tag |-> tag, id |-> id, attrs |-> <<>>, kids |-> kids]
Task(id) ==
  [Element("serviceTask", id, <<>>) EXCEPT !.attrs = [class |-> "bean"]]
Link(from, to) ==
  [Element("sequenceFlow", from \o to, <<>>) EXCEPT
     !.attrs = [sourceRef |-> from, targetRef |-> to]]
Caught(id) ==
  Element("startEvent", id, <<Element("errorEventDefinition", "error", <<>>)>>)

Body == {"direct", "twoEnds", "nested", "onError"}
Subprocess(id, body) ==
  LET s == id \o "Start"
      t == id \o "Task"
      e == id \o "End"
      inner == <<Element("startEvent", t \o "Start", <<>>), Element("endEvent", t \o "End", <<>>),
                 Link(t \o "Start", t \o "End")>>
  IN  CASE body = "direct" ->
             Element("subProcess", id, <<Element("startEvent", s, <<>>), Task(t),
               Element("endEvent", e, <<>>), Link(s, t), Link(t, e)>>)
        [] body = "twoEnds" ->
             Element("subProcess", id, <<Element("endEvent", e, <<>>),
               Element("startEvent", s, <<>>), Element("exclusiveGateway", t, <<>>),
               Element("endEvent", e \o "2", <<>>), Link(s, t), Link(t, e),
               Link(t, e \o "2")>>)
        [] body = "nested" ->
             Element("subProcess", id, <<Element("startEvent", s, <<>>),
               Element("endEvent", e, <<>>), Element("subProcess", t, inner),
               Link(s, t), Link(t, e)>>)
        [] body = "onError" ->
             [Element("subProcess", id, <<Caught(s), Task(t), Element("endEvent", e, <<>>),
               Link(s, t), Link(t, e)>>) EXCEPT !.attrs = [triggeredByEvent |-> "true"]]

Place == <<"start", "task", "a", "b">>
Document(a, b, ahead, next) ==
  LET subs == <<Subprocess("a", a), Subprocess("b", b)>>
      rest == <<Element("startEvent", "start", <<>>), Task("task"),
                Element("endEvent", "end", <<>>)>>
      links == [i \in DOMAIN Place |-> Link(Place[i], next[i])]
  IN  Element("definitions", "doc", <<Element("process", "p",
        (IF ahead THEN subs \o rest ELSE rest \o subs)
        \o SelectSeq(links, LAMBDA f : f.attrs.targetRef # "nowhere"))>>)

\* Every element of a document with the element around it.
RECURSIVE Within(_)
Within(e) == UNION {{<<k, e>>} \cup Within(k) : k \in ToSet(e.kids)}

Embedded(e) == e.tag = "subProcess" /\ ~Co!Triggered(e)

\* Where a token comes to rest that enters the element id of a nested
\* document: in the start event of a subprocess, and behind the subprocess
\* when it enters one of its ends.
RECURSIVE Enter(_, _), Leads(_, _)
Enter(all, id) ==
  LET it == CHOOSE pair \in all : pair[1].id = id
      e == it[1]
      around == it[2]
  IN  IF Embedded(e) THEN {Co!Child(e, "startEvent").id}
      ELSE IF e.tag = "endEvent" /\ Embedded(around)
              /\ \E pair \in all : Co!Attr(pair[1], "sourceRef") = around.id
      THEN Leads(all, around.id)
      ELSE {id}
Leads(all, id) ==
  UNION {Enter(all, pair[1].attrs.targetRef) :
           pair \in {p \in all : Co!Attr(p[1], "sourceRef") = id}}

\* The same question to the compiled graph, whose subprocess nodes are passed.
RECURSIVE Rests(_, _)
Rests(nodes, i) ==
  IF nodes[i].kind = "subProcess" /\ nodes[i].outgoing # <<>>
  THEN UNION {Rests(nodes, nodes[i].outgoing[k].target) : k \in DOMAIN nodes[i].outgoing}
  ELSE {nodes[i].id}

Faithful(def, all) ==
  def.ok /\ \A i \in DOMAIN def.nodes :
    def.nodes[i].kind # "subProcess" =>
      UNION {Rests(def.nodes, def.nodes[i].outgoing[k].target) :
               k \in DOMAIN def.nodes[i].outgoing} = Leads(all, def.nodes[i].id)

\* The flat graph leads where the nested document leads: flattening embedded
\* subprocesses, nested ones and ones with several ends too, loses no way
\* and invents none.
WiredThrough == call.fn = "document" => Faithful(Co!compile(call.doc), Within(call.doc))

\* incoming_count is the number of flows that end at a node ("入边数量", on
\* which a parallel join decides whether all its tokens are there).  The code
\* does not keep this: an embedded sub-process with several ends counts each.
IncomingIsCounted ==
  call.fn = "document" =>
    LET def == Co!compile(call.doc)
        into(i) == {<<j, k>> \in (DOMAIN def.nodes) \X (1 .. 2) :
                      k \in DOMAIN def.nodes[j].outgoing
                      /\ def.nodes[j].outgoing[k].target = i}
    IN  def.ok => \A i \in DOMAIN def.nodes : def.nodes[i].incoming = Cardinality(into(i))

-----------------------------------------------------------------------------
(* Documents that declare variables: what the varSchema elements of each   *)
(* extensionElements read as, in document order.                           *)

SchemaText ==
  {Co!NoSchema, Co!Failed, Co!SchemaOf(<<Decl(<<"a">>, "STRING")>>),
   Co!SchemaOf(<<Decl(<<"a">>, "STRING"), Decl(<<"a">>, "NUMBER")>>)}
Declaring(texts) ==
  LET Schemas(k) == [i \in DOMAIN texts[k] |->
                       [Element("varSchema", "schema", <<>>) EXCEPT
                          !.attrs = [schema |-> texts[k][i]]]]
      extensions == [k \in DOMAIN texts |->
                       Element("extensionElements", "extensions", Schemas(k))]
  IN  Element("definitions", "doc", <<Element("process", "p",
        extensions \o <<Element("startEvent", "start", <<>>), Element("endEvent", "end", <<>>),
                        Link("start", "end")>>)>>)

\* A schema that passes its own check keeps its word: the defaults repair
\* whatever an instance is missing except what is required without a default,
\* and, where every name is an identifier, the paths can be used in conditions.
\* A flow is deployed only with a schema that passes, the first its process
\* gives, and keeps it.
SchemaHonoured ==
  /\ Shaped => /\ \A vars \in Instances : Repaired(call.decls, vars)
               /\ Identified(call.decls) => PathsLead(call.decls)
  /\ call.fn = "declared" =>
       LET def == Co!compile(Declaring(call.texts))
           text == IF call.texts = <<>> \/ call.texts[1] = <<>> THEN Co!NoSchema
                   ELSE call.texts[1][1]
       IN  IF ~text.ok \/ ("decls" \in DOMAIN text /\ Va!validate_shape(text.decls) # {})
           THEN ~def.ok ELSE def.ok /\ def.schema = text

\* A variable's name is an identifier of the expression ("变量名（表达式里的标
\* 识符"), so the paths of every schema that passes can be used.  The code does
\* not keep this: the check takes every name that is not blank, and one with a
\* blank, a dot or a digit in front, or one that is a word of the language, gives
\* a path that the lexer takes apart or that names another variable.
PathsAreNames == Shaped => PathsLead(call.decls)

-----------------------------------------------------------------------------
(* Bindings of a called key: three organisations one above another in every *)
(* way, and one whose path is not filled in.                                *)

Org == {<<"a">>, <<"a", "b">>, <<"b">>}
Unpathed == <<"n">>
Dimension == Org \cup {Unpathed}
NoOrg == <<>>

\* The organisations from v upward.
Upward(above, v) ==
  LET Up[n \in 0 .. Cardinality(Org)] ==
        IF n = 0 THEN <<v>>
        ELSE LET top == above[Last(Up[n - 1])]
             IN  IF top = NoOrg THEN Up[n - 1] ELSE Append(Up[n - 1], top)
  IN  Up[Cardinality(Org)]
\* Nobody is above itself.
Forest == {above \in [Org -> Org \cup {NoOrg}] :
             \A v \in Org : above[Last(Upward(above, v))] = NoOrg}
Paths(above) ==
  [v \in Dimension |->
     IF v = Unpathed THEN Ro!NoPath
     ELSE FlattenSeq([i \in DOMAIN Upward(above, v) |->
                        <<Ro!Delim>> \o Reverse(Upward(above, v))[i]])]
Rows(bound) ==
  {[value |-> v, target |-> v, enabled |-> bound[v] = "on"] :
     v \in {u \in DOMAIN bound : bound[u] # "none"}}

\* A call goes to the binding of its organisation, else to that of the nearest
\* one above it, else to the default, whichever way the organisations above
\* are looked up; never to that of an organisation whose path only begins
\* with the same characters ("使 /a 不再错配 /ab").
NearestBinding ==
  call.fn = "route" =>
    LET on(v) == call.bound[v] = "on"
        up == IF call.value \in Org THEN Upward(call.above, call.value)
              ELSE IF call.value = Unpathed THEN <<Unpathed>> ELSE <<>>
        near == SelectSeq(up, on)
        expected == IF near # <<>> THEN Head(near)
                    ELSE IF on(NoOrg) THEN NoOrg ELSE Ro!NoTarget
    IN  \A resolver \in BOOLEAN :
          Ro!resolve(Rows(call.bound), Paths(call.above), call.value, resolver) = expected

-----------------------------------------------------------------------------
(* Graphs of a start node and three more, of which any are user tasks.      *)

After(def, set) == UNION {ToSet(def.out[n]) : n \in set}
\* The nodes from which node n is reached in exactly d flows, by d.
Steps(def, n) ==
  LET Step[d \in 0 .. 4] ==
        IF d = 0 THEN {n}
        ELSE {m \in DOMAIN def.out : After(def, {m}) \cap Step[d - 1] # {}}
  IN  Step
Reached(def, without) ==
  LET Known[d \in 0 .. 4] ==
        IF d = 0 THEN {def.start}
        ELSE Known[d - 1] \cup (After(def, Known[d - 1]) \ without)
  IN  Known[4]
Least(S) == CHOOSE n \in S : \A m \in S : n <= m

\* The list a task may be sent back by names exactly the user tasks before it,
\* the nearest first, and every one of them is accepted.  What it marks is
\* where a rejection without a target goes, and every run that came to the
\* task went through it; where the list is empty such a rejection is refused.
\* Withdrawing leads to a user task no other is nearer to the start than.
WayBack ==
  call.fn = "back" =>
    LET def == call.def
        first == Re!first_user_task_from_start(def)
    IN  /\ \A n \in def.users \cap Reached(def, {}), in_mi \in BOOLEAN :
             LET info == Re!reject_targets(def, n, in_mi)
                 shown == info.targets
                 back == Re!reject_target(def, n, in_mi, Re!NoTask)
                 far(u) == {d \in 1 .. 4 : u \in Steps(def, n)[d]}
             IN  /\ {shown[i].node : i \in DOMAIN shown} =
                      {u \in def.users \ {n} : ~in_mi /\ far(u) # {}}
                 /\ \A i \in DOMAIN shown :
                      /\ shown[i].distance = Least(far(shown[i].node))
                      /\ \A j \in 1 .. i - 1 : shown[j].distance <= shown[i].distance
                      /\ Re!reject_target(def, n, in_mi, shown[i].node) = shown[i].node
                 /\ {shown[i].node : i \in {i \in DOMAIN shown : shown[i].is_direct_predecessor}}
                      = {back} \ {Re!NoTask}
                 /\ back # Re!NoTask => n \notin Reached(def, {back})
                 /\ ~info.rejectable => back = Re!NoTask
        /\ (first = Re!NoTask) = (def.users \cap Reached(def, {}) = {})
        /\ first # Re!NoTask =>
             LET away(u) == {d \in 1 .. 4 : def.start \in Steps(def, u)[d]}
             IN  \A u \in def.users \cap Reached(def, {}) :
                   Least(away(first)) <= Least(away(u))

-----------------------------------------------------------------------------
ParseTokens == \E ts \in Lists(Token, MaxTokens) : call' = [fn |-> "tokens", tokens |-> ts]
ParseTree == \E ast \in Tree : call' = [fn |-> "tree", ast |-> ast]
EvalCondition ==
  \E ast \in Positive, vars \in Environment :
    call' = [fn |-> "condition", ast |-> ast, vars |-> vars]
Interpolate ==
  \E text \in Lists({"a", "$", "{", "}"}, MaxTemplate) :
    call' = [fn |-> "template", text |-> text]
CheckSchema == \E decls \in Schema : call' = [fn |-> "schema", decls |-> decls]
Decide == \E rows \in Lists(Cells, 3) : call' = [fn |-> "table", rows |-> rows]
MatchGlob ==
  \E pattern \in Lists({"a", "b", "*"}, MaxGlob), text \in Lists({"a", "b"}, MaxText) :
    call' = [fn |-> "glob", pattern |-> pattern, text |-> text]
MatchRules == \E rules \in Lists(Rules, 2) : call' = [fn |-> "rules", rules |-> rules]
ReadClock ==
  \E clock \in Clock, count \in {<<>>, <<"1", "2">>} :
    call' = [fn |-> "clock", clock |-> clock, count |-> count]
ReadCandidates ==
  \E items \in Lists(Item, 3) : call' = [fn |-> "candidates", items |-> items]
ReadMappings ==
  \E pairs \in Lists(Pair, 2) : call' = [fn |-> "mappings", pairs |-> pairs]
CompileDocument ==
  \E a, b \in Body, ahead \in BOOLEAN,
     next \in [1 .. 4 -> {"task", "a", "b", "end", "nowhere"}] :
    call' = [fn |-> "document", doc |-> Document(a, b, ahead, next)]
CompileDeclared ==
  \E texts \in Lists(Lists(SchemaText, 2), 2) : call' = [fn |-> "declared", texts |-> texts]

Route ==
  \E above \in Forest, value \in Dimension \cup {NoOrg, <<"x">>},
     bound \in [Dimension \cup {NoOrg} -> {"none", "on", "off"}] :
    call' = [fn |-> "route", above |-> above, value |-> value, bound |-> bound]
SendBack ==
  \E first \in 2 .. 4, users \in SUBSET (2 .. 4),
     out \in [2 .. 4 -> {<<>>, <<2>>, <<3>>, <<4>>, <<2, 3>>, <<3, 4>>, <<4, 2>>, <<4, 4>>}] :
    call' = [fn |-> "back",
             def |-> [start |-> 1, users |-> users, out |-> <<<<first>>, out[2], out[3], out[4]>>]]

Ask ==
  \/ ParseTokens \/ ParseTree \/ EvalCondition \/ Interpolate \/ CheckSchema
  \/ Decide \/ MatchGlob \/ MatchRules \/ ReadClock \/ ReadCandidates
  \/ ReadMappings \/ CompileDocument \/ CompileDeclared \/ Route \/ SendBack
Answer == call # Idle /\ call' = Idle

Next == (call = Idle /\ Ask) \/ Answer

Spec == Init /\ [][Next]_call
=============================================================================
