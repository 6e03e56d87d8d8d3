----------------------------- MODULE VarSchemas ----------------------------
(***************************************************************************)
(* The declared variables of a flow: the check of a schema, the defaults   *)
(* it gives an instance, the check of the instance's values and the paths  *)
(* the designer offers.  A declaration has a name, a type, a default (or   *)
(* Undeclared), required, options, fields (a sequence of declarations) and *)
(* item (a sequence of at most one).  A finding is a path with a code.     *)
(***************************************************************************)
EXTENDS Expressions

Undeclared == [undeclared |-> TRUE]

Carrier ==
  [STRING |-> "str", NUMBER |-> "num", BOOLEAN |-> "bool", DATE |-> "str",
   ENUM |-> "str", OBJECT |-> "obj", ARRAY |-> "arr"]
accepts(type, v) == Is("null", v) \/ Is(Carrier[type], v)

\* A value an enumeration does not list.
Unlisted(d, v) == d.type = "ENUM" /\ Is("str", v) /\ v.str \notin d.options

Value(d, vars) == IF d.name \in DOMAIN vars THEN vars[d.name] ELSE Null

\* Missing and null variables take the default; others keep their value.
materialize_defaults(decls, vars) ==
  FoldLeft(LAMBDA out, d :
             IF d.default # Undeclared /\ Is("null", Value(d, out))
             THEN (d.name :> d.default) @@ out ELSE out,
           vars, decls)

Findings(d, v) ==
  CASE Is("null", v) ->
         IF d.required THEN {<<d.name, "REQUIRED">>} ELSE {}
    [] OTHER ->
         (IF accepts(d.type, v) THEN {} ELSE {<<d.name, "TYPE">>})
         \cup (IF Unlisted(d, v) THEN {<<d.name, "ENUM">>} ELSE {})

validate_values(decls, vars) ==
  UNION {Findings(decls[i], Value(decls[i], vars)) : i \in DOMAIN decls}

-----------------------------------------------------------------------------
MaxDepth == 16
Dotted(prefix, name) == prefix \o <<".">> \o name
Element(prefix) == prefix \o <<"[", "]">>

\* The paths of one declaration: itself, the fields of an object, the fields
\* of the objects of an array.
RECURSIVE flatten_decl(_, _, _)
flatten_decl(d, prefix, depth) ==
  LET below(fields, at) ==
        FlattenSeq([i \in DOMAIN fields |->
          flatten_decl(fields[i], Dotted(at, fields[i].name), depth + 1)])
  IN  IF depth > MaxDepth THEN <<>>
      ELSE << [path |-> prefix, type |-> d.type] >>
           \o (IF d.type = "OBJECT" THEN below(d.fields, prefix) ELSE <<>>)
           \o (IF d.type = "ARRAY" /\ d.item # <<>> /\ d.item[1].type = "OBJECT"
               THEN below(d.item[1].fields, Element(prefix)) ELSE <<>>)
flatten_paths(decls) ==
  FlattenSeq([i \in DOMAIN decls |-> flatten_decl(decls[i], decls[i].name, 0)])

-----------------------------------------------------------------------------
Misshapen_AnyDefault(d, at) ==
  (IF d.type = "ENUM" /\ d.options = {} THEN {<<at, "ENUM">>} ELSE {})
  \cup (IF d.type # "ENUM" /\ d.options # {} THEN {<<at, "TYPE">>} ELSE {})

\* Options belong to enumerations, which have at least one; a default fits
\* the type and is listed.
Misshapen(d, at) ==
  (IF d.type = "ENUM" /\ d.options = {} THEN {<<at, "ENUM">>} ELSE {})
  \cup (IF d.type # "ENUM" /\ d.options # {} THEN {<<at, "TYPE">>} ELSE {})
  \cup (IF d.default = Undeclared \/ accepts(d.type, d.default) THEN {}
        ELSE {<<at, "TYPE">>})
  \cup (IF d.default # Undeclared /\ Unlisted(d, d.default)
        THEN {<<at, "ENUM">>} ELSE {})

RECURSIVE check_decls(_, _), check_decl(_, _)
check_decl(d, at) ==
  Misshapen(d, at)
  \cup (IF d.type = "OBJECT" THEN check_decls(d.fields, at) ELSE {})
  \cup (IF d.type = "ARRAY" /\ d.item # <<>>
        THEN LET item == d.item[1]
             IN  IF item.type = "OBJECT" /\ item.fields # <<>>
                 THEN check_decls(item.fields, Element(at))
                 ELSE check_decl(item, Element(at))
        ELSE {})

\* Names are not blank and differ within their level.
check_decls(decls, at) ==
  UNION { LET d == decls[i]
              qname == IF at = <<>> THEN d.name ELSE Dotted(at, d.name)
          IN  IF Trim(d.name) = <<>> THEN {<<qname, "TYPE">>}
              ELSE (IF \E j \in 1 .. i - 1 : decls[j].name = d.name
                    THEN {<<qname, "TYPE">>} ELSE {})
                   \cup check_decl(d, qname)
          : i \in DOMAIN decls }

validate_shape(decls) == check_decls(decls, <<>>)

-----------------------------------------------------------------------------
\* The variables a sub-process is given, or gives back: all or none without
\* mappings; a source that is missing leaves its target out.
map_vars(src, mappings, full_if_empty) ==
  LET given == SelectSeq(mappings, LAMBDA m : m.source \in DOMAIN src)
      final(t) == CHOOSE i \in DOMAIN given :
                    /\ given[i].target = t
                    /\ \A j \in i + 1 .. Len(given) : given[j].target # t
  IN  IF mappings = <<>> THEN (IF full_if_empty THEN src ELSE <<>>)
      ELSE [t \in {m.target : m \in ToSet(given)} |-> src[given[final(t)].source]]
=============================================================================
