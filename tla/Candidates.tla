----------------------------- MODULE Candidates ----------------------------
(***************************************************************************)
(* Candidate expressions: a list of references kind(value), of bare values *)
(* and of keywords.  Text is a sequence of characters.                     *)
(***************************************************************************)
EXTENDS Expressions

Named2Kind ==
  [n \in {"user", "u"} |-> "User"] @@ [n \in {"role", "group"} |-> "Role"]
  @@ [n \in {"position", "pos", "post"} |-> "Position"]
  @@ [n \in {"org", "dept", "department"} |-> "Org"]
  @@ [n \in {"orgleader", "leader", "deptleader"} |-> "OrgLeader"]
  @@ [n \in {"initiator", "starter"} |-> "Initiator"]
  @@ [n \in {"initiatorleader", "starterleader"} |-> "InitiatorLeader"]
Relational == {"Initiator", "InitiatorLeader", "OrgLeader"}

\* kind_from_name, without regard to case; "none" for an unknown name.
kind_from_name(chars) ==
  LET name == Text(Exchange(chars, UpperCase, LowerCase))
  IN  IF name \in DOMAIN Named2Kind THEN Named2Kind[name] ELSE "none"

Ref(kind, value) == [kind |-> kind, value |-> value]

\* A prefix that is no kind makes the whole item a bare value; a keyword has
\* no value, its anchor comes with the instance.
parse_one(item, default) ==
  LET open == Run(item, LAMBDA i : item[i] # "(")
      wrapped == open \in 1 .. Len(item) - 1 /\ Last(item) = ")"
      kind == kind_from_name(IF wrapped THEN Trim(SubSeq(item, 1, open)) ELSE item)
  IN  CASE wrapped /\ kind # "none" ->
             Ref(kind, Trim(SubSeq(item, open + 2, Len(item) - 1)))
        [] ~wrapped /\ kind \in Relational -> Ref(kind, <<>>)
        [] OTHER -> Ref(default, item)

parse_candidate_expr(expr, default) ==
  LET parts == Split(expr, ",")
      items == SelectSeq([i \in DOMAIN parts |-> Trim(parts[i])],
                         LAMBDA item : item # <<>>)
  IN  [i \in DOMAIN items |-> parse_one(items[i], default)]
=============================================================================
