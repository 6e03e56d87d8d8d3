------------------------------ MODULE Routing ------------------------------
(***************************************************************************)
(* Which definition a call activity starts for an organisation: the        *)
(* binding of the organisation itself, that of the nearest organisation    *)
(* above it, the default (PgSubflowRouter).  Organisations are above one   *)
(* another by their materialised paths.  Text is a sequence of characters. *)
(*                                                                         *)
(* The rows of one called key and one dimension are given: row.value is    *)
(* NoValue for the default binding.  Several rows of one value are left    *)
(* out, the table has none.                                                *)
(***************************************************************************)
EXTENDS Integers, Sequences, FiniteSets

NoValue == <<>>
NoTarget == "none"
NoPath == <<>>
Delim == "/"

\* LIKE, for a pattern that ends in %: _ stands for any character.
Like(text, pattern) ==
  /\ Len(pattern) <= Len(text)
  /\ \A i \in DOMAIN pattern : pattern[i] \in {text[i], "_"}

\* Whether path a is path s or above it: a delimiter bounds the segment.
Above_Unbounded(a, s) == Like(s, a)
Above(a, s) == a = s \/ Like(s, Append(a, Delim))

\* ancestors: the values above a value, the nearest first.  path maps the
\* values of the dimension to their paths.
ancestors(path, v) ==
  LET over == IF v \notin DOMAIN path \/ path[v] = NoPath THEN {}
              ELSE {a \in DOMAIN path \ {v} : path[a] # NoPath /\ Above(path[a], path[v])}
  IN  [i \in 1 .. Cardinality(over) |->
         CHOOSE a \in over :
           Cardinality({b \in over : Len(path[b]) > Len(path[a])}) = i - 1]

Enabled(rows, v) == {r \in rows : r.enabled /\ r.value = v}
Target(rows) == IF rows = {} THEN NoTarget ELSE (CHOOSE r \in rows : TRUE).target

\* The inherited binding, by one query over the paths.
Inherited(rows, path, v) ==
  LET bound == IF v \notin DOMAIN path \/ path[v] = NoPath THEN {}
               ELSE {r \in rows : /\ r.enabled /\ r.value \in DOMAIN path
                                  /\ path[r.value] # NoPath
                                  /\ Above(path[r.value], path[v])}
  IN  Target({r \in bound : \A q \in bound : Len(path[q.value]) <= Len(path[r.value])})

\* The inherited binding, by asking for the ancestors and trying each.
InheritedByResolver(rows, path, v) ==
  LET above == ancestors(path, v)
      hits  == {i \in DOMAIN above : Enabled(rows, above[i]) # {}}
  IN  IF hits = {} THEN NoTarget
      ELSE Target(Enabled(rows, above[CHOOSE i \in hits : \A j \in hits : i <= j]))

\* resolve: NoTarget is the error NoBinding.
resolve(rows, path, v, resolver) ==
  LET exact == Target(Enabled(rows, v))
      up    == IF resolver THEN InheritedByResolver(rows, path, v)
               ELSE Inherited(rows, path, v)
  IN  CASE v # NoValue /\ exact # NoTarget -> exact
        [] v # NoValue /\ exact = NoTarget /\ up # NoTarget -> up
        [] OTHER -> Target(Enabled(rows, NoValue))
=============================================================================
