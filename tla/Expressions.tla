---------------------------- MODULE Expressions ----------------------------
(***************************************************************************)
(* Conditions, templates and decision cells: the lexer, the recursive      *)
(* descent parser and the evaluator of the expression language.            *)
(*                                                                         *)
(* Text is a sequence of one-character strings.  A number is a fraction    *)
(* num/den with a mark that tells a float from an integer, because the two *)
(* are written differently; rounding, exponents, signs inside strings,     *)
(* infinities and NaN are left out, and the text of an array or object is  *)
(* always [].  Parser functions take the tokens and the position to read   *)
(* next and return what they read and the position after it, or Failed.    *)
(***************************************************************************)
EXTENDS Integers, SequencesExt, TLC

Text(chars) == FoldLeft(LAMBDA s, c : s \o c, "", chars)

LowerCase == << "a", "b", "c", "d", "e", "f", "g", "h", "i", "j", "k", "l", "m",
                "n", "o", "p", "q", "r", "s", "t", "u", "v", "w", "x", "y", "z" >>
UpperCase == << "A", "B", "C", "D", "E", "F", "G", "H", "I", "J", "K", "L", "M",
                "N", "O", "P", "Q", "R", "S", "T", "U", "V", "W", "X", "Y", "Z" >>
Letters == ToSet(LowerCase) \cup ToSet(UpperCase)
Digits == {"0", "1", "2", "3", "4", "5", "6", "7", "8", "9"}
Digit == [d \in Digits |-> CHOOSE n \in 0 .. 9 : ToString(n) = d]

Exchange(chars, from, to) ==
  [i \in DOMAIN chars |->
     IF chars[i] \in ToSet(from)
     THEN to[CHOOSE k \in DOMAIN from : from[k] = chars[i]] ELSE chars[i]]

\* str::trim: blanks at both ends.
RECURSIVE Trim(_)
Trim(chars) ==
  CASE chars # <<>> /\ Head(chars) = " " -> Trim(Tail(chars))
    [] chars # <<>> /\ Head(chars) # " " /\ Last(chars) = " " -> Trim(Front(chars))
    [] OTHER -> chars

\* str::split: one part more than there are separators.
Split(chars, separator) ==
  FoldLeft(LAMBDA parts, c : IF c = separator THEN Append(parts, <<>>)
                             ELSE [parts EXCEPT ![Len(parts)] = Append(@, c)],
           << <<>> >>, chars)

-----------------------------------------------------------------------------
(* JSON values.                                                            *)

Null == [null |-> TRUE]
Bool(b) == [bool |-> b]
Str(chars) == [str |-> chars]
Whole(n) == [num |-> n, den |-> 1, float |-> FALSE]
Float(p, q) == [num |-> p, den |-> q, float |-> TRUE]
Error(kind) == [error |-> kind]

Is(kind, v) == kind \in DOMAIN v

\* serde_json writes a float with a decimal point: 1.0, not 1.
NumberText(v) ==
  LET whole == ToString(v.num \div v.den)
  IN  IF v.num % v.den # 0 THEN << ToString(v.num), "/", ToString(v.den) >>
      ELSE IF v.float THEN << whole, ".", "0" >> ELSE << whole >>

to_plain_string(v) ==
  CASE Is("str", v) -> v.str
    [] Is("null", v) -> <<>>
    [] Is("bool", v) -> IF v.bool THEN <<"t", "r", "u", "e">>
                                  ELSE <<"f", "a", "l", "s", "e">>
    [] Is("num", v) -> NumberText(v)
    [] OTHER -> <<"[", "]">>

\* What a template shows of a value: nothing of an array or an object.
value_to_string(v) ==
  IF Is("arr", v) \/ Is("obj", v) THEN <<>> ELSE to_plain_string(v)

truthy(v) ==
  CASE Is("null", v) -> FALSE
    [] Is("bool", v) -> v.bool
    [] Is("num", v) -> v.num # 0
    [] Is("str", v) -> v.str # <<>>
    [] Is("arr", v) -> v.arr # <<>>
    [] Is("obj", v) -> DOMAIN v.obj # {}

\* Numbers by value, everything else by structure.
json_eq(a, b) ==
  IF Is("num", a) /\ Is("num", b) THEN a.num * b.den = b.num * a.den ELSE a = b

\* Decimal digits with at most one point, as f64 reads them.
Reads(chars) ==
  /\ \E i \in DOMAIN chars : chars[i] \in Digits
  /\ \A i \in DOMAIN chars : chars[i] \in Digits \cup {"."}
  /\ Len(SelectSeq(chars, LAMBDA c : c = ".")) <= 1

Read(chars) ==
  LET digits == SelectSeq(chars, LAMBDA c : c # ".")
      places == IF "." \in ToSet(chars)
                THEN Len(chars) - CHOOSE i \in DOMAIN chars : chars[i] = "." ELSE 0
  IN  Float(FoldLeft(LAMBDA n, c : 10 * n + Digit[c], 0, digits), 10 ^ places)

\* as_number: what cannot count as a number is an evaluation error.
as_number(v) ==
  CASE Is("num", v) -> v
    [] Is("bool", v) -> Float(IF v.bool THEN 1 ELSE 0, 1)
    [] Is("str", v) /\ Reads(Trim(v.str)) -> Read(Trim(v.str))
    [] OTHER -> Error("eval")

-----------------------------------------------------------------------------
(* Tokens: [op], [num], [str], [lit] or [id].                              *)

Op(s) == [op |-> s]
Single == {"(", ")", ",", "+", "-", "*", "/"}
Doubled == {"&", "|", "="}     \* legal only as &&, || and ==
WithEq == {"!", "<", ">"}      \* alone, or before =
Word == [t \in {"true", "false", "null"} |-> [lit |-> t]]
        @@ [and |-> Op("&&"), or |-> Op("||"), not |-> Op("!")]

Escaped(c) == IF c = "n" THEN "\n" ELSE IF c = "t" THEN "\t" ELSE c

\* The text of a string literal after its opening quote, the rest after the
\* closing one; Failed when the quote is never closed.
Failed == [ok |-> FALSE]
RECURSIVE Quoted(_, _, _)
Quoted(quote, s, read) ==
  CASE s = <<>> -> Failed
    [] s # <<>> /\ Head(s) = quote -> [ok |-> TRUE, text |-> read, rest |-> Tail(s)]
    [] s # <<>> /\ Head(s) # quote ->
         IF Head(s) = "\\" /\ Len(s) > 1
         THEN Quoted(quote, Tail(Tail(s)), Append(read, Escaped(s[2])))
         ELSE Quoted(quote, Tail(s), Append(read, Head(s)))

\* How many of the first characters satisfy Fits(i).
Run(s, Fits(_)) ==
  CHOOSE n \in 0 .. Len(s) : /\ \A i \in 1 .. n : Fits(i)
                             /\ n = Len(s) \/ ~Fits(n + 1)

Numeral(s) ==
  Run(s, LAMBDA i : \/ s[i] \in Digits
                    \/ s[i] = "." /\ \A j \in 1 .. i - 1 : s[j] # ".")
Identifier(s) == Run(s, LAMBDA i : s[i] \in Letters \cup Digits \cup {"_", "."})

Named(chars) ==
  IF Text(chars) \in DOMAIN Word THEN Word[Text(chars)] ELSE [id |-> chars]

RECURSIVE Tokens(_, _)
Tokens(s, read) ==
  LET c == Head(s)
      Take(token, n) == Tokens(SubSeq(s, n + 1, Len(s)), Append(read, token))
      before(d) == Len(s) > 1 /\ s[2] = d
  IN  CASE s = <<>> -> [ok |-> TRUE, tokens |-> read]
        [] s # <<>> /\ c = " " -> Tokens(Tail(s), read)
        [] s # <<>> /\ c \in Single -> Take(Op(c), 1)
        [] s # <<>> /\ c \in Doubled ->
             IF before(c) THEN Take(Op(c \o c), 2) ELSE Failed
        [] s # <<>> /\ c \in WithEq ->
             IF before("=") THEN Take(Op(c \o "="), 2) ELSE Take(Op(c), 1)
        [] s # <<>> /\ c \in {"'", "\""} ->
             LET q == Quoted(c, Tail(s), <<>>)
             IN  IF q.ok THEN Tokens(q.rest, Append(read, [str |-> q.text]))
                 ELSE Failed
        [] s # <<>> /\ c \in Digits ->
             LET n == Numeral(s)
             IN  Take([num |-> Read(SubSeq(s, 1, n))], n)
        [] s # <<>> /\ c \in Letters \cup {"_"} ->
             LET n == Identifier(s) IN Take(Named(SubSeq(s, 1, n)), n)
        [] OTHER -> Failed
tokenize(s) == Tokens(s, <<>>)

-----------------------------------------------------------------------------
(* Syntax trees: [value], [var], [call, args], [unary, of] or              *)
(* [binary, left, right].                                                  *)

Unary(op, a) == [unary |-> op, of |-> a]
Binary(op, a, b) == [binary |-> op, left |-> a, right |-> b]
Parsed(ast, next) == [ok |-> TRUE, ast |-> ast, next |-> next]

\* The five levels of binary operators, loosest first; comparisons do not
\* chain.
Level == << {"||"}, {"&&"}, {"==", "!=", "<", "<=", ">", ">="},
            {"+", "-"}, {"*", "/"} >>
Chains_All(l) == TRUE
Chains(l) == l # 3

IsOp(ts, i, ops) == i \in DOMAIN ts /\ Is("op", ts[i]) /\ ts[i].op \in ops

RECURSIVE ParseBinary(_, _, _), ParseMore(_, _, _), ParseUnary(_, _),
          ParsePrimary(_, _), ParseArgs(_, _, _)

ParseExpr(ts, i) == ParseBinary(1, ts, i)

ParseBinary(l, ts, i) ==
  IF l > Len(Level) THEN ParseUnary(ts, i)
  ELSE ParseMore(l, ts, ParseBinary(l + 1, ts, i))

\* Left-associative: what was read so far becomes the left operand.
ParseMore(l, ts, left) ==
  IF ~left.ok \/ ~IsOp(ts, left.next, Level[l]) THEN left
  ELSE LET right == ParseBinary(l + 1, ts, left.next + 1)
           both == Parsed(Binary(ts[left.next].op, left.ast, right.ast), right.next)
       IN  IF ~right.ok THEN Failed
           ELSE IF Chains(l) THEN ParseMore(l, ts, both) ELSE both

ParseUnary(ts, i) ==
  IF ~IsOp(ts, i, {"!", "-"}) THEN ParsePrimary(ts, i)
  ELSE LET operand == ParseUnary(ts, i + 1)
       IN  IF operand.ok THEN Parsed(Unary(ts[i].op, operand.ast), operand.next)
           ELSE Failed

\* The arguments read so far, up to the closing parenthesis.
ParseArgs(ts, i, read) ==
  LET arg == ParseExpr(ts, i)
      args == Append(read, arg.ast)
  IN  IF ~arg.ok THEN Failed
      ELSE IF IsOp(ts, arg.next, {","}) THEN ParseArgs(ts, arg.next + 1, args)
      ELSE IF IsOp(ts, arg.next, {")"}) THEN Parsed(args, arg.next + 1)
      ELSE Failed

ParseCall(ts, i) ==
  LET args == IF IsOp(ts, i + 2, {")"}) THEN Parsed(<<>>, i + 3)
              ELSE ParseArgs(ts, i + 2, <<>>)
  IN  IF args.ok THEN Parsed([call |-> ts[i].id, args |-> args.ast], args.next)
      ELSE Failed

Literal(t) ==
  CASE Is("num", t) -> t.num
    [] Is("str", t) -> Str(t.str)
    [] Is("lit", t) -> IF t.lit = "null" THEN Null ELSE Bool(t.lit = "true")

ParsePrimary(ts, i) ==
  IF i \notin DOMAIN ts THEN Failed
  ELSE CASE Is("id", ts[i]) ->
              IF IsOp(ts, i + 1, {"("}) THEN ParseCall(ts, i)
              ELSE Parsed([var |-> ts[i].id], i + 1)
         [] Is("op", ts[i]) ->
              LET inner == ParseExpr(ts, i + 1)
              IN  IF ts[i].op = "(" /\ inner.ok /\ IsOp(ts, inner.next, {")"})
                  THEN Parsed(inner.ast, inner.next + 1) ELSE Failed
         [] OTHER -> Parsed([value |-> Literal(ts[i])], i + 1)

\* parse_expr followed by expect_end.
Parse(ts) ==
  LET read == ParseExpr(ts, 1)
  IN  IF read.ok /\ read.next = Len(ts) + 1 THEN read ELSE Failed

-----------------------------------------------------------------------------
(* Variables: a function from names to values.                             *)

Segments(name) == Split(name, ".")

descend(v, segment) ==
  LET index == 1 + FoldLeft(LAMBDA n, c : 10 * n + Digit[c], 0, segment)
  IN  CASE Is("obj", v) /\ segment \in DOMAIN v.obj -> v.obj[segment]
        [] Is("arr", v) /\ segment # <<>> /\ ToSet(segment) \subseteq Digits ->
             IF index \in DOMAIN v.arr THEN v.arr[index] ELSE Null
        [] OTHER -> Null

\* The whole name first, then the path it may be.
lookup_var(name, vars) ==
  LET path == Segments(name)
  IN  CASE name \in DOMAIN vars -> vars[name]
        [] name \notin DOMAIN vars /\ Len(path) > 1 /\ Head(path) \in DOMAIN vars ->
             FoldLeft(descend, vars[Head(path)], Tail(path))
        [] OTHER -> Null

-----------------------------------------------------------------------------
(* The built-in functions.                                                 *)

\* builtin_catalog: the names the designer offers with the number of their
\* arguments, Variadic for functions that take any number.
Variadic == -1
Each(names, n) == [name \in names |-> n]
builtin_catalog ==
  Each({"LEN", "UPPER", "LOWER", "TRIM", "IS_EMPTY", "ABS", "ROUND", "FLOOR",
        "CEIL", "NOT"}, 1)
  @@ Each({"STARTSWITH", "ENDSWITH", "CONTAINS"}, 2)
  @@ Each({"IF"}, 3)
  @@ Each({"IN", "MIN", "MAX", "COALESCE"}, Variadic)

\* The names call_builtin knows, with the arguments it insists on.
Arity ==
  builtin_catalog @@ Each({"LENGTH", "ISEMPTY", "CEILING"}, 1)

Length(v) ==
  CASE Is("arr", v) -> Len(v.arr)
    [] Is("obj", v) -> Cardinality(DOMAIN v.obj)
    [] OTHER -> Len(to_plain_string(v))

Holds(v, x) ==
  CASE Is("arr", v) -> \E i \in DOMAIN v.arr : json_eq(v.arr[i], x)
    [] Is("str", v) -> \E i, j \in 0 .. Len(v.str) :
                         SubSeq(v.str, i + 1, j) = to_plain_string(x)
    [] Is("obj", v) -> to_plain_string(x) \in DOMAIN v.obj
    [] OTHER -> FALSE

Empty(v) ==
  CASE Is("null", v) -> TRUE
    [] Is("str", v) -> v.str = <<>>
    [] Is("arr", v) -> v.arr = <<>>
    [] Is("obj", v) -> DOMAIN v.obj = {}
    [] OTHER -> FALSE

Abs(n) == IF n < 0 THEN -n ELSE n

\* Half away from zero, towards the lower, towards the upper integer.
Rounded(fn, v) ==
  CASE fn = "ABS" -> Float(Abs(v.num), v.den)
    [] fn = "FLOOR" -> Float(v.num \div v.den, 1)
    [] fn \in {"CEIL", "CEILING"} -> Float(-((-v.num) \div v.den), 1)
    [] fn = "ROUND" ->
         LET away == (2 * Abs(v.num) + v.den) \div (2 * v.den)
         IN  Float(IF v.num < 0 THEN -away ELSE away, 1)

Less(a, b) == a.num * b.den < b.num * a.den
Extreme(fn, numbers) ==
  LET best == CHOOSE i \in DOMAIN numbers :
                \A j \in DOMAIN numbers :
                  IF fn = "MIN" THEN ~Less(numbers[j], numbers[i])
                                ELSE ~Less(numbers[i], numbers[j])
  IN  [numbers[best] EXCEPT !.float = TRUE]

IsError(v) == Is("error", v)

OnNumbers(fn, args) ==
  LET numbers == [i \in DOMAIN args |-> as_number(args[i])]
  IN  IF \E i \in DOMAIN args : IsError(numbers[i]) THEN Error("eval")
      ELSE IF fn \in {"MIN", "MAX"} THEN Extreme(fn, numbers)
      ELSE Rounded(fn, numbers[1])

call_builtin(name, args) ==
  LET fn == Text(Exchange(name, LowerCase, UpperCase))
      text(i) == to_plain_string(args[i])
  IN  IF fn \notin DOMAIN Arity THEN Error("syntax")
      ELSE IF \/ Arity[fn] # Variadic /\ Len(args) # Arity[fn]
              \/ fn \in {"IN", "MIN", "MAX"} /\ args = <<>> THEN Error("eval")
      ELSE CASE fn \in {"LEN", "LENGTH"} -> Whole(Length(args[1]))
             [] fn = "UPPER" -> Str(Exchange(text(1), LowerCase, UpperCase))
             [] fn = "LOWER" -> Str(Exchange(text(1), UpperCase, LowerCase))
             [] fn = "TRIM" -> Str(Trim(text(1)))
             [] fn = "STARTSWITH" -> Bool(IsPrefix(text(2), text(1)))
             [] fn = "ENDSWITH" -> Bool(IsSuffix(text(2), text(1)))
             [] fn = "CONTAINS" -> Bool(Holds(args[1], args[2]))
             [] fn = "IN" -> Bool(\E i \in 2 .. Len(args) : json_eq(args[i], args[1]))
             [] fn \in {"IS_EMPTY", "ISEMPTY"} -> Bool(Empty(args[1]))
             [] fn = "COALESCE" ->
                  Head(Append(SelectSeq(args, LAMBDA a : ~Is("null", a)), Null))
             [] fn = "IF" -> IF truthy(args[1]) THEN args[2] ELSE args[3]
             [] fn = "NOT" -> Bool(~truthy(args[1]))
             [] OTHER -> OnNumbers(fn, args)

-----------------------------------------------------------------------------
(* Evaluation.                                                             *)

Arithmetic(op, a, b) ==
  LET x == as_number(a)
      y == as_number(b)
  IN  IF IsError(x) \/ IsError(y) THEN Error("eval")
      ELSE CASE op = "+" -> Float(x.num * y.den + y.num * x.den, x.den * y.den)
             [] op = "-" -> Float(x.num * y.den - y.num * x.den, x.den * y.den)
             [] op = "*" -> Float(x.num * y.num, x.den * y.den)
             [] op = "/" ->
                  IF y.num = 0 THEN Error("eval")
                  ELSE LET sign == IF y.num < 0 THEN -1 ELSE 1
                       IN  Float(sign * x.num * y.den, x.den * Abs(y.num))

\* An order on a missing value is false, not an error.
Unknown_Never(a, b) == FALSE
Unknown(a, b) == Is("null", a) \/ Is("null", b)

Compare(op, a, b) ==
  LET x == as_number(a)
      y == as_number(b)
  IN  IF Unknown(a, b) THEN Bool(FALSE)
      ELSE IF IsError(x) \/ IsError(y) THEN Error("eval")
      ELSE Bool(CASE op = "<" -> Less(x, y)
                  [] op = "<=" -> ~Less(y, x)
                  [] op = ">" -> Less(y, x)
                  [] op = ">=" -> ~Less(x, y))

\* The operators that need both operands.
Apply(op, a, b) ==
  CASE IsError(a) -> a
    [] ~IsError(a) /\ IsError(b) -> b
    [] ~IsError(a) /\ ~IsError(b) ->
         CASE op = "==" -> Bool(json_eq(a, b))
           [] op = "!=" -> Bool(~json_eq(a, b))
           [] op \in {"<", "<=", ">", ">="} -> Compare(op, a, b)
           [] op = "+" /\ (Is("str", a) \/ Is("str", b)) ->
                Str(to_plain_string(a) \o to_plain_string(b))
           [] OTHER -> Arithmetic(op, a, b)

Negated(v) ==
  LET n == as_number(v) IN IF IsError(n) THEN n ELSE Float(-n.num, n.den)

\* The arguments of a call are evaluated first: the first error is the result.
Call(name, args) ==
  LET errors == SelectSeq(args, IsError)
  IN  IF errors = <<>> THEN call_builtin(name, args) ELSE Head(errors)

OnOperand(op, v) ==
  CASE IsError(v) -> v
    [] ~IsError(v) /\ op = "!" -> Bool(~truthy(v))
    [] ~IsError(v) /\ op = "-" -> Negated(v)

Truth(v) == IF IsError(v) THEN v ELSE Bool(truthy(v))
\* && and || look at the right operand only where the left does not decide.
Combined(op, a, b) ==
  IF op \notin {"&&", "||"} THEN Apply(op, a, b)
  ELSE IF IsError(a) \/ truthy(a) = (op = "||") THEN Truth(a) ELSE Truth(b)

RECURSIVE eval(_, _)
eval(ast, vars) ==
  CASE Is("value", ast) -> ast.value
    [] Is("var", ast) -> lookup_var(ast.var, vars)
    [] Is("call", ast) ->
         Call(ast.call, [i \in DOMAIN ast.args |-> eval(ast.args[i], vars)])
    [] Is("unary", ast) -> OnOperand(ast.unary, eval(ast.of, vars))
    [] Is("binary", ast) ->
         Combined(ast.binary, eval(ast.left, vars), eval(ast.right, vars))

\* ${...} or #{...} around the whole text is taken off.
strip_wrapper(s) ==
  IF Len(s) >= 3 /\ s[1] \in {"$", "#"} /\ s[2] = "{" /\ Last(s) = "}"
  THEN Trim(SubSeq(s, 3, Len(s) - 1)) ELSE s

ReadExpr(text) ==
  LET lexed == tokenize(strip_wrapper(Trim(text)))
  IN  IF lexed.ok THEN Parse(lexed.tokens) ELSE Failed

IsBlank(text) == strip_wrapper(Trim(text)) = <<>>

validate_syntax(text) == IsBlank(text) \/ ReadExpr(text).ok

eval_value(text, vars) ==
  IF IsBlank(text) THEN Null
  ELSE IF ReadExpr(text).ok THEN eval(ReadExpr(text).ast, vars) ELSE Error("syntax")

eval_condition(text, vars) ==
  LET v == eval_value(text, vars)
  IN  IF IsBlank(text) THEN Bool(TRUE) ELSE IF IsError(v) THEN v ELSE Bool(truthy(v))

Opens_AnyDollar(s, i) == s[i] = "$" /\ i < Len(s)
Opens(s, i) == s[i] = "$" /\ i < Len(s) /\ s[i + 1] = "{"

\* Every ${...} is replaced once by what its value shows; the text that comes
\* out is not read again.
RECURSIVE Interpolated(_, _, _)
Interpolated(rest, vars, out) ==
  LET start == Run(rest, LAMBDA i : ~Opens(rest, i))
      after == SubSeq(rest, start + 3, Len(rest))
      stop == Run(after, LAMBDA i : after[i] # "}")
      v == eval_value(SubSeq(after, 1, stop), vars)
  IN  CASE start = Len(rest) -> Str(out \o rest)
        [] start < Len(rest) /\ stop = Len(after) -> Error("syntax")
        [] OTHER ->
             IF IsError(v) THEN v
             ELSE Interpolated(SubSeq(after, stop + 2, Len(after)), vars,
                    out \o SubSeq(rest, 1, start) \o value_to_string(v))
interpolate(template, vars) == Interpolated(template, vars, <<>>)
=============================================================================
