----------------------------- MODULE Durations -----------------------------
(***************************************************************************)
(* The ISO 8601 subset of timers: durations such as P1DT2H and cycles such *)
(* as R3/PT1H.  Bits is the width of the integers (64 in the code); sums   *)
(* and products wrap, as they do in a release build.                       *)
(***************************************************************************)
EXTENDS Expressions

CONSTANT Bits

MaxInt == 2 ^ (Bits - 1) - 1
Wrap(n) == ((n + MaxInt + 1) % (2 ^ Bits)) - MaxInt - 1

Seconds == [D |-> 86400, H |-> 3600, M |-> 60, S |-> 1]

Number(chars) == FoldLeft(LAMBDA n, c : 10 * n + Digit[c], 0, chars)

Start == [ok |-> TRUE, inTime |-> FALSE, number |-> <<>>, total |-> 0, any |-> FALSE]

Unit_KeepNumber(read, u) ==
  IF (u # "D" => read.inTime) /\ read.number # <<>>
  THEN [read EXCEPT !.total = @ + Number(read.number) * Seconds[u], !.any = TRUE]
  ELSE [read EXCEPT !.ok = FALSE]

\* A letter closes the number before it; hours, minutes and seconds belong
\* after T, months have no place.
Unit(read, u) ==
  IF (u # "D" => read.inTime) /\ read.number # <<>> /\ Number(read.number) <= MaxInt
  THEN [read EXCEPT !.total = Wrap(@ + Wrap(Number(read.number) * Seconds[u])),
                    !.number = <<>>, !.any = TRUE]
  ELSE [read EXCEPT !.ok = FALSE]

Next(read, c) ==
  CASE ~read.ok -> read
    [] read.ok /\ c = "T" -> [read EXCEPT !.ok = read.number = <<>>, !.inTime = TRUE]
    [] read.ok /\ c \in Digits -> [read EXCEPT !.number = Append(@, c)]
    [] read.ok /\ c \in DOMAIN Seconds -> Unit(read, c)
    [] OTHER -> [read EXCEPT !.ok = FALSE]

\* The seconds of a duration, or 0 when it is refused.
parse_iso8601_duration(input) ==
  LET s == Exchange(Trim(input), LowerCase, UpperCase)
      read == FoldLeft(Next, Start, Tail(s))
  IN  IF s = <<>> \/ Head(s) # "P" THEN 0
      ELSE IF read.ok /\ read.number = <<>> /\ read.any /\ read.total > 0
      THEN read.total ELSE 0

\* [repeats, interval]; -1 repeats stand for a cycle without end.
Endless == -1
parse_iso8601_cycle(input) ==
  LET s == Exchange(Trim(input), LowerCase, UpperCase)
      slash == CHOOSE i \in DOMAIN s : s[i] = "/" /\ \A j \in 1 .. i - 1 : s[j] # "/"
      count == SubSeq(s, 2, slash - 1)
      interval == parse_iso8601_duration(SubSeq(s, slash + 1, Len(s)))
  IN  IF s = <<>> \/ Head(s) # "R" \/ "/" \notin ToSet(s) THEN Failed
      ELSE IF ~(ToSet(count) \subseteq Digits) \/ interval = 0 THEN Failed
      ELSE [ok |-> TRUE, interval |-> interval,
            repeats |-> IF count = <<>> THEN Endless ELSE Number(count)]
=============================================================================
