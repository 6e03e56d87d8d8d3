----------------------------- MODULE RouteRules ----------------------------
(***************************************************************************)
(* Which deliveries an event gives rise to: the glob patterns and the      *)
(* rules of a subscriber, their validation, and the curve of the retries.  *)
(* Text is a sequence of characters.  NoGroup is the group of a definition *)
(* that has none.                                                          *)
(***************************************************************************)
EXTENDS Expressions

NoGroup == 0

\* The last star takes one character more.
Retry_Here(at) == [at EXCEPT !.p = at.star + 1, !.t = at.t + 1]
Retry(at) ==
  [at EXCEPT !.p = at.star + 1, !.t = at.mark + 1, !.mark = at.mark + 1]

\* One pass over the text: p and t are the next positions, star the last star
\* seen (0 for none) and mark the text position it was tried at.
RECURSIVE Scan(_, _, _)
Scan(pattern, text, at) ==
  LET p == at.p
      t == at.t
      star == at.star
      onStar == p <= Len(pattern) /\ pattern[p] = "*"
      onSame == p <= Len(pattern) /\ t <= Len(text) /\ pattern[p] = text[t]
  IN  IF t > Len(text) THEN \A i \in p .. Len(pattern) : pattern[i] = "*"
      ELSE IF onStar
      THEN Scan(pattern, text, [p |-> p + 1, t |-> t, star |-> p, mark |-> t])
      ELSE IF onSame
      THEN Scan(pattern, text, [at EXCEPT !.p = p + 1, !.t = t + 1])
      ELSE IF star # 0
      THEN Scan(pattern, text, Retry(at))
      ELSE FALSE
glob_match(pattern, text) ==
  Scan(pattern, text, [p |-> 1, t |-> 1, star |-> 0, mark |-> 1])

\* An empty dimension does not restrict; NoKey is an event without a key.
NoKey == <<"?">>
rule_matches(rule, event) ==
  /\ rule.enabled
  /\ rule.types = {} \/ event.type \in rule.types
  /\ rule.groups = {} \/ event.group \in rule.groups \ {NoGroup}
  /\ \/ rule.patterns = <<>>
     \/ /\ event.key # NoKey
        /\ \E i \in DOMAIN rule.patterns : glob_match(rule.patterns[i], event.key)

\* The name of the first rule that matches.
match_rules(rules, event) ==
  LET hits == SelectSeq(rules, LAMBDA r : rule_matches(r, event))
  IN  IF hits = <<>> THEN "none" ELSE Text(Head(hits).name)

\* Trimmed names and patterns; Failed when a rule is not acceptable.
MaxRules == 20
MaxName == 64
MaxPattern == 128
ValidPattern(p) ==
  /\ p # <<>> /\ Len(p) <= MaxPattern
  /\ ToSet(p) \cap {"?", "[", "]"} = {}

validate_rules(rules, types, groups) ==
  LET tidy == [i \in DOMAIN rules |->
                 [rules[i] EXCEPT
                    !.name = Trim(@),
                    !.patterns = [k \in DOMAIN @ |-> Trim(@[k])]]]
  IN  IF /\ Len(rules) <= MaxRules
         /\ \A i \in DOMAIN tidy :
              /\ tidy[i].name # <<>> /\ Len(tidy[i].name) <= MaxName
              /\ \A j \in 1 .. i - 1 : tidy[j].name # tidy[i].name
              /\ tidy[i].types \subseteq types
              /\ tidy[i].groups \subseteq groups
              /\ \A k \in DOMAIN tidy[i].patterns : ValidPattern(tidy[i].patterns[k])
      THEN [ok |-> TRUE, rules |-> tidy] ELSE Failed

\* Seconds before the attempt after the n-th: doubling, up to five minutes.
backoff_after(attempts) ==
  LET exponent == IF attempts <= 1 THEN 0
                  ELSE IF attempts > 10 THEN 9 ELSE attempts - 1
      seconds == 2 ^ exponent
  IN  IF seconds > 300 THEN 300 ELSE seconds
=============================================================================
