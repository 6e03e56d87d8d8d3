----------------------------- MODULE Rejections ----------------------------
(***************************************************************************)
(* Where a task may be sent back to: the search for user tasks against the *)
(* direction of the flows.  A graph has a function out from its nodes to   *)
(* the sequences of their targets, a start and a set of users, the nodes   *)
(* that are user tasks; nodes are numbered in the order of their ids.      *)
(***************************************************************************)
EXTENDS Integers, Sequences, FiniteSets

Nodes(def) == DOMAIN def.out

\* preds: one for each flow, so that a node may be there twice.
preds(def, n) ==
  {<<m, i>> \in Nodes(def) \X (1 .. 4) : i \in DOMAIN def.out[m] /\ def.out[m][i] = n}
Before(def, set) == {p[1] : p \in UNION {preds(def, n) : n \in set}}

\* The nodes at each distance against the flows from node n, which counts as
\* visited itself.
Layers(def, n) ==
  LET Layer[d \in 0 .. Cardinality(Nodes(def))] ==
        IF d = 0 THEN [at |-> {n}, seen |-> {n}]
        ELSE LET fresh == Before(def, Layer[d - 1].at) \ Layer[d - 1].seen
             IN  [at |-> fresh, seen |-> Layer[d - 1].seen \cup fresh]
  IN  [d \in 1 .. Cardinality(Nodes(def)) |-> Layer[d].at]

\* reachable_upstream_user_tasks: the nearest first.
reachable_upstream_user_tasks(def, n) ==
  LET found == {<<d, u>> \in (1 .. Cardinality(Nodes(def))) \X def.users :
                  u \in Layers(def, n)[d]}
      less(a, b) == a[1] < b[1] \/ (a[1] = b[1] /\ a[2] < b[2])
  IN  [i \in 1 .. Cardinality(found) |->
         CHOOSE f \in found : Cardinality({g \in found : less(g, f)}) = i - 1]

\* predecessor_user_task: back along the only flow, past what is no user
\* task; an error where there is not exactly one flow, or after MaxSteps.
MaxSteps == 64
NoTask == 0

Only_AnyFlow(def, n) == preds(def, n) # {}
Only(def, n) == Cardinality(preds(def, n)) = 1

predecessor_user_task(def, n) ==
  LET Back[k \in 0 .. MaxSteps] ==
        IF k = 0 THEN [at |-> n, found |-> FALSE, failed |-> FALSE]
        ELSE LET was == Back[k - 1]
                 p   == (CHOOSE q \in preds(def, was.at) : TRUE)[1]
             IN  CASE was.found \/ was.failed -> was
                   [] ~Only(def, was.at) -> [was EXCEPT !.failed = TRUE]
                   [] OTHER -> [at |-> p, found |-> p \in def.users, failed |-> FALSE]
      end == Back[MaxSteps]
  IN  IF end.found THEN end.at ELSE NoTask

\* reject_task: the target asked for, which may be any user task, else the
\* predecessor; nothing inside a multi-instance task.
reject_target(def, n, in_mi, asked) ==
  CASE in_mi -> NoTask
    [] asked = NoTask -> predecessor_user_task(def, n)
    [] OTHER -> IF asked \in def.users THEN asked ELSE NoTask

\* reject_targets: what the list to choose from shows.
reject_targets(def, n, in_mi) ==
  LET upstream == IF in_mi THEN <<>> ELSE reachable_upstream_user_tasks(def, n)
      default  == IF in_mi THEN NoTask ELSE predecessor_user_task(def, n)
  IN  [rejectable |-> upstream # <<>>, default |-> default,
       targets |-> [i \in DOMAIN upstream |->
         [distance |-> upstream[i][1], node |-> upstream[i][2],
          is_direct_predecessor |-> upstream[i][2] = default]]]

\* first_user_task_from_start: in the order of a breadth-first search.
first_user_task_from_start(def) ==
  LET Bound == Cardinality(Nodes(def))
      \* the queue after k nodes were taken from it
      Queue[k \in 0 .. Bound] ==
        IF k = 0 THEN <<def.start>>
        ELSE IF k > Len(Queue[k - 1]) THEN Queue[k - 1]
        ELSE LET queue == Queue[k - 1]
                 out   == def.out[queue[k]]
                 Known(i) == \/ \E j \in DOMAIN queue : queue[j] = out[i]
                             \/ \E j \in 1 .. i - 1 : out[j] = out[i]
                 fresh == {i \in DOMAIN out : ~Known(i)}
             IN  queue \o [r \in 1 .. Cardinality(fresh) |->
                             out[CHOOSE i \in fresh :
                                   Cardinality({j \in fresh : j < i}) = r - 1]]
      order == Queue[Bound]
      hits  == {i \in 2 .. Len(order) : order[i] \in def.users}
  IN  IF hits = {} THEN NoTask
      ELSE order[CHOOSE i \in hits : \A j \in hits : i <= j]
=============================================================================
