--------------------------- MODULE SubflowsProofs ---------------------------
(***************************************************************************)
(* Proofs about Subflows, for every number of callers and tokens, for all  *)
(* ways the tokens may walk, and wherever calls die.                       *)
(*                                                                         *)
(* The inductive invariant says where each call stands: what it waits for  *)
(* and what it has found are call activities, and a token it is about to   *)
(* move still waits unless the copy is stale (CallOk); a cascade has ended *)
(* every child it listed that is not to do (Listed).  A launch that is     *)
(* about to create a child is the only one for that visit, and the visit   *)
(* has none yet, unless it is noted as raced (Single).  What a call waits  *)
(* for, creates or reports belongs to the node its token is at, unless a   *)
(* conflict made a report start over or launches overlapped, and no child  *)
(* is reported by two calls (Standing).                                    *)
(***************************************************************************)
EXTENDS Subflows, FiniteSetTheorems, WellFoundedInduction, SequenceTheorems, TLAPS

-----------------------------------------------------------------------------
(* The inductive invariant.                                                *)

Nodes == {"task", "call", "fragile"}
TokenState == {"Task", "Subflow", "Incident", "Ended"}
Kid == [token : Token, node : Nat, state : InstanceState]
Report == [child : Nat, attempt : Nat]
Call == [pc : PC, root : {"parent", "child"}, stack : Seq(Report), fresh : BOOLEAN,
         waiting : SUBSET Visit, visit : Visit \cup {NoVisit}, op : Op,
         todo : SUBSET Nat, listed : Nat]

\* The visits of call activities on the ways w.
CallVisits(w) ==
  {visit \in Visit : /\ visit[2] \in 1 .. Len(w[visit[1]])
                     /\ w[visit[1]][visit[2]] # "task"}

\* Where a token is, as its state tells.
Sits(t, n, s) ==
  /\ n \in 1 .. Len(way[t]) + 1
  /\ s # "Ended" => n <= Len(way[t])
  /\ s \in {"Subflow", "Incident"} => way[t][n] # "task"

\* What a call r holds, of ways w, children kids and token states s.
Creating == {"create", "markLoad", "mark"}
Done(kids, k) == k \in 1 .. Len(kids) /\ kids[k].state = "Completed"
CallOk(r, w, kids, s) ==
  /\ r \in Call
  /\ r.waiting \subseteq CallVisits(w)
  /\ r.visit \in CallVisits(w) \cup {NoVisit}
  /\ r.visit # NoVisit <=> r.pc \in Creating
  /\ r.pc \in {"wakeLoad", "wakeSave"} => Len(r.stack) > 0
  /\ \A i \in 1 .. Len(r.stack) : Done(kids, r.stack[i].child)
  /\ r.fresh /\ r.pc = "wakeSave" =>
       s[kids[r.stack[Len(r.stack)].child].token] = "Subflow"

\* The types, where each token sits, and what each call holds.
Typed ==
  /\ way \in Ways
  /\ parent \in InstanceState
  /\ at \in [Token -> Nat]
  /\ tok \in [Token -> TokenState]
  /\ \A t \in Token : Sits(t, at[t], tok[t])
  /\ child \in Seq(Kid) /\ Len(child) <= MaxChild
  /\ \A k \in 1 .. Len(child) : <<child[k].token, child[k].node>> \in CallVisits(way)
  /\ call \in [Caller -> Call]
  /\ \A c \in Caller : CallOk(call[c], way, child, tok)
  /\ failed \subseteq Visit
  /\ fault \in 0 .. Faults

\* The visits of children.
VisitAt(kids, k) == <<kids[k].token, kids[k].node>>
Has(kids, visit) == \E k \in 1 .. Len(kids) : VisitAt(kids, k) = visit
Distinct(kids, out) ==
  \A k, l \in 1 .. Len(kids) :
    VisitAt(kids, k) = VisitAt(kids, l) => k = l \/ VisitAt(kids, k) \in out

\* But for raced visits, no two calls are about to create a child of one, and
\* one that is about to is at a visit without.
Single ==
  /\ Distinct(child, raced)
  /\ \A c \in Caller :
       call[c].pc = "create" => ~Has(child, call[c].visit) \/ call[c].visit \in raced
  /\ \A c, d \in Caller :
       c # d /\ call[c].pc = "create" /\ call[d].pc = "create" =>
         call[d].visit # call[c].visit \/ call[c].visit \in raced

\* What a cascade has to do it has listed; what a cancellation has listed is
\* over, or still to do.
ListedBy(r, kids) ==
  r.pc = "cascade" =>
    /\ r.listed <= Len(kids) /\ r.todo \subseteq 1 .. r.listed
    /\ r.op = "cancel" => \A k \in 1 .. r.listed : k \in r.todo \/ Over(kids[k].state)
Listed == \A c \in Caller : ListedBy(call[c], child)


-----------------------------------------------------------------------------
(* Lemmas about the operators.                                             *)

\* Some position of a set of positions is the highest.
LEMMA Highest ==
  ASSUME NEW n \in Nat, NEW S \in SUBSET (1 .. n), S # {}
  PROVE  Max(S) \in S /\ \A y \in S : Max(S) >= y
<1> DEFINE Above(i) == {j \in S : j >= i}
           T == {Above(i) : i \in S}
<1>0. IsFiniteSet(1 .. n)
  BY FS_Interval
<1>1. IsFiniteSet(S)
  BY <1>0, FS_Subset
<1>2. FiniteSubsetsOf(S) = SUBSET S
  BY <1>1, FS_FiniteSubsetsOfFinite
<1>3. T \subseteq FiniteSubsetsOf(S) /\ T # {}
  <2>1. \A i \in S : Above(i) \in SUBSET S
    OBVIOUS
  <2>2. T \subseteq SUBSET S
    BY <2>1
  <2>3. T # {}
    <3> HIDE DEF Above
    <3> QED OBVIOUS
  <2> QED BY <1>2, <2>2, <2>3
<1>4. PICK x \in T : \A y \in T : <<y, x>> \notin StrictSubsetOrdering(S)
  <2> HIDE DEF T
  <2> QED BY <1>3, FS_StrictSubsetOrderingWellFounded, WFMin
<1>5. PICK i \in S : x = Above(i)
  BY <1>4
<1>6. \A j \in S : i >= j
  <2> SUFFICES ASSUME NEW j \in S, j > i PROVE FALSE
    OBVIOUS
  <2>1. Above(j) \in SUBSET S /\ Above(i) \in SUBSET S
    OBVIOUS
  <2>0. Above(j) \in T
    <3> HIDE DEF Above
    <3> QED OBVIOUS
  <2>2. Above(j) \subseteq Above(i) /\ i \in Above(i) /\ i \notin Above(j)
    <3>1. \A a \in S : a \in Nat
      OBVIOUS
    <3>2. \A a \in S : a >= j => a >= i
      BY <3>1
    <3>3. i >= i /\ ~(i >= j)
      BY <3>1
    <3> QED BY <3>2, <3>3
  <2>3. <<Above(j), Above(i)>> \in StrictSubsetOrdering(S)
    <3> HIDE DEF Above
    <3> QED BY <2>1, <2>2 DEF StrictSubsetOrdering
  <2> QED BY <1>4, <1>5, <2>0, <2>3
<1> QED BY <1>6 DEF Max

\* A free caller holds nothing.
LEMMA FreeOk ==
  ASSUME NEW w, NEW kids, NEW s
  PROVE  CallOk(Free, w, kids, s) /\ CallOk(Launching, w, kids, s)
<1>1. <<>> \in Seq(Report) /\ Len(<<>>) = 0
  BY EmptySeq
<1>2. Free \in Call /\ Launching \in Call
  BY <1>1 DEF Free, Launching, Call, PC, Op, NoVisit
<1> QED BY <1>1, <1>2 DEF CallOk, Free, Launching, Creating, NoVisit

\* A visit is not none.
LEMMA VisitIsSome == NoVisit \notin Visit
BY DEF NoVisit, Visit

\* What a call holds stays true of a copy that is stale, when children are
\* added or end otherwise than by undoing their completion, and of a current
\* copy when the tokens stay as they are too.
Grows(kids, more) ==
  /\ Len(kids) <= Len(more)
  /\ \A k \in 1 .. Len(kids) :
       /\ more[k].token = kids[k].token /\ more[k].node = kids[k].node
       /\ kids[k].state = "Completed" => more[k].state = "Completed"

LEMMA CallKept ==
  ASSUME NEW r, NEW w, NEW kids \in Seq(Kid), NEW more \in Seq(Kid), NEW s, NEW z,
         CallOk(r, w, kids, s), Grows(kids, more), ~r.fresh \/ z = s
  PROVE  CallOk(r, w, more, z)
<1>1. \A i \in 1 .. Len(r.stack) : Done(more, r.stack[i].child)
  BY DEF CallOk, Grows, Done
<1>2. r.fresh /\ r.pc = "wakeSave" => z[more[r.stack[Len(r.stack)].child].token] = "Subflow"
  <2> SUFFICES ASSUME r.fresh, r.pc = "wakeSave"
               PROVE  z[more[r.stack[Len(r.stack)].child].token] = "Subflow"
    OBVIOUS
  <2>1. Len(r.stack) > 0 /\ Len(r.stack) \in Nat
    BY LenProperties DEF CallOk, Call
  <2>2. Done(kids, r.stack[Len(r.stack)].child)
    BY <2>1 DEF CallOk
  <2> QED BY <2>2 DEF CallOk, Grows, Done
<1> QED BY <1>1, <1>2 DEF CallOk

LEMMA Stales ==
  ASSUME NEW r, NEW w, NEW kids \in Seq(Kid), NEW s, NEW z, CallOk(r, w, kids, s)
  PROVE  CallOk([r EXCEPT !.fresh = FALSE], w, kids, z)
<1> DEFINE q == [r EXCEPT !.fresh = FALSE]
<1>1. q \in Call /\ q.fresh = FALSE /\ q.pc = r.pc /\ q.stack = r.stack
      /\ q.visit = r.visit /\ q.waiting = r.waiting
  BY DEF CallOk, Call
<1> HIDE DEF q
<1>2. CallOk(q, w, kids, z)
  BY <1>1 DEF CallOk
<1> QED BY <1>2 DEF q

\* The reports below the innermost, and those up to some level.
LEMMA StackCut ==
  ASSUME NEW st \in Seq(Report), NEW m \in 0 .. Len(st)
  PROVE  /\ SubSeq(st, 1, m) \in Seq(Report) /\ Len(SubSeq(st, 1, m)) = m
         /\ \A i \in 1 .. m : SubSeq(st, 1, m)[i] = st[i]
<1>1. \A i \in 1 .. m : st[i] \in Report
  BY ElementOfSeq, LenProperties
<1>2. Len(st) \in Nat
  BY LenProperties
<1> QED BY <1>1, <1>2, SubSeqProperties

\* A report that is over goes on below with what the call holds.
LEMMA ReportedOk ==
  ASSUME NEW w, NEW kids, NEW s, NEW c \in Caller, CallOk(call[c], w, kids, s),
         Len(call[c].stack) > 0, call[c].visit = NoVisit
  PROVE  CallOk(Reported(c), w, kids, s)
<1> DEFINE st == call[c].stack
           m == Len(st) - 1
           q == [call[c] EXCEPT !.pc = "launch", !.stack = SubSeq(st, 1, m)]
<1>1. st \in Seq(Report) /\ m \in 0 .. Len(st) /\ m \in Nat
  BY LenProperties DEF CallOk, Call
<1>2. SubSeq(st, 1, m) \in Seq(Report) /\ Len(SubSeq(st, 1, m)) = m
      /\ \A i \in 1 .. m : SubSeq(st, 1, m)[i] = st[i]
  BY <1>1, StackCut
<1>3. q \in Call /\ q.pc = "launch" /\ q.stack = SubSeq(st, 1, m)
      /\ q.waiting = call[c].waiting /\ q.visit = NoVisit
  BY <1>2 DEF CallOk, Call, PC
<1>4. CallOk(q, w, kids, s)
  <2> HIDE DEF q
  <2>1. \A i \in 1 .. m : Done(kids, st[i].child)
    BY <1>1 DEF CallOk
  <2> HIDE DEF m, st
  <2>2. \A i \in 1 .. Len(q.stack) : Done(kids, q.stack[i].child)
    BY <1>2, <1>3, <2>1
  <2> QED BY <1>3, <2>2 DEF CallOk, Creating
<1> QED BY <1>4, FreeOk DEF Reported, Below

LEMMA LaunchedOk ==
  ASSUME NEW w, NEW kids, NEW s, NEW c \in Caller, CallOk(call[c], w, kids, s),
         call[c].visit = NoVisit
  PROVE  CallOk(Launched(c), w, kids, s)
<1>1. CASE call[c].stack = <<>>
  BY <1>1, FreeOk DEF Launched
<1>2. CASE call[c].stack # <<>>
  <2>1. Len(call[c].stack) > 0
    BY <1>2, EmptySeq, LenProperties DEF CallOk, Call
  <2> QED BY <1>2, <2>1, ReportedOk DEF Launched
<1> QED BY <1>1, <1>2


-----------------------------------------------------------------------------
(* How a step changes the types and what the calls hold.                   *)

\* One call goes on; parent, tokens and children stay as they are.
LEMMA OneGoes ==
  ASSUME Typed, NEW c \in Caller, NEW r,
         way' = way, parent' = parent, at' = at, tok' = tok, child' = child,
         call' = [call EXCEPT ![c] = r], CallOk(r, way, child, tok),
         failed' \subseteq Visit, fault' \in 0 .. Faults
  PROVE  Typed'
<1>1. call' \in [Caller -> Call]
  BY DEF Typed, CallOk
<1>2. \A d \in Caller : CallOk(call'[d], way, child, tok)
  BY DEF Typed
<1>3. \A t \in Token : Sits(t, at[t], tok[t])'
  BY DEF Typed, Sits
<1> QED BY <1>1, <1>2, <1>3 DEF Typed

\* The children change as well.
LEMMA KidsChange ==
  ASSUME Typed, NEW c \in Caller, NEW r,
         way' = way, parent' = parent, at' = at, tok' = tok,
         child' \in Seq(Kid), Len(child') <= MaxChild, Grows(child, child'),
         \A k \in 1 .. Len(child') : <<child'[k].token, child'[k].node>> \in CallVisits(way),
         call' = [call EXCEPT ![c] = r], CallOk(r, way, child', tok),
         failed' \subseteq Visit, fault' \in 0 .. Faults
  PROVE  Typed'
<1>1. call' \in [Caller -> Call]
  BY DEF Typed, CallOk
<1>2. \A d \in Caller : CallOk(call'[d], way, child', tok)
  <2> SUFFICES ASSUME NEW d \in Caller PROVE CallOk(call'[d], way, child', tok)
    OBVIOUS
  <2>1. CallOk(call[d], way, child', tok)
    BY CallKept DEF Typed
  <2> QED BY <2>1 DEF Typed
<1>3. \A t \in Token : Sits(t, at[t], tok[t])'
  BY DEF Typed, Sits
<1> QED BY <1>1, <1>2, <1>3 DEF Typed

\* The parent is saved: every copy is stale.
LEMMA ParentSaved ==
  ASSUME Typed, NEW c \in Caller, NEW r,
         way' = way, child' = child, parent' \in InstanceState,
         at' \in [Token -> Nat], tok' \in [Token -> TokenState],
         \A t \in Token : Sits(t, at'[t], tok'[t]),
         call' = Stale([call EXCEPT ![c] = r]), CallOk(r, way, child, tok),
         failed' \subseteq Visit, fault' \in 0 .. Faults
  PROVE  Typed'
<1> DEFINE after == [call EXCEPT ![c] = r]
<1>1. after \in [Caller -> Call] /\ \A d \in Caller : CallOk(after[d], way, child, tok)
  BY DEF Typed, CallOk
<1> HIDE DEF after
<1>2. \A d \in Caller : call'[d] = [after[d] EXCEPT !.fresh = FALSE]
  BY DEF Stale, after
<1>3. child \in Seq(Kid)
  BY DEF Typed
<1>4. \A d \in Caller : CallOk(call'[d], way, child, tok')
  <2> SUFFICES ASSUME NEW d \in Caller PROVE CallOk(call'[d], way, child, tok')
    OBVIOUS
  <2>1. CallOk(after[d], way, child, tok)
    BY <1>1
  <2>2. CallOk([after[d] EXCEPT !.fresh = FALSE], way, child, tok')
    BY <1>3, <2>1, Stales
  <2> QED BY <1>2, <2>2
<1>5. call' \in [Caller -> Call]
  BY <1>4 DEF CallOk, Stale
<1>6. \A t \in Token : Sits(t, at[t], tok[t])'
  BY DEF Sits
<1> QED BY <1>4, <1>5, <1>6 DEF Typed

\* Where a token goes it sits.
LEMMA ParkedSits ==
  ASSUME Typed, NEW t \in Token, NEW n \in 1 .. Len(way[t]) + 1
  PROVE  Parked(t, n) \in {"Ended", "Task", "Subflow"} /\ Sits(t, n, Parked(t, n))
<1>1. Len(way[t]) \in Nat
  BY SubflowAssumption, LenProperties DEF Typed
<1> QED BY <1>1 DEF Parked, Sits

LEMMA MovesOn ==
  ASSUME Typed, NEW t \in Token, tok[t] # "Ended", MoveOn(t)
  PROVE  /\ parent' \in InstanceState
         /\ at' \in [Token -> Nat] /\ tok' \in [Token -> TokenState]
         /\ way' = way => \A u \in Token : Sits(u, at'[u], tok'[u])
<1>1. at[t] + 1 \in 1 .. Len(way[t]) + 1
  BY SubflowAssumption, LenProperties DEF Typed, Sits
<1>2. Parked(t, at[t] + 1) \in TokenState /\ Sits(t, at[t] + 1, Parked(t, at[t] + 1))
  BY <1>1, ParkedSits DEF TokenState
<1>3. at' \in [Token -> Nat] /\ tok' \in [Token -> TokenState]
  BY <1>1, <1>2 DEF MoveOn, Typed
<1>4. \A u \in Token : Sits(u, at'[u], tok'[u])
  BY <1>2 DEF MoveOn, Typed
<1> QED BY <1>3, <1>4 DEF MoveOn, Typed, InstanceState

\* What waits is at call activities.
LEMMA WaitingVisits == Typed => Waiting \subseteq CallVisits(way) /\ Waiting \subseteq Visit
<1> SUFFICES ASSUME Typed, NEW t \in Token, tok[t] = "Subflow"
             PROVE  <<t, at[t]>> \in CallVisits(way)
  BY DEF Waiting, CallVisits
<1>1. at[t] \in 1 .. Len(way[t]) /\ way[t][at[t]] # "task" /\ at[t] \in Nat
  <2>1. Len(way[t]) \in Nat
    BY SubflowAssumption, LenProperties DEF Typed
  <2> QED BY <2>1 DEF Typed, Sits
<1> QED BY <1>1 DEF CallVisits, Visit


-----------------------------------------------------------------------------
(* Each action keeps the types.                                            *)

LEMMA TypedInit == Init => Typed
<1> SUFFICES ASSUME Init PROVE Typed
  OBVIOUS
<1>1. way \in [Token -> Seq(Nodes)]
  BY SubflowAssumption DEF Init, Nodes
<1>2. \A t \in Token : Len(way[t]) \in Nat
  BY <1>1, LenProperties
<1>3. \A t \in Token : /\ at[t] = 1 /\ tok[t] = Parked(t, 1)
                       /\ tok[t] \in TokenState /\ Sits(t, at[t], tok[t])
  BY <1>2 DEF Init, Parked, Sits, TokenState
<1>4. child \in Seq(Kid) /\ Len(child) = 0
  BY EmptySeq DEF Init
<1>5. \A c \in Caller : call[c] \in {Free, Launching}
  BY DEF Init
<1>6. \A c \in Caller : CallOk(call[c], way, child, tok)
  BY <1>5, FreeOk
<1>7. call \in [Caller -> Call]
  BY <1>6 DEF Init, CallOk
<1>8. at \in [Token -> Nat] /\ tok \in [Token -> TokenState]
  BY <1>3 DEF Init
<1> QED BY <1>3, <1>4, <1>6, <1>7, <1>8, SubflowAssumption DEF Typed, Init, InstanceState

\* What Typed says of one call.
LEMMA CallTyped ==
  ASSUME Typed, NEW c \in Caller
  PROVE  /\ call[c] \in Call /\ CallOk(call[c], way, child, tok)
         /\ call[c].pc \notin Creating => call[c].visit = NoVisit
         /\ call[c].stack \in Seq(Report) /\ Len(call[c].stack) \in Nat
         /\ failed \subseteq Visit /\ fault \in 0 .. Faults
         /\ child \in Seq(Kid) /\ Len(child) \in Nat
BY LenProperties DEF Typed, CallOk, Call

LEMMA CompleteTaskTyped ==
  ASSUME Typed, NEW c \in Caller, CompleteTask(c) PROVE Typed'
<1>1. PICK t \in Token : tok[t] = "Task" /\ MoveOn(t)
  BY DEF CompleteTask
<1>2. /\ parent' \in InstanceState /\ at' \in [Token -> Nat] /\ tok' \in [Token -> TokenState]
      /\ \A u \in Token : Sits(u, at'[u], tok'[u])
  BY <1>1, MovesOn DEF CompleteTask
<1>3. CallOk(Launching, way, child, tok)
  BY FreeOk
<1> QED BY <1>2, <1>3, ParentSaved, CallTyped DEF CompleteTask

LEMMA RetryIncidentTyped ==
  ASSUME Typed, NEW c \in Caller, RetryIncident(c) PROVE Typed'
<1>1. \A t \in Token : at[t] \in 1 .. Len(way[t]) + 1 /\ at[t] \in Nat
  BY DEF Typed, Sits
<1>2. \A t \in Token : tok'[t] \in TokenState /\ Sits(t, at[t], tok'[t])
  BY <1>1, ParkedSits DEF RetryIncident, Typed, TokenState
<1>3. tok' \in [Token -> TokenState] /\ at' = at /\ at \in [Token -> Nat] /\ parent' \in InstanceState
  BY <1>2 DEF RetryIncident, Typed
<1>4. CallOk(Launching, way, child, tok)
  BY FreeOk
<1> QED BY <1>2, <1>3, <1>4, ParentSaved, CallTyped DEF RetryIncident

\* A child goes to another state, a completed one to none.
LEMMA Restated ==
  ASSUME Typed, NEW k \in 1 .. Len(child), NEW s \in InstanceState,
         child[k].state = "Completed" => s = "Completed",
         child' = [child EXCEPT ![k].state = s]
  PROVE  /\ child' \in Seq(Kid) /\ Len(child') = Len(child) /\ Grows(child, child')
         /\ \A i \in 1 .. Len(child') :
              <<child'[i].token, child'[i].node>> \in CallVisits(way)
         /\ child'[k].state = s
<1> DEFINE q == [child[k] EXCEPT !.state = s]
<1>1. child \in Seq(Kid) /\ Len(child) \in Nat /\ child[k] \in Kid
  BY ElementOfSeq, LenProperties DEF Typed
<1>2. q \in Kid /\ q.token = child[k].token /\ q.node = child[k].node /\ q.state = s
  BY <1>1 DEF Kid
<1>3. child' = [child EXCEPT ![k] = q]
  OBVIOUS
<1> HIDE DEF q
<1>4. child' \in Seq(Kid) /\ Len(child') = Len(child) /\ child'[k] = q
      /\ \A i \in 1 .. Len(child) : i # k => child'[i] = child[i]
  BY <1>1, <1>2, <1>3, ExceptSeq
<1>5. Grows(child, child')
  BY <1>1, <1>2, <1>4 DEF Grows
<1>6. \A i \in 1 .. Len(child') : <<child'[i].token, child'[i].node>> \in CallVisits(way)
  BY <1>4, <1>5 DEF Grows, Typed
<1> QED BY <1>2, <1>4, <1>5, <1>6

LEMMA CompleteChildTyped ==
  ASSUME Typed, NEW c \in Caller, CompleteChild(c) PROVE Typed'
<1>0. DOMAIN child = 1 .. Len(child)
  BY LenProperties DEF Typed
<1>1. PICK k \in 1 .. Len(child) :
        /\ child[k].state = "Active"
        /\ child' = [child EXCEPT ![k].state = "Completed"]
        /\ call' = [call EXCEPT ![c] = [Free EXCEPT !.pc = "wakeLoad", !.root = "child",
                               !.stack = <<[child |-> k, attempt |-> 1]>>]]
  BY <1>0 DEF CompleteChild, Goes
<1> DEFINE st == <<[child |-> k, attempt |-> 1]>>
           r == [Free EXCEPT !.pc = "wakeLoad", !.root = "child", !.stack = st]
<1>2. /\ child' \in Seq(Kid) /\ Len(child') = Len(child) /\ Grows(child, child')
      /\ \A i \in 1 .. Len(child') :
              <<child'[i].token, child'[i].node>> \in CallVisits(way)
      /\ child'[k].state = "Completed"
  BY <1>1, Restated DEF InstanceState
<1>3. st \in Seq(Report) /\ Len(st) = 1 /\ st[1].child = k
  BY DEF Report
<1>4. r \in Call /\ r.pc = "wakeLoad" /\ r.stack = st /\ ~r.fresh /\ r.waiting = {}
      /\ r.visit = NoVisit
  <2> HIDE DEF st
  <2> QED BY <1>3 DEF Free, Call, PC, Op
<1>5. CallOk(r, way, child', tok)
  <2>1. Done(child', k)
    BY <1>2 DEF Done
  <2> HIDE DEF r, st
  <2>2. \A i \in 1 .. Len(r.stack) : Done(child', r.stack[i].child)
    <3>1. \A i \in 1 .. 1 : i = 1
      OBVIOUS
    <3> QED BY <1>3, <1>4, <2>1, <3>1
  <2>3. r.waiting \subseteq CallVisits(way)
    BY <1>4
  <2>4. r.visit \in CallVisits(way) \cup {NoVisit} /\ (r.visit # NoVisit <=> r.pc \in Creating)
    BY <1>4 DEF Creating
  <2>5. r.pc # "wakeSave"
    BY <1>4
  <2>6. Len(r.stack) > 0
    <3>1. Len(r.stack) = Len(st)
      BY <1>4
    <3>2. Len(st) > 0
      BY <1>3
    <3> QED BY <3>1, <3>2
  <2>7. r \in Call
    BY <1>4
  <2> QED BY <2>2, <2>3, <2>4, <2>5, <2>6, <2>7 DEF CallOk
<1>6. call' = [call EXCEPT ![c] = r]
  BY <1>1
<1>7. /\ way' = way /\ parent' = parent /\ at' = at /\ tok' = tok
      /\ failed' = failed /\ fault' = fault
  BY DEF CompleteChild, aggregate
<1> HIDE DEF r, st
<1>8. Len(child') <= MaxChild
  BY <1>2 DEF Typed
<1> QED BY <1>2, <1>5, <1>6, <1>7, <1>8, KidsChange, CallTyped


\* The launch.
LEMMA LaunchLoadTyped ==
  ASSUME Typed, NEW c \in Caller, LaunchLoad(c) PROVE Typed'
<1> DEFINE q == [call[c] EXCEPT !.pc = "find", !.waiting = Waiting]
           r == IF Waiting = {} THEN Launched(c) ELSE q
<1>0. call[c].pc = "launch" /\ call[c].visit = NoVisit
  BY CallTyped DEF LaunchLoad, At, Creating
<1>1. CallOk(Launched(c), way, child, tok)
  BY <1>0, CallTyped, LaunchedOk
<1>2. Waiting \subseteq CallVisits(way) /\ Waiting \subseteq Visit
  BY WaitingVisits
<1>3. q \in Call /\ q.pc = "find" /\ q.waiting = Waiting /\ q.visit = call[c].visit
      /\ q.stack = call[c].stack
  BY <1>2, CallTyped DEF Call, PC
<1>4. CallOk(q, way, child, tok)
  <2> HIDE DEF q
  <2> QED BY <1>0, <1>2, <1>3, CallTyped DEF CallOk, Creating
<1>5. CallOk(r, way, child, tok)
  <2> HIDE DEF q
  <2> QED BY <1>1, <1>4
<1>6. call' = [call EXCEPT ![c] = r]
  BY DEF LaunchLoad, Goes
<1> HIDE DEF r, q
<1> QED BY <1>5, <1>6, OneGoes, CallTyped DEF LaunchLoad, aggregate

LEMMA LaunchFindTyped ==
  ASSUME Typed, NEW c \in Caller, LaunchFind(c) PROVE Typed'
<1>0. call[c].pc = "find" /\ call[c].visit = NoVisit
  BY CallTyped DEF LaunchFind, At, Creating
<1>3. fault' \in 0 .. Faults
  <2>1. fault \in 0 .. Faults /\ Faults \in Nat
    BY SubflowAssumption DEF Typed
  <2>2. fault' = fault \/ \E visit : Overlap(visit)
    BY DEF LaunchFind
  <2>3. ASSUME NEW visit, Overlap(visit) PROVE fault' \in 0 .. Faults
    BY <2>1, <2>3 DEF Overlap
  <2> QED BY <2>1, <2>2, <2>3
<1>1. CASE call' = [call EXCEPT ![c] = Launched(c)]
  <2>1. CallOk(Launched(c), way, child, tok)
    BY <1>0, CallTyped, LaunchedOk
  <2> QED BY <1>1, <1>3, <2>1, OneGoes, CallTyped DEF LaunchFind, aggregate
<1>2. ASSUME NEW visit \in call[c].waiting,
             call' = [call EXCEPT ![c] =
                        [call[c] EXCEPT !.pc = "create", !.visit = visit, !.waiting = {}]]
      PROVE  Typed'
  <2> DEFINE q == [call[c] EXCEPT !.pc = "create", !.visit = visit, !.waiting = {}]
  <2>1. visit \in CallVisits(way) /\ visit \in Visit
    BY CallTyped DEF CallOk, CallVisits
  <2>2. q \in Call /\ q.pc = "create" /\ q.waiting = {} /\ q.visit = visit
        /\ q.stack = call[c].stack
    BY <2>1, CallTyped DEF Call, PC
  <2>3. call' = [call EXCEPT ![c] = q]
    BY <1>2
  <2> HIDE DEF q
  <2>4. CallOk(q, way, child, tok)
    BY <2>1, <2>2, CallTyped, VisitIsSome DEF CallOk, Creating
  <2> QED BY <1>3, <2>3, <2>4, OneGoes, CallTyped DEF LaunchFind, aggregate
<1> QED BY <1>1, <1>2 DEF LaunchFind, Goes

\* A new child: its visit was found at a call activity.
LEMMA Appended ==
  ASSUME Typed, NEW visit \in CallVisits(way), NEW s \in InstanceState,
         Len(child) < MaxChild,
         child' = Append(child, [token |-> visit[1], node |-> visit[2], state |-> s])
  PROVE  /\ child' \in Seq(Kid) /\ Len(child') = Len(child) + 1 /\ Grows(child, child')
         /\ Len(child') <= MaxChild
         /\ \A i \in 1 .. Len(child') :
              <<child'[i].token, child'[i].node>> \in CallVisits(way)
         /\ \A i \in 1 .. Len(child) : child'[i] = child[i]
         /\ child'[Len(child) + 1].state = s
         /\ <<child'[Len(child) + 1].token, child'[Len(child) + 1].node>> = visit
<1> DEFINE q == [token |-> visit[1], node |-> visit[2], state |-> s]
<1>1. visit \in Visit /\ visit = <<visit[1], visit[2]>>
  BY DEF CallVisits, Visit
<1>2. q \in Kid /\ q.state = s /\ <<q.token, q.node>> = visit
  BY <1>1 DEF Kid, Visit
<1>3. child \in Seq(Kid) /\ Len(child) \in Nat /\ MaxChild \in Nat
  BY LenProperties, SubflowAssumption DEF Typed
<1>4. child' = Append(child, q)
  OBVIOUS
<1> HIDE DEF q
<1>5. /\ child' \in Seq(Kid) /\ Len(child') = Len(child) + 1
      /\ \A i \in 1 .. Len(child) : child'[i] = child[i]
      /\ child'[Len(child) + 1] = q
  BY <1>2, <1>3, <1>4, AppendProperties
<1>6. Grows(child, child') /\ Len(child') <= MaxChild
  BY <1>3, <1>5 DEF Grows
<1>7. \A i \in 1 .. Len(child') : <<child'[i].token, child'[i].node>> \in CallVisits(way)
  <2> SUFFICES ASSUME NEW i \in 1 .. Len(child')
               PROVE  <<child'[i].token, child'[i].node>> \in CallVisits(way)
    OBVIOUS
  <2>1. CASE i \in 1 .. Len(child)
    BY <2>1, <1>5 DEF Typed
  <2>2. CASE i = Len(child) + 1
    BY <2>2, <1>2, <1>5
  <2>3. i \in 1 .. Len(child) \/ i = Len(child) + 1
    BY <1>3, <1>5
  <2> QED BY <2>1, <2>2, <2>3
<1> QED BY <1>2, <1>5, <1>6, <1>7

LEMMA LaunchCreateTyped ==
  ASSUME Typed, NEW c \in Caller, LaunchCreate(c) PROVE Typed'
<1> DEFINE visit == call[c].visit
           st == call[c].stack
<1>1. call[c].pc = "create" /\ visit \in CallVisits(way)
  BY CallTyped DEF LaunchCreate, At, CallOk, Creating
<1>2. PICK s \in {"Active", "Completed"} :
        /\ child' = Append(child, [token |-> visit[1], node |-> visit[2], state |-> s])
        /\ call' = [call EXCEPT ![c] =
             IF Finished(s)
             THEN [call[c] EXCEPT !.pc = "wakeLoad", !.visit = NoVisit,
                     !.stack = Append(@, [child |-> Len(child) + 1, attempt |-> 1])]
             ELSE [call[c] EXCEPT !.pc = "launch", !.visit = NoVisit]]
  BY DEF LaunchCreate, Goes
<1>3. /\ child' \in Seq(Kid) /\ Len(child') = Len(child) + 1 /\ Grows(child, child')
      /\ Len(child') <= MaxChild
      /\ \A i \in 1 .. Len(child') :
           <<child'[i].token, child'[i].node>> \in CallVisits(way)
      /\ child'[Len(child) + 1].state = s
  <2>1. s \in InstanceState /\ Len(child) < MaxChild
    BY DEF InstanceState, LaunchCreate
  <2>2. child' = Append(child, [token |-> visit[1], node |-> visit[2], state |-> s])
    BY <1>2
  <2> HIDE DEF visit
  <2> QED BY <1>1, <2>1, <2>2, Appended
<1>4. \A i \in 1 .. Len(st) : Done(child', st[i].child)
  <2> SUFFICES ASSUME NEW i \in 1 .. Len(st) PROVE Done(child', st[i].child)
    OBVIOUS
  <2>1. Done(child, st[i].child)
    BY CallTyped DEF CallOk
  <2> QED BY <1>3, <2>1, CallTyped DEF Done, Grows
<1>5. /\ way' = way /\ parent' = parent /\ at' = at /\ tok' = tok
      /\ failed' = failed /\ fault' = fault
  BY DEF LaunchCreate, aggregate
<1>6. CASE Finished(s)
  <2> DEFINE rep == [child |-> Len(child) + 1, attempt |-> 1]
             q == [call[c] EXCEPT !.pc = "wakeLoad", !.visit = NoVisit,
                                  !.stack = Append(st, rep)]
  <2>1. rep \in Report /\ rep.child = Len(child) + 1
    BY CallTyped DEF Report
  <2>2. Done(child', Len(child) + 1)
    BY <1>3, <1>6, CallTyped DEF Done, Finished
  <2>3. call' = [call EXCEPT ![c] = q]
    BY <1>2, <1>6
  <2> HIDE DEF rep
  <2>4. /\ Append(st, rep) \in Seq(Report) /\ Len(Append(st, rep)) = Len(st) + 1
        /\ \A i \in 1 .. Len(st) : Append(st, rep)[i] = st[i]
        /\ Append(st, rep)[Len(st) + 1] = rep
    BY <2>1, CallTyped, AppendProperties
  <2>5. /\ q \in Call /\ q.pc = "wakeLoad" /\ q.visit = NoVisit
        /\ q.waiting = call[c].waiting /\ q.stack = Append(st, rep)
    BY <2>4, CallTyped DEF Call, PC
  <2> HIDE DEF q
  <2>6. \A i \in 1 .. Len(q.stack) : Done(child', q.stack[i].child)
    <3> SUFFICES ASSUME NEW i \in 1 .. Len(q.stack) PROVE Done(child', q.stack[i].child)
      OBVIOUS
    <3>1. CASE i \in 1 .. Len(st)
      BY <3>1, <1>4, <2>4, <2>5
    <3>2. CASE i = Len(st) + 1
      BY <3>2, <2>1, <2>2, <2>4, <2>5
    <3> QED BY <3>1, <3>2, <2>4, <2>5, CallTyped
  <2>7. Len(q.stack) > 0
    BY <2>4, <2>5, CallTyped
  <2>8. CallOk(q, way, child', tok)
    BY <2>5, <2>6, <2>7, CallTyped DEF CallOk, Creating
  <2> QED BY <1>3, <1>5, <2>3, <2>8, KidsChange, CallTyped
<1>7. CASE ~Finished(s)
  <2> DEFINE q == [call[c] EXCEPT !.pc = "launch", !.visit = NoVisit]
  <2>1. /\ q \in Call /\ q.pc = "launch" /\ q.visit = NoVisit
        /\ q.waiting = call[c].waiting /\ q.stack = st
    BY CallTyped DEF Call, PC
  <2>2. call' = [call EXCEPT ![c] = q]
    BY <1>2, <1>7
  <2> HIDE DEF q
  <2>3. CallOk(q, way, child', tok)
    BY <2>1, <1>4, CallTyped DEF CallOk, Creating
  <2> QED BY <1>3, <1>5, <2>2, <2>3, KidsChange, CallTyped
<1> QED BY <1>6, <1>7

LEMMA LaunchRefusedTyped ==
  ASSUME Typed, NEW c \in Caller, LaunchRefused(c) PROVE Typed'
<1> DEFINE q == [call[c] EXCEPT !.pc = "markLoad"]
<1>1. /\ q \in Call /\ q.pc = "markLoad" /\ q.visit = call[c].visit
      /\ q.waiting = call[c].waiting /\ q.stack = call[c].stack
  BY CallTyped DEF Call, PC
<1>2. call' = [call EXCEPT ![c] = q]
  BY DEF LaunchRefused, Goes
<1> HIDE DEF q
<1>3. CallOk(q, way, child, tok)
  BY <1>1, CallTyped DEF CallOk, Creating, LaunchRefused, At
<1> QED BY <1>2, <1>3, OneGoes, CallTyped DEF LaunchRefused, aggregate

LEMMA MarkLoadTyped ==
  ASSUME Typed, NEW c \in Caller, MarkLoad(c) PROVE Typed'
<1> DEFINE q == [call[c] EXCEPT !.pc = "mark", !.fresh = TRUE]
<1>1. /\ q \in Call /\ q.pc = "mark" /\ q.visit = call[c].visit
      /\ q.waiting = call[c].waiting /\ q.stack = call[c].stack
  BY CallTyped DEF Call, PC
<1>2. call' = [call EXCEPT ![c] = q]
  BY DEF MarkLoad, Goes
<1> HIDE DEF q
<1>3. CallOk(q, way, child, tok)
  BY <1>1, CallTyped DEF CallOk, Creating, MarkLoad, At
<1> QED BY <1>2, <1>3, OneGoes, CallTyped DEF MarkLoad, aggregate


\* The report at level up of the stack of c starts over; it may have moved
\* its token.
StartsOver(c, up) ==
  \E q \in Call :
    /\ call' = [call EXCEPT ![c] = q]
    /\ q.pc = "wakeLoad" /\ q.visit = NoVisit
    /\ q.fresh = call[c].fresh /\ q.waiting = call[c].waiting
    /\ Len(q.stack) = up /\ \A i \in 1 .. up : q.stack[i].child = call[c].stack[i].child
    /\ replayed' = IF up < Len(call[c].stack) \/ call[c].pc = "mark"
                   THEN replayed \cup {child[call[c].stack[up].child].token} ELSE replayed

LEMMA Restarts ==
  ASSUME Typed, NEW c \in Caller, Conflict(c)
  PROVE  \E up \in 0 .. Len(call[c].stack) :
           /\ failed' = failed
                \cup {VisitOf(call[c].stack[i].child) : i \in up + 1 .. Len(call[c].stack)}
                \cup (IF up = 0 THEN {visit \in Waiting : ~Already(visit)} ELSE {})
           /\ up = 0 => call' = [call EXCEPT ![c] = Free] /\ replayed' = replayed
           /\ up # 0 => StartsOver(c, up)
<1> DEFINE st == call[c].stack
           live == {i \in DOMAIN st : st[i].attempt < Attempts}
           up == IF live = {} THEN 0 ELSE Max(live)
           rep == [st[up] EXCEPT !.attempt = @ + 1]
           cut == [SubSeq(st, 1, up) EXCEPT ![up] = rep]
           q == [call[c] EXCEPT !.pc = "wakeLoad", !.visit = NoVisit, !.stack = cut]
           moved == up # 0 /\ (up < Len(st) \/ call[c].pc = "mark")
<1>1. st \in Seq(Report) /\ Len(st) \in Nat /\ DOMAIN st = 1 .. Len(st)
  BY CallTyped, LenProperties
<1>2. up \in 0 .. Len(st)
  <2>1. CASE live = {}
    BY <1>1, <2>1
  <2>2. CASE live # {}
    <3>1. Max(live) \in live
      <4>1. live \in SUBSET (1 .. Len(st))
        BY <1>1
      <4> HIDE DEF live, st
      <4> QED BY <1>1, <2>2, <4>1, Highest
    <3> QED BY <2>2, <3>1, <1>1
  <2> QED BY <2>1, <2>2
<1>3. /\ call' = [call EXCEPT ![c] = IF up = 0 THEN Free ELSE q]
      /\ failed' = failed \cup {VisitOf(st[i].child) : i \in up + 1 .. Len(st)}
           \cup (IF up = 0 THEN {visit \in Waiting : ~Already(visit)} ELSE {})
      /\ replayed' = IF moved THEN replayed \cup {child[st[up].child].token} ELSE replayed
  <2>1. call' = [call EXCEPT ![c] = IF up = 0 THEN Free ELSE q]
    BY DEF Conflict
  <2>2. failed' = failed \cup {VisitOf(st[i].child) : i \in up + 1 .. Len(st)}
           \cup (IF up = 0 THEN {visit \in Waiting : ~Already(visit)} ELSE {})
    BY DEF Conflict
  <2>3. replayed' = IF moved THEN replayed \cup {child[st[up].child].token} ELSE replayed
    BY DEF Conflict
  <2> QED BY <2>1, <2>2, <2>3
<1> HIDE DEF up, live
<1>4. up # 0 => StartsOver(c, up)
  <2> SUFFICES ASSUME up # 0 PROVE StartsOver(c, up)
    OBVIOUS
  <2>1. up \in 1 .. Len(st) /\ st[up] \in Report
    BY <1>1, <1>2, ElementOfSeq
  <2>2. /\ SubSeq(st, 1, up) \in Seq(Report) /\ Len(SubSeq(st, 1, up)) = up
        /\ \A i \in 1 .. up : SubSeq(st, 1, up)[i] = st[i]
    <3> HIDE DEF st
    <3> QED BY <1>1, <1>2, StackCut
  <2> DEFINE below == SubSeq(st, 1, up)
  <2>3. rep \in Report /\ rep.child = st[up].child
    <3> HIDE DEF st
    <3> QED BY <2>1 DEF Report
  <2>4. cut = [below EXCEPT ![up] = rep]
    OBVIOUS
  <2>5. /\ cut \in Seq(Report) /\ Len(cut) = up /\ cut[up] = rep
        /\ \A i \in 1 .. up : i # up => cut[i] = st[i]
    <3> HIDE DEF rep, below, cut, st
    <3>1. below \in Seq(Report) /\ Len(below) = up /\ up \in 1 .. Len(below)
      BY <1>2, <2>1, <2>2 DEF below
    <3>2. /\ [below EXCEPT ![up] = rep] \in Seq(Report)
          /\ Len([below EXCEPT ![up] = rep]) = Len(below)
          /\ \A i \in 1 .. Len(below) :
               [below EXCEPT ![up] = rep][i] = IF i = up THEN rep ELSE below[i]
      BY <2>3, <3>1, ExceptSeq
    <3>3. \A i \in 1 .. up : below[i] = st[i]
      BY <2>2 DEF below
    <3> QED BY <2>4, <3>1, <3>2, <3>3
  <2> HIDE DEF cut, rep, below
  <2>6. /\ q \in Call /\ q.pc = "wakeLoad" /\ q.visit = NoVisit /\ q.fresh = call[c].fresh
        /\ q.waiting = call[c].waiting /\ q.stack = cut
    BY <2>5, CallTyped DEF Call, PC
  <2> HIDE DEF q
  <2>7. Len(q.stack) = up /\ \A i \in 1 .. up : q.stack[i].child = st[i].child
    BY <2>3, <2>5, <2>6
  <2>8. call' = [call EXCEPT ![c] = q]
    BY <1>3
  <2>9. replayed' = IF up < Len(st) \/ call[c].pc = "mark"
                    THEN replayed \cup {child[st[up].child].token} ELSE replayed
    BY <1>3
  <2> QED BY <2>6, <2>7, <2>8, <2>9 DEF StartsOver
<1> HIDE DEF q
<1> QED BY <1>2, <1>3, <1>4

\* A conflict leaves the call at a report that starts over, or over.
LEMMA ConflictOk ==
  ASSUME Typed, NEW c \in Caller, ~call[c].fresh, Conflict(c)
  PROVE  /\ \E r : call' = [call EXCEPT ![c] = r] /\ CallOk(r, way, child, tok)
         /\ failed' \subseteq Visit
<1> DEFINE st == call[c].stack
<1>1. PICK up \in 0 .. Len(st) :
        /\ failed' = failed \cup {VisitOf(st[i].child) : i \in up + 1 .. Len(st)}
             \cup (IF up = 0 THEN {visit \in Waiting : ~Already(visit)} ELSE {})
        /\ up = 0 => call' = [call EXCEPT ![c] = Free] /\ replayed' = replayed
        /\ up # 0 => StartsOver(c, up)
  BY Restarts
<1>2. st \in Seq(Report) /\ Len(st) \in Nat
  BY CallTyped
<1>3. \A i \in 1 .. Len(st) : Done(child, st[i].child)
  BY CallTyped DEF CallOk
<1>4. \A i \in 1 .. Len(st) : VisitOf(st[i].child) \in Visit
  <2>1. \A k \in 1 .. Len(child) : child[k] \in Kid
    BY CallTyped, ElementOfSeq
  <2> QED BY <1>3, <2>1 DEF VisitOf, Visit, Kid, Done
<1>5. failed' \subseteq Visit
  <2>1. {VisitOf(st[i].child) : i \in up + 1 .. Len(st)} \subseteq Visit
    <3>1. \A i \in up + 1 .. Len(st) : i \in 1 .. Len(st)
      BY <1>1, <1>2
    <3> HIDE DEF st
    <3> QED BY <1>4, <3>1
  <2> QED BY <1>1, <2>1, WaitingVisits, CallTyped
<1>6. CASE up = 0
  BY <1>1, <1>5, <1>6, FreeOk
<1>7. CASE up # 0
  <2>1. PICK q \in Call :
          /\ call' = [call EXCEPT ![c] = q]
          /\ q.pc = "wakeLoad" /\ q.visit = NoVisit
          /\ q.fresh = call[c].fresh /\ q.waiting = call[c].waiting
          /\ Len(q.stack) = up /\ \A i \in 1 .. up : q.stack[i].child = st[i].child
    BY <1>1, <1>7 DEF StartsOver
  <2>2. \A i \in 1 .. Len(q.stack) : Done(child, q.stack[i].child)
    <3> SUFFICES ASSUME NEW i \in 1 .. up PROVE Done(child, q.stack[i].child)
      BY <2>1
    <3>1. i \in 1 .. Len(st)
      BY <1>1, <1>2
    <3> QED BY <1>3, <2>1, <3>1
  <2>3. Len(q.stack) > 0
    BY <1>1, <1>2, <1>7, <2>1
  <2>4. CallOk(q, way, child, tok)
    BY <2>1, <2>2, <2>3, CallTyped DEF CallOk, Creating
  <2> QED BY <1>5, <2>1, <2>4
<1> QED BY <1>6, <1>7

LEMMA MarkSaveTyped ==
  ASSUME Typed, NEW c \in Caller, MarkSave(c) PROVE Typed'
<1>0. call[c].pc = "mark" /\ call[c].visit \in CallVisits(way)
  BY CallTyped DEF MarkSave, At, CallOk, Creating
<1>1. CASE call[c].fresh
  <2> DEFINE q == [call[c] EXCEPT !.pc = "launch", !.visit = NoVisit]
  <2>1. /\ q \in Call /\ q.pc = "launch" /\ q.visit = NoVisit
        /\ q.waiting = call[c].waiting /\ q.stack = call[c].stack
    BY CallTyped DEF Call, PC
  <2>2. call' = Stale([call EXCEPT ![c] = q])
    BY <1>1 DEF MarkSave
  <2> HIDE DEF q
  <2>3. CallOk(q, way, child, tok)
    BY <2>1, CallTyped DEF CallOk, Creating
  <2>4. \A t \in Token : \/ tok'[t] = tok[t]
                         \/ tok[t] = "Subflow" /\ tok'[t] = "Incident"
    BY <1>1 DEF MarkSave, Waiting
  <2>5. \A t \in Token : tok'[t] \in TokenState /\ Sits(t, at[t], tok'[t])
    BY <2>4 DEF Sits, Typed, TokenState
  <2>6. /\ tok' \in [Token -> TokenState] /\ at' = at /\ at \in [Token -> Nat]
        /\ parent' \in InstanceState
        /\ failed' = failed /\ fault' = fault /\ child' = child /\ way' = way
    BY <1>1, <2>5 DEF MarkSave, Typed
  <2> QED BY <2>2, <2>3, <2>5, <2>6, ParentSaved, CallTyped
<1>2. CASE ~call[c].fresh
  <2>1. PICK r : call' = [call EXCEPT ![c] = r] /\ CallOk(r, way, child, tok)
    BY <1>2, ConflictOk DEF MarkSave
  <2>2. failed' \subseteq Visit
    BY <1>2, ConflictOk DEF MarkSave
  <2> QED BY <1>2, <2>1, <2>2, OneGoes, CallTyped DEF MarkSave
<1> QED BY <1>1, <1>2

LEMMA WakeLoadTyped ==
  ASSUME Typed, NEW c \in Caller, WakeLoad(c) PROVE Typed'
<1> DEFINE st == call[c].stack
           q == [call[c] EXCEPT !.pc = "wakeSave", !.fresh = TRUE]
<1>0. call[c].pc = "wakeLoad" /\ call[c].visit = NoVisit /\ Len(st) > 0
  BY CallTyped DEF WakeLoad, At, Creating, CallOk
<1>1. CASE tok[child[Top(c).child].token] = "Subflow"
  <2>1. /\ q \in Call /\ q.pc = "wakeSave" /\ q.visit = NoVisit
        /\ q.waiting = call[c].waiting /\ q.stack = st
    BY <1>0, CallTyped DEF Call, PC
  <2>2. call' = [call EXCEPT ![c] = q]
    BY <1>1 DEF WakeLoad, Goes
  <2> HIDE DEF q
  <2>3. CallOk(q, way, child, tok)
    BY <1>0, <1>1, <2>1, CallTyped DEF CallOk, Creating, Top
  <2> QED BY <2>2, <2>3, OneGoes, CallTyped DEF WakeLoad, aggregate
<1>2. CASE tok[child[Top(c).child].token] # "Subflow"
  <2>1. CallOk(Reported(c), way, child, tok)
    BY <1>0, CallTyped, ReportedOk
  <2>2. call' = [call EXCEPT ![c] = Reported(c)]
    BY <1>2 DEF WakeLoad, Goes
  <2> QED BY <2>1, <2>2, OneGoes, CallTyped DEF WakeLoad, aggregate
<1> QED BY <1>1, <1>2

LEMMA WakeSaveTyped ==
  ASSUME Typed, NEW c \in Caller, WakeSave(c) PROVE Typed'
<1> DEFINE t == child[Top(c).child].token
<1>0. call[c].pc = "wakeSave" /\ call[c].visit = NoVisit /\ Len(call[c].stack) > 0
  BY CallTyped DEF WakeSave, At, Creating, CallOk
<1>1. CASE call[c].fresh
  <2> DEFINE q == [call[c] EXCEPT !.pc = "launch"]
             r == IF parent' = "Completed" THEN Reported(c) ELSE q
  <2>1. t \in Token /\ tok[t] = "Subflow"
    <3>1. Done(child, Top(c).child)
      BY <1>0, CallTyped DEF CallOk, Top
    <3>2. child[Top(c).child] \in Kid
      BY <3>1, CallTyped, ElementOfSeq DEF Done
    <3>3. tok[t] = "Subflow"
      BY <1>0, <1>1, CallTyped DEF CallOk, Top
    <3> QED BY <3>2, <3>3 DEF Kid
  <2>2. MoveOn(t)
    BY <1>1 DEF WakeSave
  <2> HIDE DEF t
  <2>3. /\ parent' \in InstanceState /\ at' \in [Token -> Nat] /\ tok' \in [Token -> TokenState]
        /\ \A u \in Token : Sits(u, at'[u], tok'[u])
    BY <2>1, <2>2, MovesOn DEF WakeSave
  <2>4. /\ q \in Call /\ q.pc = "launch" /\ q.visit = NoVisit
        /\ q.waiting = call[c].waiting /\ q.stack = call[c].stack
    BY <1>0, CallTyped DEF Call, PC
  <2>5. call' = Stale([call EXCEPT ![c] = r])
    BY <1>1 DEF WakeSave
  <2>6. CallOk(q, way, child, tok)
    <3> HIDE DEF q
    <3> QED BY <2>4, CallTyped DEF CallOk, Creating
  <2>7. CallOk(Reported(c), way, child, tok)
    BY <1>0, CallTyped, ReportedOk
  <2>8. CallOk(r, way, child, tok)
    <3> HIDE DEF q
    <3> QED BY <2>6, <2>7
  <2>9. failed' = failed /\ fault' = fault /\ child' = child /\ way' = way
    BY <1>1 DEF WakeSave
  <2> HIDE DEF r, q
  <2> QED BY <2>3, <2>5, <2>8, <2>9, ParentSaved, CallTyped
<1>2. CASE ~call[c].fresh
  <2>1. PICK r : call' = [call EXCEPT ![c] = r] /\ CallOk(r, way, child, tok)
    BY <1>2, ConflictOk DEF WakeSave
  <2>2. failed' \subseteq Visit
    BY <1>2, ConflictOk DEF WakeSave
  <2> QED BY <1>2, <2>1, <2>2, OneGoes, CallTyped DEF WakeSave, aggregate
<1> QED BY <1>1, <1>2


LEMMA OperatorLoadTyped ==
  ASSUME Typed, NEW c \in Caller, OperatorLoad(c) PROVE Typed'
<1>1. PICK op \in Op :
        call' = [call EXCEPT ![c] = [Free EXCEPT !.pc = "opFind", !.op = op, !.fresh = TRUE]]
  BY DEF OperatorLoad, Goes
<1> DEFINE q == [Free EXCEPT !.pc = "opFind", !.op = op, !.fresh = TRUE]
<1>2. q \in Call /\ q.pc = "opFind" /\ q.stack = <<>> /\ q.waiting = {} /\ q.visit = NoVisit
  <2>1. <<>> \in Seq(Report)
    BY EmptySeq
  <2> QED BY <2>1 DEF Free, Call, PC, Op
<1>3. call' = [call EXCEPT ![c] = q]
  BY <1>1
<1> HIDE DEF q
<1>4. CallOk(q, way, child, tok)
  BY <1>2, EmptySeq DEF CallOk, Creating
<1>5. fault' \in 0 .. Faults
  BY SubflowAssumption DEF OperatorLoad, Fault, Typed
<1> QED BY <1>3, <1>4, <1>5, OneGoes, CallTyped DEF OperatorLoad, aggregate

LEMMA OperatorFindTyped ==
  ASSUME Typed, NEW c \in Caller, OperatorFind(c) PROVE Typed'
<1> DEFINE todo == {k \in DOMAIN child : Applies(call[c].op, child[k].state)}
           q == [call[c] EXCEPT !.pc = "cascade", !.listed = Len(child), !.todo = todo]
<1>1. todo \subseteq Nat /\ Len(child) \in Nat
  BY CallTyped, LenProperties
<1> HIDE DEF todo
<1>2. /\ q \in Call /\ q.pc = "cascade" /\ q.stack = call[c].stack
      /\ q.waiting = call[c].waiting /\ q.visit = call[c].visit
  BY <1>1, CallTyped DEF Call, PC
<1>3. call' = [call EXCEPT ![c] = q]
  BY DEF OperatorFind, Goes, todo
<1> HIDE DEF q
<1>4. CallOk(q, way, child, tok)
  BY <1>2, CallTyped DEF CallOk, Creating, OperatorFind, At
<1> QED BY <1>3, <1>4, OneGoes, CallTyped DEF OperatorFind, aggregate

LEMMA OutcomeType == \A op \in Op : Outcome[op] \in InstanceState
BY DEF Op, Outcome, InstanceState

\* A completed child is out of every operator's reach.
LEMMA AppliesToLive == \A op \in Op : ~Applies(op, "Completed")
BY DEF Op, Applies, Over

\* What the cascade makes of one child.
LEMMA CascadeChild ==
  ASSUME Typed, NEW c \in Caller, NEW k \in call[c].todo, k \in 1 .. Len(child),
         child' = IF Applies(call[c].op, child[k].state)
                  THEN [child EXCEPT ![k].state = Outcome[call[c].op]] ELSE child
  PROVE  /\ child' \in Seq(Kid) /\ Len(child') = Len(child) /\ Grows(child, child')
         /\ \A i \in 1 .. Len(child') :
              <<child'[i].token, child'[i].node>> \in CallVisits(way)
<1>1. call[c].op \in Op
  BY CallTyped DEF Call
<1>2. CASE Applies(call[c].op, child[k].state)
  <2>1. child[k].state # "Completed" /\ Outcome[call[c].op] \in InstanceState
    BY <1>1, <1>2, AppliesToLive, OutcomeType
  <2>2. child' = [child EXCEPT ![k].state = Outcome[call[c].op]]
    BY <1>2
  <2> QED BY <2>1, <2>2, Restated
<1>3. CASE ~Applies(call[c].op, child[k].state)
  BY <1>3, CallTyped DEF Grows, Typed
<1> QED BY <1>2, <1>3

LEMMA CascadeOneTyped ==
  ASSUME Typed, Listed, NEW c \in Caller, CascadeOne(c) PROVE Typed'
<1>1. PICK k \in call[c].todo :
        /\ child' = IF Applies(call[c].op, child[k].state)
                    THEN [child EXCEPT ![k].state = Outcome[call[c].op]] ELSE child
        /\ call' = [call EXCEPT ![c] = [call[c] EXCEPT !.todo = @ \ {k}]]
  BY DEF CascadeOne, Goes
<1> DEFINE q == [call[c] EXCEPT !.todo = @ \ {k}]
<1>2. k \in 1 .. Len(child)
  BY CallTyped DEF Listed, ListedBy, CascadeOne, At, Call
<1>3. /\ child' \in Seq(Kid) /\ Len(child') = Len(child) /\ Grows(child, child')
      /\ \A i \in 1 .. Len(child') :
           <<child'[i].token, child'[i].node>> \in CallVisits(way)
  BY <1>1, <1>2, CascadeChild
<1>4. /\ q \in Call /\ q.pc = call[c].pc /\ q.stack = call[c].stack /\ q.fresh = call[c].fresh
      /\ q.waiting = call[c].waiting /\ q.visit = call[c].visit
  BY CallTyped DEF Call
<1>5. call' = [call EXCEPT ![c] = q]
  BY <1>1
<1> HIDE DEF q
<1>6. CallOk(call[c], way, child', tok)
  BY <1>3, CallKept, CallTyped
<1>7. CallOk(q, way, child', tok)
  BY <1>4, <1>6 DEF CallOk
<1>8. Len(child') <= MaxChild
  BY <1>3 DEF Typed
<1> QED BY <1>3, <1>5, <1>7, <1>8, KidsChange, CallTyped DEF CascadeOne, aggregate

LEMMA CascadeFailsTyped ==
  ASSUME Typed, NEW c \in Caller, CascadeFails(c) PROVE Typed'
<1>1. CallOk(Free, way, child, tok)
  BY FreeOk
<1> QED BY <1>1, OneGoes, CallTyped DEF CascadeFails, aggregate, Goes

LEMMA OperatorSaveTyped ==
  ASSUME Typed, NEW c \in Caller, OperatorSave(c) PROVE Typed'
<1>0. CallOk(Free, way, child, tok)
  BY FreeOk
<1>1. CASE call[c].fresh
  <2>1. call[c].op \in Op /\ parent' \in InstanceState
    BY <1>1, OutcomeType, CallTyped DEF OperatorSave, Call
  <2>2. \A t \in Token : tok'[t] \in {tok[t], "Ended"}
    BY <1>1 DEF OperatorSave
  <2>3. \A t \in Token : tok'[t] \in TokenState /\ Sits(t, at[t], tok'[t])
    BY <2>2 DEF Sits, Typed, TokenState
  <2>4. tok' \in [Token -> TokenState]
    BY <1>1, <2>3 DEF OperatorSave, Typed
  <2>5. /\ call' = Stale([call EXCEPT ![c] = Free]) /\ at' = at /\ at \in [Token -> Nat]
        /\ failed' = failed /\ fault' = fault /\ child' = child /\ way' = way
    BY <1>1 DEF OperatorSave, Typed
  <2> QED BY <1>0, <2>1, <2>3, <2>4, <2>5, ParentSaved, CallTyped
<1>2. CASE ~call[c].fresh
  BY <1>0, <1>2, OneGoes, CallTyped DEF OperatorSave, Goes
<1> QED BY <1>1, <1>2

LEMMA CrashTyped ==
  ASSUME Typed, NEW c \in Caller, Crash(c) PROVE Typed'
<1>1. CallOk(Free, way, child, tok)
  BY FreeOk
<1>2. fault' \in 0 .. Faults
  BY SubflowAssumption DEF Crash, Fault, Typed
<1> QED BY <1>1, <1>2, OneGoes, CallTyped DEF Crash, aggregate, Goes

LEMMA OtherSaveTyped ==
  ASSUME Typed, OtherSave PROVE Typed'
<1>1. PICK c \in Caller : call[c].fresh
  BY DEF OtherSave
<1>2. call' = Stale([call EXCEPT ![c] = call[c]])
  BY DEF OtherSave, Typed, Stale
<1>3. fault' \in 0 .. Faults
  BY SubflowAssumption DEF OtherSave, Fault, Typed
<1>4. /\ parent' \in InstanceState /\ at' \in [Token -> Nat] /\ tok' \in [Token -> TokenState]
      /\ \A t \in Token : Sits(t, at'[t], tok'[t])
  BY DEF OtherSave, aggregate, Typed
<1> QED BY <1>2, <1>3, <1>4, ParentSaved, CallTyped DEF OtherSave, aggregate

LEMMA StutterTyped == ASSUME Typed, UNCHANGED vars PROVE Typed'
BY DEF Typed, Sits, vars

LEMMA TypedStep == ASSUME Typed, Listed, [Next]_vars PROVE Typed'
<1>1. ASSUME NEW c \in Caller, Step(c) PROVE Typed'
  BY <1>1, LaunchLoadTyped, LaunchFindTyped, LaunchCreateTyped, LaunchRefusedTyped,
     MarkLoadTyped, MarkSaveTyped, WakeLoadTyped, WakeSaveTyped, OperatorFindTyped,
     CascadeOneTyped, OperatorSaveTyped DEF Step
<1> QED BY <1>1, CompleteTaskTyped, RetryIncidentTyped, CompleteChildTyped,
           OperatorLoadTyped, CascadeFailsTyped, CrashTyped, OtherSaveTyped,
           StutterTyped DEF Next


-----------------------------------------------------------------------------
(* What a step does to the children and to the places of the calls.        *)

\* A child that is over stays over.
Lasts(kids, more) ==
  /\ Len(kids) <= Len(more)
  /\ \A k \in 1 .. Len(kids) :
       /\ more[k].token = kids[k].token /\ more[k].node = kids[k].node
       /\ Over(kids[k].state) => Over(more[k].state)

LEMMA RestatedLasts ==
  ASSUME Typed, NEW k \in 1 .. Len(child), NEW s \in InstanceState,
         ~Over(child[k].state) \/ Over(s), child' = [child EXCEPT ![k].state = s]
  PROVE  Len(child') = Len(child) /\ Lasts(child, child')
<1> DEFINE q == [child[k] EXCEPT !.state = s]
<1>1. child \in Seq(Kid) /\ Len(child) \in Nat /\ child[k] \in Kid
  BY CallTyped, ElementOfSeq, LenProperties DEF Typed
<1>2. q \in Kid /\ q.token = child[k].token /\ q.node = child[k].node /\ q.state = s
  BY <1>1 DEF Kid
<1>3. child' = [child EXCEPT ![k] = q]
  OBVIOUS
<1> HIDE DEF q
<1>4. Len(child') = Len(child) /\ child'[k] = q
      /\ \A i \in 1 .. Len(child) : i # k => child'[i] = child[i]
  BY <1>1, <1>2, <1>3, ExceptSeq
<1> QED BY <1>1, <1>2, <1>4 DEF Lasts

\* A cascade changes the state of one child.
LEMMA CascadeLasts ==
  ASSUME Typed, Listed, NEW c \in Caller, CascadeOne(c)
  PROVE  Len(child') = Len(child) /\ Lasts(child, child')
<1>0. child \in Seq(Kid) /\ Len(child) \in Nat /\ DOMAIN child = 1 .. Len(child)
  BY LenProperties DEF Typed
<1>1. PICK k \in call[c].todo :
        child' = IF Applies(call[c].op, child[k].state)
                 THEN [child EXCEPT ![k].state = Outcome[call[c].op]] ELSE child
  BY DEF CascadeOne
<1>2. k \in 1 .. Len(child) /\ call[c].op \in Op
  BY <1>0, CallTyped DEF Listed, ListedBy, CascadeOne, At, Call
<1>3. CASE ~Applies(call[c].op, child[k].state)
  BY <1>0, <1>1, <1>3 DEF Lasts
<1>4. CASE Applies(call[c].op, child[k].state)
  <2>1. ~Over(child[k].state)
    BY <1>2, <1>4 DEF Applies, Over, Op
  <2>2. child' = [child EXCEPT ![k].state = Outcome[call[c].op]]
    BY <1>1, <1>4
  <2> QED BY <1>2, <2>1, <2>2, OutcomeType, RestatedLasts
<1> QED BY <1>3, <1>4

LEMMA KidsStep ==
  ASSUME Typed, Listed, [Next]_vars
  PROVE  /\ Lasts(child, child')
         /\ \/ Len(child') = Len(child)
            \/ \E c \in Caller : LaunchCreate(c)
<1>0. child \in Seq(Kid) /\ Len(child) \in Nat /\ DOMAIN child = 1 .. Len(child)
  BY LenProperties DEF Typed
<1>1. CASE child' = child
  BY <1>0, <1>1 DEF Lasts
<1>2. ASSUME NEW c \in Caller, CompleteChild(c)
      PROVE  Len(child') = Len(child) /\ Lasts(child, child')
  <2>1. PICK k \in 1 .. Len(child) : /\ child[k].state = "Active"
                                     /\ child' = [child EXCEPT ![k].state = "Completed"]
    BY <1>0, <1>2 DEF CompleteChild
  <2> QED BY <2>1, RestatedLasts DEF InstanceState, Over
<1>3. ASSUME NEW c \in Caller, CascadeOne(c)
      PROVE  Len(child') = Len(child) /\ Lasts(child, child')
  BY <1>3, CascadeLasts
<1>4. ASSUME NEW c \in Caller, LaunchCreate(c) PROVE Lasts(child, child')
  <2>1. PICK s \in InstanceState :
          child' = Append(child, [token |-> call[c].visit[1], node |-> call[c].visit[2],
                                  state |-> s])
    BY <1>4 DEF LaunchCreate, InstanceState
  <2>2. call[c].visit \in CallVisits(way) /\ Len(child) < MaxChild
    BY <1>4, CallTyped DEF LaunchCreate, At, CallOk, Creating
  <2>3. Len(child') = Len(child) + 1 /\ \A i \in 1 .. Len(child) : child'[i] = child[i]
    BY <2>1, <2>2, Appended
  <2> QED BY <1>0, <2>3 DEF Lasts
<1>5. \/ child' = child
      \/ \E c \in Caller : CompleteChild(c) \/ CascadeOne(c) \/ LaunchCreate(c)
  BY DEF Next, Step, LaunchLoad, LaunchFind, LaunchRefused, MarkLoad, MarkSave, WakeLoad,
         WakeSave, OperatorFind, OperatorSave, CompleteTask, RetryIncident, OperatorLoad,
         CascadeFails, Crash, OtherSave, vars
<1> QED BY <1>1, <1>2, <1>3, <1>4, <1>5

\* A call that keeps its visit or drops it, comes to neither a creation nor a
\* cascade, and does not change what it cascades.
Keeps(r, q) ==
  /\ q.visit \in {r.visit, NoVisit}
  /\ q.pc = "create" => r.pc = "create"
  /\ q.pc = "cascade" => /\ r.pc = "cascade" /\ q.op = r.op
                         /\ q.todo = r.todo /\ q.listed = r.listed

LEMMA Elsewhere ==
  ASSUME Typed, NEW c \in Caller, NEW r \in Call, Keeps(call[c], r),
         \/ call' = [call EXCEPT ![c] = r]
         \/ call' = Stale([call EXCEPT ![c] = r])
  PROVE  \A d \in Caller : Keeps(call[d], call'[d])
<1> SUFFICES ASSUME NEW d \in Caller PROVE Keeps(call[d], call'[d])
  OBVIOUS
<1> DEFINE q == IF d = c THEN r ELSE call[d]
<1>1. q \in Call /\ Keeps(call[d], q)
  BY DEF Keeps, Typed
<1>2. CASE call' = [call EXCEPT ![c] = r]
  BY <1>1, <1>2 DEF Typed
<1>3. CASE call' = Stale([call EXCEPT ![c] = r])
  <2>1. call'[d] = [q EXCEPT !.fresh = FALSE]
    BY <1>3 DEF Stale, Typed
  <2> HIDE DEF q
  <2>2. /\ call'[d].visit = q.visit /\ call'[d].pc = q.pc /\ call'[d].op = q.op
        /\ call'[d].todo = q.todo /\ call'[d].listed = q.listed
    BY <1>1, <2>1 DEF Call
  <2> QED BY <1>1, <2>2 DEF Keeps
<1> QED BY <1>2, <1>3

LEMMA FreeKeeps ==
  ASSUME NEW r PROVE Free \in Call /\ Launching \in Call /\ Keeps(r, Free) /\ Keeps(r, Launching)
<1>1. Free \in Call /\ Launching \in Call
  BY FreeOk DEF CallOk
<1> QED BY <1>1 DEF Free, Launching, Keeps

LEMMA ReportedKeeps ==
  ASSUME Typed, NEW c \in Caller
  PROVE  Keeps(call[c], Reported(c)) /\ Keeps(call[c], Launched(c))
<1>1. Keeps(call[c], Reported(c))
  <2> DEFINE q == [call[c] EXCEPT !.pc = "launch", !.stack = Below(c)]
  <2>1. q.visit = call[c].visit /\ q.pc = "launch"
    BY CallTyped DEF Call
  <2> HIDE DEF q
  <2>2. Keeps(call[c], q)
    BY <2>1 DEF Keeps
  <2> QED BY <2>2, FreeKeeps DEF Reported, q
<1> QED BY <1>1, FreeKeeps DEF Launched


\* Each action but those that find or cascade leaves every call with what it had.
AllKeep == \A d \in Caller : Keeps(call[d], call'[d])

LEMMA GoesKeep ==
  ASSUME Typed, NEW c \in Caller, NEW r, Keeps(call[c], r), call' = [call EXCEPT ![c] = r]
  PROVE  AllKeep
BY DEF Typed, Keeps, AllKeep

LEMMA LaunchesKeep ==
  ASSUME Typed, NEW c \in Caller,
         LaunchLoad(c) \/ LaunchCreate(c) \/ LaunchRefused(c) \/ MarkLoad(c) \/ WakeLoad(c)
  PROVE  AllKeep
<1>0. /\ call[c] \in Call
      /\ call[c].pc \in {"launch", "create", "markLoad", "wakeLoad"}
  BY CallTyped DEF LaunchLoad, LaunchCreate, LaunchRefused, MarkLoad, WakeLoad, At
<1>1. CASE LaunchLoad(c)
  <2> DEFINE q == [call[c] EXCEPT !.pc = "find", !.waiting = Waiting]
  <2>1. Keeps(call[c], q)
    BY <1>0 DEF Call, Keeps
  <2>2. call' = [call EXCEPT ![c] = IF Waiting = {} THEN Launched(c) ELSE q]
    BY <1>1 DEF LaunchLoad, Goes
  <2> HIDE DEF q
  <2> QED BY <2>1, <2>2, ReportedKeeps, GoesKeep
<1>2. CASE LaunchCreate(c)
  <2>1. PICK s \in {"Active", "Completed"} :
          call' = [call EXCEPT ![c] =
             IF Finished(s)
             THEN [call[c] EXCEPT !.pc = "wakeLoad", !.visit = NoVisit,
                     !.stack = Append(@, [child |-> Len(child) + 1, attempt |-> 1])]
             ELSE [call[c] EXCEPT !.pc = "launch", !.visit = NoVisit]]
    BY <1>2 DEF LaunchCreate, Goes
  <2> DEFINE st == Append(call[c].stack, [child |-> Len(child) + 1, attempt |-> 1])
             q == [call[c] EXCEPT !.pc = "wakeLoad", !.visit = NoVisit, !.stack = st]
             r == [call[c] EXCEPT !.pc = "launch", !.visit = NoVisit]
  <2>2. q.pc = "wakeLoad" /\ q.visit = NoVisit /\ r.pc = "launch" /\ r.visit = NoVisit
    <3> HIDE DEF st
    <3> QED BY <1>0 DEF Call
  <2>3. call' = [call EXCEPT ![c] = IF Finished(s) THEN q ELSE r]
    BY <2>1
  <2> HIDE DEF q, r
  <2>4. Keeps(call[c], q) /\ Keeps(call[c], r)
    BY <2>2 DEF Keeps
  <2> QED BY <2>3, <2>4, GoesKeep
<1>3. CASE LaunchRefused(c)
  <2> DEFINE q == [call[c] EXCEPT !.pc = "markLoad"]
  <2>1. Keeps(call[c], q)
    BY <1>0 DEF Call, Keeps
  <2> HIDE DEF q
  <2> QED BY <1>3, <2>1, GoesKeep DEF LaunchRefused, Goes, q
<1>4. CASE MarkLoad(c)
  <2> DEFINE q == [call[c] EXCEPT !.pc = "mark", !.fresh = TRUE]
  <2>1. Keeps(call[c], q)
    BY <1>0 DEF Call, Keeps
  <2> HIDE DEF q
  <2> QED BY <1>4, <2>1, GoesKeep DEF MarkLoad, Goes, q
<1>5. CASE WakeLoad(c)
  <2> DEFINE q == [call[c] EXCEPT !.pc = "wakeSave", !.fresh = TRUE]
  <2>1. Keeps(call[c], q)
    BY <1>0 DEF Call, Keeps
  <2>2. call' = [call EXCEPT ![c] = IF tok[child[Top(c).child].token] = "Subflow"
                                    THEN q ELSE Reported(c)]
    BY <1>5 DEF WakeLoad, Goes
  <2> HIDE DEF q
  <2> QED BY <2>1, <2>2, ReportedKeeps, GoesKeep
<1> QED BY <1>1, <1>2, <1>3, <1>4, <1>5

LEMMA ConflictKeeps ==
  ASSUME Typed, NEW c \in Caller, Conflict(c)
  PROVE  AllKeep
<1>1. PICK up, st :
        call' = [call EXCEPT ![c] =
                   IF up = 0 THEN Free
                   ELSE [call[c] EXCEPT !.pc = "wakeLoad", !.visit = NoVisit, !.stack = st]]
  BY DEF Conflict
<1> DEFINE q == [call[c] EXCEPT !.pc = "wakeLoad", !.visit = NoVisit, !.stack = st]
<1>2. Keeps(call[c], q)
  BY CallTyped DEF Call, Keeps
<1> HIDE DEF q
<1> QED BY <1>1, <1>2, FreeKeeps, GoesKeep DEF q

LEMMA PeopleKeep ==
  ASSUME Typed, NEW c \in Caller,
         \/ CompleteTask(c) \/ RetryIncident(c) \/ CompleteChild(c)
         \/ OperatorLoad(c) \/ CascadeFails(c) \/ Crash(c)
  PROVE  AllKeep
<1>1. CASE CompleteTask(c) \/ RetryIncident(c)
  <2>1. call' = Stale([call EXCEPT ![c] = Launching])
    BY <1>1 DEF CompleteTask, RetryIncident
  <2> QED BY <2>1, FreeKeeps, Elsewhere DEF AllKeep
<1>2. CASE CompleteChild(c)
  <2>1. PICK st : call' = [call EXCEPT ![c] = [Free EXCEPT !.pc = "wakeLoad", !.root = "child",
                                                           !.stack = st]]
    BY <1>2 DEF CompleteChild, Goes
  <2> DEFINE q == [Free EXCEPT !.pc = "wakeLoad", !.root = "child", !.stack = st]
  <2>2. Keeps(call[c], q)
    BY DEF Free, Keeps
  <2> HIDE DEF q
  <2> QED BY <2>1, <2>2, GoesKeep DEF q
<1>3. CASE OperatorLoad(c)
  <2>1. PICK op \in Op :
          call' = [call EXCEPT ![c] = [Free EXCEPT !.pc = "opFind", !.op = op, !.fresh = TRUE]]
    BY <1>3 DEF OperatorLoad, Goes
  <2> DEFINE q == [Free EXCEPT !.pc = "opFind", !.op = op, !.fresh = TRUE]
  <2>2. Keeps(call[c], q)
    BY DEF Free, Keeps
  <2> HIDE DEF q
  <2> QED BY <2>1, <2>2, GoesKeep DEF q
<1>4. CASE CascadeFails(c) \/ Crash(c)
  BY <1>4, FreeKeeps, GoesKeep DEF CascadeFails, Crash, Goes
<1> QED BY <1>1, <1>2, <1>3, <1>4

LEMMA SavesKeep ==
  ASSUME Typed, NEW c \in Caller, MarkSave(c) \/ WakeSave(c) \/ OperatorSave(c)
  PROVE  AllKeep
<1>1. CASE MarkSave(c)
  <2> DEFINE q == [call[c] EXCEPT !.pc = "launch", !.visit = NoVisit]
  <2>1. q \in Call /\ q.pc = "launch" /\ q.visit = NoVisit
    BY CallTyped DEF Call, PC
  <2>2. Conflict(c) \/ call' = Stale([call EXCEPT ![c] = q])
    BY <1>1 DEF MarkSave
  <2> HIDE DEF q
  <2>3. Keeps(call[c], q)
    BY <2>1 DEF Keeps
  <2> QED BY <2>1, <2>2, <2>3, ConflictKeeps, Elsewhere DEF AllKeep
<1>2. CASE WakeSave(c)
  <2> DEFINE q == [call[c] EXCEPT !.pc = "launch"]
             r == IF parent' = "Completed" THEN Reported(c) ELSE q
  <2>1. q \in Call /\ q.pc = "launch" /\ q.visit = call[c].visit
    BY CallTyped DEF Call, PC
  <2>2. Conflict(c) \/ call' = Stale([call EXCEPT ![c] = r])
    BY <1>2 DEF WakeSave
  <2>3. Keeps(call[c], q)
    <3> HIDE DEF q
    <3> QED BY <2>1 DEF Keeps
  <2>4. Reported(c) \in Call
    <3>1. call[c].visit = NoVisit /\ Len(call[c].stack) > 0
      BY <1>2, CallTyped DEF WakeSave, At, Creating, CallOk
    <3> QED BY <3>1, CallTyped, ReportedOk DEF CallOk
  <2>5. r \in Call /\ Keeps(call[c], r)
    <3> HIDE DEF q
    <3> QED BY <2>1, <2>3, <2>4, ReportedKeeps
  <2> HIDE DEF r
  <2> QED BY <2>2, <2>5, ConflictKeeps, Elsewhere DEF AllKeep
<1>3. CASE OperatorSave(c)
  <2>1. \/ call' = [call EXCEPT ![c] = Free]
        \/ call' = Stale([call EXCEPT ![c] = Free])
    BY <1>3 DEF OperatorSave, Goes
  <2> QED BY <2>1, FreeKeeps, Elsewhere DEF AllKeep
<1> QED BY <1>1, <1>2, <1>3

LEMMA PlacesStep ==
  ASSUME Typed, [Next]_vars
  PROVE  \/ AllKeep
         \/ \E c \in Caller : LaunchFind(c) \/ OperatorFind(c) \/ CascadeOne(c)
<1>1. CASE UNCHANGED vars
  BY <1>1 DEF vars, AllKeep, Keeps
<1>2. CASE OtherSave
  <2>1. PICK c \in Caller : call[c].fresh
    BY <1>2 DEF OtherSave
  <2>2. call' = Stale([call EXCEPT ![c] = call[c]])
    BY <1>2 DEF OtherSave, Typed, Stale
  <2>3. Keeps(call[c], call[c]) /\ call[c] \in Call
    BY CallTyped DEF Keeps
  <2> QED BY <2>2, <2>3, Elsewhere DEF AllKeep
<1>3. ASSUME NEW c \in Caller, Step(c)
      PROVE  AllKeep \/ LaunchFind(c) \/ OperatorFind(c) \/ CascadeOne(c)
  BY <1>3, LaunchesKeep, SavesKeep DEF Step
<1> QED BY <1>1, <1>2, <1>3, PeopleKeep DEF Next


-----------------------------------------------------------------------------
(* What a cascade has listed.                                              *)

LEMMA ListedKept ==
  ASSUME NEW r, NEW q, NEW kids, NEW more, ListedBy(r, kids), Keeps(r, q),
         Lasts(kids, more), Len(kids) \in Nat, Len(more) \in Nat, r.listed \in Nat
  PROVE  ListedBy(q, more)
BY DEF ListedBy, Keeps, Lasts

LEMMA ListedStep == ASSUME Typed, Typed', Listed, [Next]_vars PROVE Listed'
<1>0. Lasts(child, child') /\ Len(child) \in Nat /\ Len(child') \in Nat
  BY KidsStep, CallTyped, LenProperties DEF Typed
<1>1. \A d \in Caller : call[d] \in Call /\ call[d].listed \in Nat
  BY CallTyped DEF Call
<1>2. \A d \in Caller : Keeps(call[d], call'[d]) => ListedBy(call'[d], child')
  BY <1>0, <1>1, ListedKept DEF Listed
<1>3. CASE AllKeep
  BY <1>2, <1>3 DEF AllKeep, Listed
<1>4. \A d \in Caller : call'[d] = call[d] => ListedBy(call'[d], child')
  BY <1>2 DEF Keeps
<1>5. ASSUME NEW c \in Caller, LaunchFind(c) PROVE Listed'
  <2>1. CASE call' = [call EXCEPT ![c] = Launched(c)]
    BY <1>3, <2>1, ReportedKeeps, GoesKeep
  <2>2. ASSUME NEW visit,
               call' = [call EXCEPT ![c] = [call[c] EXCEPT !.pc = "create", !.visit = visit,
                                                           !.waiting = {}]]
        PROVE  Listed'
    <3>1. call'[c].pc = "create"
      BY <1>1, <2>2 DEF Call, Typed
    <3>2. ListedBy(call'[c], child')
      BY <3>1 DEF ListedBy
    <3>3. \A d \in Caller : d # c => call'[d] = call[d]
      BY <2>2 DEF Typed
    <3> QED BY <1>4, <3>2, <3>3 DEF Listed
  <2> QED BY <1>5, <2>1, <2>2 DEF LaunchFind, Goes
<1>6. ASSUME NEW c \in Caller, OperatorFind(c) PROVE Listed'
  <2> DEFINE todo == {k \in DOMAIN child : Applies(call[c].op, child[k].state)}
             q == [call[c] EXCEPT !.pc = "cascade", !.listed = Len(child), !.todo = todo]
  <2>1. DOMAIN child = 1 .. Len(child)
    BY LenProperties DEF Typed
  <2>2. /\ todo \subseteq 1 .. Len(child)
        /\ call[c].op = "cancel" => \A k \in 1 .. Len(child) : k \in todo \/ Over(child[k].state)
    BY <2>1 DEF Applies
  <2> HIDE DEF todo
  <2>3. q.listed = Len(child) /\ q.todo = todo /\ q.op = call[c].op
    BY <1>1 DEF Call
  <2>4. call' = [call EXCEPT ![c] = q] /\ child' = child
    BY <1>6 DEF OperatorFind, Goes, todo
  <2> HIDE DEF q
  <2>5. ListedBy(q, child)
    BY <1>0, <2>2, <2>3 DEF ListedBy
  <2>6. call'[c] = q /\ \A d \in Caller : d # c => call'[d] = call[d]
    BY <2>4 DEF Typed
  <2> QED BY <1>4, <2>4, <2>5, <2>6 DEF Listed
<1>7. ASSUME NEW c \in Caller, CascadeOne(c) PROVE Listed'
  <2>1. PICK k \in call[c].todo :
          /\ child' = IF Applies(call[c].op, child[k].state)
                      THEN [child EXCEPT ![k].state = Outcome[call[c].op]] ELSE child
          /\ call' = [call EXCEPT ![c] = [call[c] EXCEPT !.todo = @ \ {k}]]
    BY <1>7 DEF CascadeOne, Goes
  <2> DEFINE q == [call[c] EXCEPT !.todo = @ \ {k}]
  <2>2. ListedBy(call[c], child) /\ call[c].pc = "cascade"
    BY <1>7 DEF Listed, CascadeOne, At
  <2>3. k \in 1 .. Len(child)
    BY <1>0, <1>1, <2>2 DEF ListedBy
  <2>4. call[c].op = "cancel" => Over(child'[k].state)
    <3> SUFFICES ASSUME call[c].op = "cancel" PROVE Over(child'[k].state)
      OBVIOUS
    <3>1. CASE Over(child[k].state)
      BY <1>0, <2>3, <3>1 DEF Lasts
    <3>2. CASE ~Over(child[k].state)
      <4>1. child' = [child EXCEPT ![k].state = "Terminated"]
        BY <2>1, <3>2 DEF Applies, Outcome
      <4>2. child'[k].state = "Terminated"
        BY <2>3, <4>1, Restated DEF InstanceState, Over, Typed
      <4> QED BY <4>2 DEF Over
    <3> QED BY <3>1, <3>2
  <2>5. ListedBy(call[c], child')
    <3>1. Keeps(call[c], call[c])
      BY <2>2, <1>1 DEF Keeps
    <3> QED BY <1>0, <1>1, <2>2, <3>1, ListedKept
  <2>6. /\ q.todo = call[c].todo \ {k} /\ q.op = call[c].op /\ q.listed = call[c].listed
        /\ q.pc = call[c].pc
    BY <1>1 DEF Call
  <2>7. call'[c] = q /\ \A d \in Caller : d # c => call'[d] = call[d]
    BY <2>1 DEF Typed
  <2> HIDE DEF q
  <2>8. ListedBy(q, child')
    BY <2>4, <2>5, <2>6 DEF ListedBy
  <2> QED BY <1>4, <2>7, <2>8 DEF Listed
<1> QED BY <1>3, <1>5, <1>6, <1>7, PlacesStep

LEMMA ListedInit == Init => Listed
<1> SUFFICES ASSUME Init, NEW c \in Caller PROVE ListedBy(call[c], child)
  BY DEF Listed
<1>1. call[c] \in {Free, Launching}
  BY DEF Init
<1> QED BY <1>1 DEF ListedBy, Free, Launching

\* Only tokens are moved a second time.
LEMMA ReplayedStep ==
  ASSUME Typed, [Next]_vars, replayed \subseteq Token
  PROVE  replayed' \subseteq Token /\ replayed \subseteq replayed'
<1>1. ASSUME NEW c \in Caller, Conflict(c)
      PROVE  replayed' \subseteq Token /\ replayed \subseteq replayed'
  <2>1. PICK up \in 0 .. Len(call[c].stack) : /\ up = 0 => replayed' = replayed
                                              /\ up # 0 => StartsOver(c, up)
    BY <1>1, Restarts
  <2>2. CASE up # 0
    <3>1. up \in 1 .. Len(call[c].stack)
      BY <2>1, <2>2, CallTyped
    <3>2. Done(child, call[c].stack[up].child)
      BY <3>1, CallTyped DEF CallOk
    <3>3. child[call[c].stack[up].child].token \in Token
      <4>1. child[call[c].stack[up].child] \in Kid
        BY <3>2, CallTyped, ElementOfSeq DEF Done
      <4> QED BY <4>1 DEF Kid
    <3>4. replayed' = replayed \/ replayed' = replayed \cup {child[call[c].stack[up].child].token}
      BY <2>1, <2>2 DEF StartsOver
    <3> QED BY <3>3, <3>4
  <2> QED BY <2>1, <2>2
<1>2. replayed' = replayed \/ \E c \in Caller : Conflict(c)
  BY DEF Next, Step, LaunchLoad, LaunchFind, LaunchCreate, LaunchRefused, MarkLoad, MarkSave,
         WakeLoad, WakeSave, OperatorFind, CascadeOne, OperatorSave, CompleteTask,
         RetryIncident, CompleteChild, OperatorLoad, CascadeFails, Crash, OtherSave, vars
<1> QED BY <1>1, <1>2

\* Only visits a launch has found are raced, and they stay so.
LEMMA RacedStep ==
  ASSUME Typed, [Next]_vars, raced \subseteq Visit
  PROVE  raced' \subseteq Visit /\ raced \subseteq raced'
<1>1. ASSUME NEW c \in Caller, LaunchFind(c)
      PROVE  raced' \subseteq Visit /\ raced \subseteq raced'
  <2>1. call[c].waiting \subseteq Visit
    BY CallTyped DEF CallOk, CallVisits
  <2>2. raced' = raced \/ \E visit \in call[c].waiting : raced' = raced \cup {visit}
    BY <1>1 DEF LaunchFind, Overlap
  <2> QED BY <2>1, <2>2
<1>2. raced' = raced \/ \E c \in Caller : LaunchFind(c)
  BY DEF Next, Step, LaunchLoad, LaunchCreate, LaunchRefused, MarkLoad, MarkSave,
         WakeLoad, WakeSave, OperatorFind, CascadeOne, OperatorSave, CompleteTask,
         RetryIncident, CompleteChild, OperatorLoad, CascadeFails, Crash, OtherSave, vars
<1> QED BY <1>1, <1>2

IInv == Typed /\ Listed /\ replayed \subseteq Token /\ raced \subseteq Visit

\* What has gone astray stays so.
LEMMA AstrayStep == ASSUME IInv, [Next]_vars PROVE Astray \subseteq Astray'
BY ReplayedStep, RacedStep DEF IInv, Astray

\* The inductive invariant holds in every state: the calls hold what they have
\* found and no call moves a token from a current copy that does not wait.
THEOREM Invariance == Spec => []IInv
<1>1. Init => IInv
  BY TypedInit, ListedInit DEF IInv, Init
<1>2. IInv /\ [Next]_vars => IInv'
  BY TypedStep, ListedStep, ReplayedStep, RacedStep DEF IInv
<1> QED BY <1>1, <1>2, PTL DEF Spec

\* Parent, tokens, children and calls keep their types: a token that is not
\* through stands at a node of its way, a child belongs to a call activity,
\* and what is reported to the parent is a child that is completed.
THEOREM SubflowTypes == Spec => []TypeOK
<1>1. IInv => TypeOK
  <2> SUFFICES ASSUME IInv PROVE TypeOK
    OBVIOUS
  <2>1. child \in Seq(Kid) /\ DOMAIN child = 1 .. Len(child)
    BY LenProperties DEF IInv, Typed
  <2>2. \A k \in DOMAIN child : /\ child[k].token \in Token
                                /\ child[k].state \in InstanceState
                                /\ way[child[k].token][child[k].node] # "task"
    <3> SUFFICES ASSUME NEW k \in 1 .. Len(child)
                 PROVE  /\ child[k].token \in Token
                        /\ child[k].state \in InstanceState
                        /\ way[child[k].token][child[k].node] # "task"
      BY <2>1
    <3>1. child[k] \in Kid
      BY <2>1, ElementOfSeq
    <3>2. <<child[k].token, child[k].node>> \in CallVisits(way)
      BY DEF IInv, Typed
    <3> QED BY <3>1, <3>2 DEF Kid, CallVisits
  <2>3. \A c \in Caller :
          /\ call[c].pc \in PC
          /\ call[c].waiting \subseteq Visit
          /\ \A i \in DOMAIN call[c].stack : child[call[c].stack[i].child].state = "Completed"
    <3> SUFFICES ASSUME NEW c \in Caller
                 PROVE  /\ call[c].pc \in PC
                        /\ call[c].waiting \subseteq Visit
                        /\ \A i \in DOMAIN call[c].stack :
                             child[call[c].stack[i].child].state = "Completed"
      OBVIOUS
    <3>1. CallOk(call[c], way, child, tok) /\ call[c] \in Call
      BY CallTyped DEF IInv
    <3>2. DOMAIN call[c].stack = 1 .. Len(call[c].stack)
      BY <3>1, LenProperties DEF Call
    <3> QED BY <3>1, <3>2 DEF CallOk, Call, Done
  <2> QED BY <2>2, <2>3 DEF IInv, Typed, TypeOK, Sits, TokenState
<1> QED BY <1>1, Invariance, PTL

\* Cancelling the parent ends every child that was there when it looked,
\* whoever completes, suspends, launches or dies meanwhile.
THEOREM CancellationReaches == Spec => CancelReaches
<1> DEFINE Reaches ==
      parent' = "Terminated" /\ parent # "Terminated" =>
         \E c \in Caller : call[c].pc = "cascade" /\ call[c] # call'[c]
                           /\ \A k \in 1 .. call[c].listed : Over(child[k].state)
<1>1. IInv /\ [Next]_vars => [Reaches]_vars
  <2> SUFFICES ASSUME IInv, Next, parent' = "Terminated", parent # "Terminated"
               PROVE  Reaches
    OBVIOUS
  <2>1. PICK c \in Caller : OperatorSave(c)
    BY DEF Next, Step, LaunchLoad, LaunchFind, LaunchCreate, LaunchRefused, MarkLoad, MarkSave,
           WakeLoad, WakeSave, OperatorFind, CascadeOne, CompleteTask, RetryIncident,
           CompleteChild, OperatorLoad, CascadeFails, Crash, OtherSave, MoveOn, aggregate
  <2>2. call[c] \in Call /\ ListedBy(call[c], child)
    BY CallTyped DEF IInv, Listed
  <2>3. /\ call[c].pc = "cascade" /\ call[c].todo = {} /\ call[c].fresh
        /\ parent' = Outcome[call[c].op]
        /\ call' = Stale([call EXCEPT ![c] = Free])
    BY <2>1 DEF OperatorSave, At
  <2>4. call[c].op = "cancel"
    BY <2>2, <2>3 DEF Call, Op, Outcome
  <2>5. \A k \in 1 .. call[c].listed : Over(child[k].state)
    BY <2>2, <2>3, <2>4 DEF ListedBy
  <2>6. call'[c].pc = "idle"
    <3>1. call'[c] = [Free EXCEPT !.fresh = FALSE]
      BY <2>3 DEF Stale, IInv, Typed
    <3> QED BY <3>1 DEF Free
  <2> QED BY <2>3, <2>5, <2>6
<1> QED BY <1>1, Invariance, PTL DEF Spec, CancelReaches, Reaches


-----------------------------------------------------------------------------
(* One child for one visit, where launches of it do not overlap.           *)

\* A creation is at a visit.
LEMMA CreatesAtVisit ==
  ASSUME Typed, NEW c \in Caller, call[c].pc = "create"
  PROVE  call[c].visit # NoVisit /\ call[c].visit \in CallVisits(way)
BY CallTyped DEF CallOk, Creating

LEMMA OneIsDistinct ==
  ASSUME Typed
  PROVE  /\ OneChild <=> Distinct(child, raced)
         /\ \A visit : Already(visit) <=> Has(child, visit)
BY LenProperties DEF Typed, OneChild, Distinct, Already, Has, VisitOf, VisitAt

\* Children that keep their number keep their visits.
LEMMA SameVisits ==
  ASSUME NEW kids, NEW more, NEW out, NEW wider, Lasts(kids, more), Len(more) = Len(kids),
         out \subseteq wider
  PROVE  /\ Distinct(kids, out) => Distinct(more, wider)
         /\ \A visit : ~Has(kids, visit) => ~Has(more, visit)
<1>1. \A k \in 1 .. Len(kids) : VisitAt(more, k) = VisitAt(kids, k)
  BY DEF Lasts, VisitAt
<1> QED BY <1>1 DEF Distinct, Has

\* A child more, of a visit that has none or is raced.
LEMMA OneVisitMore ==
  ASSUME NEW kids, NEW more, NEW visit, NEW out, Len(kids) \in Nat, Len(more) = Len(kids) + 1,
         \A i \in 1 .. Len(kids) : more[i] = kids[i],
         VisitAt(more, Len(kids) + 1) = visit, ~Has(kids, visit) \/ visit \in out
  PROVE  /\ Distinct(kids, out) => Distinct(more, out)
         /\ \A other : other # visit /\ ~Has(kids, other) => ~Has(more, other)
<1>1. \A k \in 1 .. Len(more) : k = Len(kids) + 1 \/ k \in 1 .. Len(kids)
  OBVIOUS
<1>2. \A k \in 1 .. Len(kids) : VisitAt(more, k) = VisitAt(kids, k)
  BY DEF VisitAt
<1>3. \A k \in 1 .. Len(kids) : VisitAt(more, k) # visit \/ visit \in out
  BY <1>2 DEF Has
<1>4. ASSUME Distinct(kids, out), NEW k \in 1 .. Len(more), NEW l \in 1 .. Len(more),
             VisitAt(more, k) = VisitAt(more, l)
      PROVE  k = l \/ VisitAt(more, k) \in out
  BY <1>1, <1>2, <1>3, <1>4 DEF Distinct
<1>5. ASSUME NEW other, other # visit, ~Has(kids, other), NEW k \in 1 .. Len(more)
      PROVE  VisitAt(more, k) # other
  BY <1>1, <1>2, <1>5 DEF Has
<1>6. Distinct(kids, out) => Distinct(more, out)
  BY <1>4 DEF Distinct
<1>7. \A other : other # visit /\ ~Has(kids, other) => ~Has(more, other)
  BY <1>5 DEF Has
<1> QED BY <1>6, <1>7

LEMMA SingleStep ==
  ASSUME Typed, Typed', Listed, Single, [Next]_vars, raced \subseteq raced' PROVE Single'
<1>0. /\ Lasts(child, child')
      /\ Len(child') = Len(child) \/ \E c \in Caller : LaunchCreate(c)
  BY KidsStep
<1>1. \A c \in Caller : call'[c].pc = "create" => call'[c].visit # NoVisit
  BY DEF Typed, CallOk, Creating
<1>2. ASSUME AllKeep
      PROVE  /\ \A d \in Caller : call'[d].pc = "create" =>
                  call[d].pc = "create" /\ call'[d].visit = call[d].visit
             /\ \A a, b \in Caller :
                  a # b /\ call'[a].pc = "create" /\ call'[b].pc = "create" =>
                    call'[b].visit # call'[a].visit \/ call'[a].visit \in raced'
  <2>1. \A d \in Caller : call'[d].pc = "create" =>
          call[d].pc = "create" /\ call'[d].visit = call[d].visit
    BY <1>1, <1>2 DEF AllKeep, Keeps
  <2> QED BY <2>1 DEF Single
<1>3. ASSUME NEW c \in Caller, LaunchCreate(c) PROVE Single'
  <2>1. AllKeep
    BY <1>3, LaunchesKeep
  <2>2. /\ call[c].pc = "create" /\ call[c].visit # NoVisit /\ raced' = raced
        /\ ~Has(child, call[c].visit) \/ call[c].visit \in raced
    BY <1>3, CreatesAtVisit DEF LaunchCreate, At, Single
  <2>3. PICK s \in {"Active", "Completed"} :
          /\ child' = Append(child, [token |-> call[c].visit[1], node |-> call[c].visit[2],
                                     state |-> s])
          /\ call' = [call EXCEPT ![c] =
               IF Finished(s)
               THEN [call[c] EXCEPT !.pc = "wakeLoad", !.visit = NoVisit,
                       !.stack = Append(@, [child |-> Len(child) + 1, attempt |-> 1])]
               ELSE [call[c] EXCEPT !.pc = "launch", !.visit = NoVisit]]
    BY <1>3 DEF LaunchCreate, Goes
  <2>4. /\ Len(child') = Len(child) + 1 /\ \A i \in 1 .. Len(child) : child'[i] = child[i]
        /\ VisitAt(child', Len(child) + 1) = call[c].visit
    BY <1>3, <2>2, <2>3, Appended, CreatesAtVisit DEF LaunchCreate, VisitAt, InstanceState
  <2>5. Len(child) \in Nat
    BY CallTyped
  <2>6. /\ Distinct(child', raced)
        /\ \A other : other # call[c].visit /\ ~Has(child, other) => ~Has(child', other)
    BY <2>2, <2>4, <2>5, OneVisitMore DEF Single
  <2>7. call'[c].pc # "create"
    BY <2>3, CallTyped DEF Call, Typed
  <2>8. ASSUME NEW d \in Caller, call'[d].pc = "create"
        PROVE  ~Has(child', call'[d].visit) \/ call'[d].visit \in raced
    <3>1. call[d].pc = "create" /\ call'[d].visit = call[d].visit /\ d # c
      BY <1>2, <2>1, <2>7, <2>8
    <3>2. \/ call[d].visit \in raced
          \/ call[d].visit # call[c].visit /\ ~Has(child, call[d].visit)
      BY <2>2, <3>1 DEF Single
    <3> QED BY <2>6, <3>1, <3>2
  <2> QED BY <1>2, <2>1, <2>2, <2>6, <2>8 DEF Single
<1>4. ASSUME Len(child') = Len(child)
      PROVE  Distinct(child', raced') /\ \A visit : ~Has(child, visit) => ~Has(child', visit)
  BY <1>0, <1>4, SameVisits DEF Single
<1>5. ASSUME AllKeep, Len(child') = Len(child) PROVE Single'
  BY <1>2, <1>4, <1>5 DEF Single
<1>6. ASSUME NEW c \in Caller, LaunchFind(c) PROVE Single'
  <2>0. child' = child
    BY <1>6 DEF LaunchFind
  <2>1. CASE call' = [call EXCEPT ![c] = Launched(c)]
    BY <1>5, <2>0, <2>1, ReportedKeeps, GoesKeep
  <2>2. ASSUME NEW visit, ~Already(visit), Creators(visit) = {} \/ visit \in raced',
               call' = [call EXCEPT ![c] = [call[c] EXCEPT !.pc = "create", !.visit = visit,
                                                           !.waiting = {}]]
        PROVE  Single'
    <3>1. /\ call'[c].visit = visit /\ call[c].pc = "find"
          /\ \A d \in Caller : d # c => call'[d] = call[d]
      BY <1>6, <2>2, CallTyped DEF Call, Typed, LaunchFind, At
    <3>2. ~Has(child, visit)
      BY <2>2, OneIsDistinct
    <3>3. \A d \in Caller :
            call'[d].pc = "create" => ~Has(child, call'[d].visit) \/ call'[d].visit \in raced'
      BY <3>1, <3>2 DEF Single
    <3>4. \A d \in Caller :
            d # c /\ call'[d].pc = "create" => call'[d].visit # visit \/ visit \in raced'
      BY <2>2, <3>1 DEF Creators
    <3>5. \A a, b \in Caller :
            a # b /\ call'[a].pc = "create" /\ call'[b].pc = "create" =>
              call'[b].visit # call'[a].visit \/ call'[a].visit \in raced'
      BY <3>1, <3>4 DEF Single
    <3>6. Distinct(child', raced')
      BY <1>4, <2>0
    <3> QED BY <2>0, <3>3, <3>5, <3>6 DEF Single
  <2> QED BY <1>6, <2>1, <2>2 DEF LaunchFind, Goes, Overlap
<1>7. ASSUME NEW c \in Caller, OperatorFind(c) \/ CascadeOne(c) PROVE Single'
  <2>1. call'[c].visit = call[c].visit /\ call'[c].pc # "create"
        /\ \A d \in Caller : d # c => call'[d] = call[d]
    <3>1. CASE OperatorFind(c)
      <4>1. PICK todo : call' = [call EXCEPT ![c] =
                          [call[c] EXCEPT !.pc = "cascade", !.listed = Len(child), !.todo = todo]]
        BY <3>1 DEF OperatorFind, Goes
      <4> QED BY <4>1, CallTyped DEF Call, Typed
    <3>2. CASE CascadeOne(c)
      <4>1. PICK todo : call' = [call EXCEPT ![c] = [call[c] EXCEPT !.todo = todo]]
        BY <3>2 DEF CascadeOne, Goes
      <4>2. call[c].pc = "cascade"
        BY <3>2 DEF CascadeOne, At
      <4> QED BY <4>1, <4>2, CallTyped DEF Call, Typed
    <3> QED BY <1>7, <3>1, <3>2
  <2>2. Len(child') = Len(child)
    BY <1>7, CascadeLasts DEF OperatorFind
  <2>3. \A d \in Caller : call'[d].visit = call[d].visit
                          /\ (call'[d].pc = "create" => call[d].pc = "create")
    BY <2>1
  <2> QED BY <1>4, <2>2, <2>3 DEF Single
<1> QED BY <1>0, <1>3, <1>5, <1>6, <1>7, PlacesStep

LEMMA SingleInit == Init => Single
<1> SUFFICES ASSUME Init PROVE Single
  OBVIOUS
<1>1. \A c \in Caller : call[c] \in {Free, Launching}
  BY DEF Init
<1>2. \A c \in Caller : call[c].visit = NoVisit /\ call[c].pc # "create"
  BY <1>1 DEF Free, Launching
<1>3. Len(child) = 0
  BY EmptySeq DEF Init
<1> QED BY <1>2, <1>3 DEF Single, Distinct

\* A visit of a call activity has one child, although the load, the look and
\* the creation are steps of their own that launches, reports, retries,
\* cancellations and deaths of other calls come between: it has a second one
\* only where a launch found none while another, which had found none either,
\* was about to create it.
THEOREM OneChildPerVisit == Spec => []OneChild
<1> DEFINE Inv == IInv /\ Single
<1>1. Init => Inv
  BY TypedInit, ListedInit, SingleInit DEF IInv, Init
<1>2. Inv /\ [Next]_vars => Inv'
  BY TypedStep, ListedStep, ReplayedStep, RacedStep, SingleStep DEF IInv
<1>3. Inv => OneChild
  BY OneIsDistinct DEF IInv, Single
<1> HIDE DEF Inv
<1> QED BY <1>1, <1>2, <1>3, PTL DEF Spec

-----------------------------------------------------------------------------
(* A token passes a call activity by its child alone.                      *)

\* Where a call r stands among the children kids and the tokens at a, as far as
\* nothing has led them astray: what it is about to report or to create belongs to
\* the node its token is at, and what it has found waiting is still there, or
\* has got its child.
Reporting(r) == r.pc \in {"wakeLoad", "wakeSave"}
Innermost(r) == r.stack[Len(r.stack)].child
Right(r, kids, a, out) ==
  /\ Reporting(r) /\ kids[Innermost(r)].token \notin out =>
       a[kids[Innermost(r)].token] = kids[Innermost(r)].node
  /\ r.pc = "create" /\ r.visit[1] \notin out => a[r.visit[1]] = r.visit[2]
  /\ \A visit \in r.waiting :
       visit[1] \notin out => a[visit[1]] = visit[2] \/ Has(kids, visit)

\* The token of a child that runs is at its node.
Attended(kids, a, out) ==
  \A k \in 1 .. Len(kids) :
    ~Over(kids[k].state) /\ kids[k].token \notin out => a[kids[k].token] = kids[k].node

\* No child is reported by two calls.
Apart(r, q) ==
  \A i \in 1 .. Len(r.stack), j \in 1 .. Len(q.stack) : r.stack[i].child # q.stack[j].child

\* A token with a task is at one.
AtTasks == \A t \in Token : tok[t] = "Task" => way[t][at[t]] = "task"

CallsStand ==
  /\ \A c \in Caller : Right(call[c], child, at, Astray)
  /\ \A c, d \in Caller : c # d => Apart(call[c], call[d])

Standing == AtTasks /\ PassedByChild /\ Attended(child, at, Astray) /\ CallsStand

\* A call that goes on with a part of what it had.
Less(r, q) ==
  /\ q.waiting \subseteq r.waiting
  /\ q.pc = "create" => r.pc = "create" /\ q.visit = r.visit
  /\ Reporting(q) => Reporting(r) /\ Len(q.stack) = Len(r.stack) /\ Len(r.stack) > 0
  /\ Len(q.stack) \in Nat /\ Len(q.stack) <= Len(r.stack)
  /\ \A i \in 1 .. Len(q.stack) : q.stack[i].child = r.stack[i].child

LEMMA LessRight ==
  ASSUME NEW r, NEW q, NEW kids, NEW a, NEW out, Less(r, q), Right(r, kids, a, out)
  PROVE  Right(q, kids, a, out)
<1>1. Reporting(q) => Reporting(r) /\ Innermost(q) = Innermost(r)
  BY DEF Less, Innermost
<1> QED BY <1>1 DEF Less, Right

LEMMA LessApart ==
  ASSUME NEW r, NEW q, NEW u, NEW v, Less(r, q), Less(u, v), Apart(r, u),
         Len(r.stack) \in Nat, Len(u.stack) \in Nat
  PROVE  Apart(q, v)
BY DEF Less, Apart

\* Children that are added or end change nothing for a call.
LEMMA RightLasts ==
  ASSUME NEW r, NEW w, NEW kids, NEW more, NEW s, NEW a, NEW out, NEW wider,
         CallOk(r, w, kids, s), Right(r, kids, a, out), Lasts(kids, more),
         Len(kids) \in Nat, Len(more) \in Nat, out \subseteq wider
  PROVE  Right(r, more, a, wider)
<1>1. \A visit : Has(kids, visit) => Has(more, visit)
  BY DEF Has, Lasts, VisitAt
<1>2. Reporting(r) => Innermost(r) \in 1 .. Len(kids)
  <2>1. Len(r.stack) \in Nat
    BY LenProperties DEF CallOk, Call
  <2> QED BY <2>1 DEF CallOk, Reporting, Innermost, Done
<1>3. Reporting(r) => /\ more[Innermost(r)].token = kids[Innermost(r)].token
                      /\ more[Innermost(r)].node = kids[Innermost(r)].node
  BY <1>2 DEF Lasts
<1> QED BY <1>1, <1>3 DEF Right

\* A call that holds no more than before, or holds nothing.
LEMMA SameLess ==
  ASSUME NEW r, NEW q, q.waiting \subseteq r.waiting, q.stack = r.stack, Len(r.stack) \in Nat,
         q.pc # "create", Reporting(q) => Reporting(r) /\ Len(r.stack) > 0
  PROVE  Less(r, q)
BY DEF Less

LEMMA FreeLess ==
  ASSUME NEW r, Len(r.stack) \in Nat
  PROVE  Less(r, Free) /\ Less(r, Launching)
<1>1. Len(<<>>) = 0
  BY EmptySeq
<1>2. /\ Free.stack = <<>> /\ Free.waiting = {} /\ Free.pc = "idle"
      /\ Launching.stack = <<>> /\ Launching.waiting = {} /\ Launching.pc = "launch"
  BY DEF Free, Launching
<1> QED BY <1>1, <1>2 DEF Less, Reporting

LEMMA ReportedLess ==
  ASSUME Typed, NEW c \in Caller
  PROVE  /\ Len(call[c].stack) > 0 => Less(call[c], Reported(c))
         /\ Less(call[c], Launched(c))
<1>0. call[c].stack \in Seq(Report) /\ Len(call[c].stack) \in Nat /\ call[c] \in Call
  BY CallTyped
<1>1. ASSUME Len(call[c].stack) > 0 PROVE Less(call[c], Reported(c))
  <2> DEFINE q == [call[c] EXCEPT !.pc = "launch", !.stack = Below(c)]
             m == Len(call[c].stack) - 1
  <2>1. /\ Below(c) = SubSeq(call[c].stack, 1, m) /\ m \in 0 .. Len(call[c].stack)
        /\ m \in Nat
    BY <1>0, <1>1 DEF Below
  <2>2. /\ Len(Below(c)) = m /\ \A i \in 1 .. m : Below(c)[i] = call[c].stack[i]
    BY <1>0, <2>1, StackCut
  <2>3. q.pc = "launch" /\ q.stack = Below(c) /\ q.waiting = call[c].waiting
    BY <1>0 DEF Call
  <2> HIDE DEF q
  <2>4. Less(call[c], q)
    BY <2>1, <2>2, <2>3 DEF Less, Reporting
  <2> QED BY <1>0, <2>4, FreeLess DEF Reported, q
<1>2. Less(call[c], Launched(c))
  <2>1. CASE call[c].stack = <<>>
    BY <1>0, <2>1, FreeLess DEF Launched
  <2>2. CASE call[c].stack # <<>>
    <3>1. Len(call[c].stack) > 0
      BY <1>0, <2>2, EmptySeq
    <3> QED BY <1>1, <2>2, <3>1 DEF Launched
  <2> QED BY <2>1, <2>2
<1> QED BY <1>1, <1>2

AllLess == \A d \in Caller : Less(call[d], call'[d])

LEMMA TurnsLess ==
  ASSUME Typed, NEW c \in Caller, NEW r \in Call, Less(call[c], r),
         \/ call' = [call EXCEPT ![c] = r]
         \/ call' = Stale([call EXCEPT ![c] = r])
  PROVE  AllLess
<1> SUFFICES ASSUME NEW d \in Caller PROVE Less(call[d], call'[d])
  BY DEF AllLess
<1> DEFINE q == IF d = c THEN r ELSE call[d]
<1>1. q \in Call /\ Less(call[d], q)
  <2>1. call[d] \in Call /\ Len(call[d].stack) \in Nat
    BY CallTyped
  <2>2. CallOk(call[d], way, child, tok)
    BY CallTyped
  <2>3. Less(call[d], call[d])
    BY <2>1, <2>2 DEF Less, Reporting, CallOk
  <2> QED BY <2>1, <2>3
<1>2. CASE call' = [call EXCEPT ![c] = r]
  BY <1>1, <1>2 DEF Typed
<1>3. CASE call' = Stale([call EXCEPT ![c] = r])
  <2>1. call'[d] = [q EXCEPT !.fresh = FALSE]
    BY <1>3 DEF Stale, Typed
  <2> HIDE DEF q
  <2>2. /\ call'[d].visit = q.visit /\ call'[d].pc = q.pc
        /\ call'[d].stack = q.stack /\ call'[d].waiting = q.waiting
    BY <1>1, <2>1 DEF Call
  <2> QED BY <1>1, <2>2 DEF Less, Reporting
<1> QED BY <1>2, <1>3

LEMMA NothingLess == ASSUME Typed, call' = call PROVE AllLess
<1>1. ASSUME NEW d \in Caller PROVE Less(call[d], call[d])
  <2>1. CallOk(call[d], way, child, tok) /\ Len(call[d].stack) \in Nat
    BY CallTyped
  <2> QED BY <2>1 DEF Less, Reporting, CallOk
<1> QED BY <1>1 DEF AllLess

\* Which actions leave every call with a part of what it had.
LEMMA LaunchesLess ==
  ASSUME Typed, NEW c \in Caller, LaunchRefused(c) \/ MarkLoad(c) \/ WakeLoad(c)
  PROVE  AllLess
<1>0. /\ call[c] \in Call /\ Len(call[c].stack) \in Nat
      /\ CallOk(call[c], way, child, tok)
  BY CallTyped
<1>1. CASE LaunchRefused(c)
  <2> DEFINE q == [call[c] EXCEPT !.pc = "markLoad"]
  <2>1. /\ q \in Call /\ q.pc = "markLoad" /\ q.stack = call[c].stack
        /\ q.waiting = call[c].waiting
    BY <1>0 DEF Call, PC
  <2>2. call' = [call EXCEPT ![c] = q]
    BY <1>1 DEF LaunchRefused, Goes
  <2> HIDE DEF q
  <2>3. Less(call[c], q)
    BY <1>0, <2>1, SameLess DEF Reporting
  <2> QED BY <2>1, <2>2, <2>3, TurnsLess
<1>2. CASE MarkLoad(c)
  <2> DEFINE q == [call[c] EXCEPT !.pc = "mark", !.fresh = TRUE]
  <2>1. /\ q \in Call /\ q.pc = "mark" /\ q.stack = call[c].stack
        /\ q.waiting = call[c].waiting
    BY <1>0 DEF Call, PC
  <2>2. call' = [call EXCEPT ![c] = q]
    BY <1>2 DEF MarkLoad, Goes
  <2> HIDE DEF q
  <2>3. Less(call[c], q)
    BY <1>0, <2>1, SameLess DEF Reporting
  <2> QED BY <2>1, <2>2, <2>3, TurnsLess
<1>3. CASE WakeLoad(c)
  <2> DEFINE q == [call[c] EXCEPT !.pc = "wakeSave", !.fresh = TRUE]
             r == IF tok[child[Top(c).child].token] = "Subflow" THEN q ELSE Reported(c)
  <2>0. call[c].pc = "wakeLoad" /\ Len(call[c].stack) > 0 /\ call[c].visit = NoVisit
    BY <1>0, <1>3 DEF WakeLoad, At, CallOk, Creating
  <2>1. /\ q \in Call /\ q.pc = "wakeSave" /\ q.stack = call[c].stack
        /\ q.waiting = call[c].waiting
    BY <1>0 DEF Call, PC
  <2>2. call' = [call EXCEPT ![c] = r]
    BY <1>3 DEF WakeLoad, Goes
  <2> HIDE DEF q
  <2>3. Less(call[c], q)
    BY <1>0, <2>0, <2>1, SameLess DEF Reporting
  <2>4. Reported(c) \in Call /\ Less(call[c], Reported(c))
    BY <1>0, <2>0, ReportedOk, ReportedLess DEF CallOk
  <2>5. r \in Call /\ Less(call[c], r)
    BY <2>1, <2>3, <2>4
  <2> HIDE DEF r
  <2> QED BY <2>2, <2>5, TurnsLess
<1> QED BY <1>1, <1>2, <1>3

LEMMA PeopleLess ==
  ASSUME Typed, NEW c \in Caller,
         \/ CompleteTask(c) \/ RetryIncident(c)
         \/ OperatorLoad(c) \/ CascadeFails(c) \/ Crash(c)
  PROVE  AllLess
<1>0. /\ Len(call[c].stack) \in Nat /\ Less(call[c], Free) /\ Less(call[c], Launching)
      /\ Free \in Call /\ Launching \in Call
  BY CallTyped, FreeLess, FreeKeeps
<1>1. CASE CompleteTask(c) \/ RetryIncident(c)
  <2>1. call' = Stale([call EXCEPT ![c] = Launching])
    BY <1>1 DEF CompleteTask, RetryIncident
  <2> QED BY <1>0, <2>1, TurnsLess
<1>2. CASE OperatorLoad(c)
  <2>1. PICK op \in Op :
          call' = [call EXCEPT ![c] = [Free EXCEPT !.pc = "opFind", !.op = op, !.fresh = TRUE]]
    BY <1>2 DEF OperatorLoad, Goes
  <2> DEFINE q == [Free EXCEPT !.pc = "opFind", !.op = op, !.fresh = TRUE]
  <2>2. q.pc = "opFind" /\ q.stack = <<>> /\ q.waiting = {} /\ q \in Call
    BY <1>0 DEF Free, Call, PC
  <2>3. call' = [call EXCEPT ![c] = q]
    BY <2>1
  <2> HIDE DEF q
  <2>4. Less(call[c], q)
    BY <1>0, <2>2, EmptySeq DEF Less, Reporting
  <2> QED BY <2>2, <2>3, <2>4, TurnsLess
<1>3. CASE CascadeFails(c) \/ Crash(c)
  BY <1>0, <1>3, TurnsLess DEF CascadeFails, Crash, Goes
<1> QED BY <1>1, <1>2, <1>3

LEMMA SavesLess ==
  ASSUME Typed, NEW c \in Caller,
         \/ call[c].fresh /\ (MarkSave(c) \/ WakeSave(c))
         \/ OperatorFind(c) \/ CascadeOne(c) \/ OperatorSave(c)
  PROVE  AllLess
<1>0. /\ call[c] \in Call /\ Len(call[c].stack) \in Nat
      /\ CallOk(call[c], way, child, tok)
      /\ Less(call[c], Free) /\ Free \in Call
  BY CallTyped, FreeLess, FreeKeeps
<1>1. CASE call[c].fresh /\ MarkSave(c)
  <2> DEFINE q == [call[c] EXCEPT !.pc = "launch", !.visit = NoVisit]
  <2>1. /\ q \in Call /\ q.pc = "launch" /\ q.stack = call[c].stack
        /\ q.waiting = call[c].waiting
    BY <1>0 DEF Call, PC
  <2>2. call' = Stale([call EXCEPT ![c] = q])
    BY <1>1 DEF MarkSave
  <2> HIDE DEF q
  <2>3. Less(call[c], q)
    BY <1>0, <2>1, SameLess DEF Reporting
  <2> QED BY <2>1, <2>2, <2>3, TurnsLess
<1>2. CASE call[c].fresh /\ WakeSave(c)
  <2> DEFINE q == [call[c] EXCEPT !.pc = "launch"]
             r == IF parent' = "Completed" THEN Reported(c) ELSE q
  <2>0. Len(call[c].stack) > 0 /\ call[c].visit = NoVisit
    BY <1>0, <1>2 DEF WakeSave, At, CallOk, Creating
  <2>1. /\ q \in Call /\ q.pc = "launch" /\ q.stack = call[c].stack
        /\ q.waiting = call[c].waiting
    BY <1>0 DEF Call, PC
  <2>2. call' = Stale([call EXCEPT ![c] = r])
    BY <1>2 DEF WakeSave
  <2> HIDE DEF q
  <2>3. Less(call[c], q)
    BY <1>0, <2>1, SameLess DEF Reporting
  <2>4. Reported(c) \in Call /\ Less(call[c], Reported(c))
    BY <1>0, <2>0, ReportedOk, ReportedLess DEF CallOk
  <2>5. r \in Call /\ Less(call[c], r)
    BY <2>1, <2>3, <2>4
  <2> HIDE DEF r
  <2> QED BY <2>2, <2>5, TurnsLess
<1>3. CASE OperatorFind(c)
  <2>1. PICK todo \in SUBSET Nat :
          call' = [call EXCEPT ![c] =
                     [call[c] EXCEPT !.pc = "cascade", !.listed = Len(child), !.todo = todo]]
    <3>1. {k \in DOMAIN child : Applies(call[c].op, child[k].state)} \in SUBSET Nat
      BY LenProperties DEF Typed
    <3> QED BY <1>3, <3>1 DEF OperatorFind, Goes
  <2> DEFINE q == [call[c] EXCEPT !.pc = "cascade", !.listed = Len(child), !.todo = todo]
  <2>2. /\ q \in Call /\ q.pc = "cascade" /\ q.stack = call[c].stack
        /\ q.waiting = call[c].waiting
    BY <1>0, CallTyped DEF Call, PC
  <2>3. call' = [call EXCEPT ![c] = q]
    BY <2>1
  <2> HIDE DEF q
  <2>4. Less(call[c], q)
    BY <1>0, <2>2, SameLess DEF Reporting
  <2> QED BY <2>2, <2>3, <2>4, TurnsLess
<1>4. CASE CascadeOne(c)
  <2>1. PICK k \in call[c].todo : call' = [call EXCEPT ![c] = [call[c] EXCEPT !.todo = @ \ {k}]]
    BY <1>4 DEF CascadeOne, Goes
  <2> DEFINE q == [call[c] EXCEPT !.todo = @ \ {k}]
  <2>2. /\ q \in Call /\ q.pc = "cascade" /\ q.stack = call[c].stack
        /\ q.waiting = call[c].waiting
    BY <1>0, <1>4 DEF Call, CascadeOne, At
  <2>3. call' = [call EXCEPT ![c] = q]
    BY <2>1
  <2> HIDE DEF q
  <2>4. Less(call[c], q)
    BY <1>0, <2>2, SameLess DEF Reporting
  <2> QED BY <2>2, <2>3, <2>4, TurnsLess
<1>5. CASE OperatorSave(c)
  <2>1. \/ call' = [call EXCEPT ![c] = Free]
        \/ call' = Stale([call EXCEPT ![c] = Free])
    BY <1>5 DEF OperatorSave, Goes
  <2> QED BY <1>0, <2>1, TurnsLess
<1> QED BY <1>1, <1>2, <1>3, <1>4, <1>5

LEMMA OtherLess == ASSUME Typed, OtherSave PROVE AllLess
<1>1. PICK c \in Caller : call[c].fresh
  BY DEF OtherSave
<1>2. call' = Stale([call EXCEPT ![c] = call[c]])
  BY DEF OtherSave, Typed, Stale
<1>3. call[c] \in Call /\ Len(call[c].stack) \in Nat /\ CallOk(call[c], way, child, tok)
  BY CallTyped
<1>4. Less(call[c], call[c])
  BY <1>3 DEF Less, Reporting, CallOk
<1> QED BY <1>2, <1>3, <1>4, TurnsLess

\* A step leaves every call with a part of what it had, or one call looks what
\* waits, finds, reports a child, or starts a report over.
LEMMA TurnsStep ==
  ASSUME Typed, [Next]_vars
  PROVE  \/ AllLess
         \/ \E c \in Caller : LaunchLoad(c) \/ LaunchFind(c) \/ LaunchCreate(c)
         \/ \E c \in Caller : CompleteChild(c)
         \/ \E c \in Caller : ~call[c].fresh /\ (MarkSave(c) \/ WakeSave(c))
<1>1. CASE UNCHANGED vars
  BY <1>1, NothingLess DEF vars
<1>2. ASSUME NEW c \in Caller, Step(c)
      PROVE  \/ AllLess \/ LaunchLoad(c) \/ LaunchFind(c) \/ LaunchCreate(c)
             \/ ~call[c].fresh /\ (MarkSave(c) \/ WakeSave(c))
  BY <1>2, LaunchesLess, SavesLess DEF Step
<1> QED BY <1>1, <1>2, PeopleLess, OtherLess DEF Next

\* Children are added and keep token and node; a completed one stays completed.
LEMMA GrowsStep ==
  ASSUME Typed, Listed, [Next]_vars
  PROVE  Grows(child, child')
<1>0. child \in Seq(Kid) /\ Len(child) \in Nat /\ DOMAIN child = 1 .. Len(child)
  BY LenProperties DEF Typed
<1>1. CASE child' = child
  BY <1>0, <1>1 DEF Grows
<1>2. ASSUME NEW c \in Caller, CompleteChild(c) PROVE Grows(child, child')
  <2>1. PICK k \in 1 .. Len(child) : /\ child[k].state = "Active"
                                     /\ child' = [child EXCEPT ![k].state = "Completed"]
    BY <1>0, <1>2 DEF CompleteChild
  <2> QED BY <2>1, Restated DEF InstanceState
<1>3. ASSUME NEW c \in Caller, CascadeOne(c) PROVE Grows(child, child')
  <2>1. PICK k \in call[c].todo :
          child' = IF Applies(call[c].op, child[k].state)
                   THEN [child EXCEPT ![k].state = Outcome[call[c].op]] ELSE child
    BY <1>3 DEF CascadeOne
  <2>2. k \in 1 .. Len(child)
    BY <1>0, <1>3, CallTyped DEF Listed, ListedBy, CascadeOne, At, Call
  <2> QED BY <2>1, <2>2, CascadeChild
<1>4. ASSUME NEW c \in Caller, LaunchCreate(c) PROVE Grows(child, child')
  <2>1. PICK s \in InstanceState :
          child' = Append(child, [token |-> call[c].visit[1], node |-> call[c].visit[2],
                                  state |-> s])
    BY <1>4 DEF LaunchCreate, InstanceState
  <2>2. call[c].visit \in CallVisits(way) /\ Len(child) < MaxChild
    BY <1>4, CallTyped DEF LaunchCreate, At, CallOk, Creating
  <2> QED BY <2>1, <2>2, Appended
<1>5. \/ child' = child
      \/ \E c \in Caller : CompleteChild(c) \/ CascadeOne(c) \/ LaunchCreate(c)
  BY DEF Next, Step, LaunchLoad, LaunchFind, LaunchRefused, MarkLoad, MarkSave, WakeLoad,
         WakeSave, OperatorFind, OperatorSave, CompleteTask, RetryIncident, OperatorLoad,
         CascadeFails, Crash, OtherSave, vars
<1> QED BY <1>1, <1>2, <1>3, <1>4, <1>5

\* Tokens stay where they are, or one with a task or a report to it moves on.
LEMMA TokensStep ==
  ASSUME Typed, [Next]_vars
  PROVE  /\ way' = way
         /\ \/ at' = at
            \/ \E c \in Caller, t \in Token :
                 /\ MoveOn(t) /\ child' = child /\ Astray' = Astray
                 /\ \/ CompleteTask(c) /\ tok[t] = "Task"
                    \/ WakeSave(c) /\ call[c].fresh /\ t = child[Innermost(call[c])].token
<1>1. ASSUME NEW c \in Caller, CompleteTask(c)
      PROVE  \E t \in Token : MoveOn(t) /\ tok[t] = "Task"
  BY <1>1 DEF CompleteTask
<1>2. ASSUME NEW c \in Caller, WakeSave(c), call[c].fresh
      PROVE  child[Innermost(call[c])].token \in Token /\ MoveOn(child[Innermost(call[c])].token)
  <2>0. call[c].pc = "wakeSave"
    BY <1>2 DEF WakeSave, At
  <2>1. Len(call[c].stack) > 0 /\ Done(child, Innermost(call[c]))
    BY <2>0, CallTyped DEF CallOk, Innermost
  <2>2. child[Innermost(call[c])] \in Kid
    BY <2>1, CallTyped, ElementOfSeq DEF Done
  <2>3. child[Innermost(call[c])].token \in Token
    BY <2>2 DEF Kid
  <2> QED BY <1>2, <2>3 DEF WakeSave, Top, Innermost
<1>3. way' = way
  BY DEF Next, Step, LaunchLoad, LaunchFind, LaunchCreate, LaunchRefused, MarkLoad, MarkSave,
         WakeLoad, WakeSave, OperatorFind, CascadeOne, OperatorSave, CompleteTask,
         RetryIncident, CompleteChild, OperatorLoad, CascadeFails, Crash, OtherSave, vars
<1>4. \/ at' = at
      \/ \E c \in Caller : CompleteTask(c)
      \/ \E c \in Caller : WakeSave(c) /\ call[c].fresh
  BY DEF Next, Step, LaunchLoad, LaunchFind, LaunchCreate, LaunchRefused, MarkLoad, MarkSave,
         WakeLoad, WakeSave, OperatorFind, CascadeOne, OperatorSave,
         RetryIncident, CompleteChild, OperatorLoad, CascadeFails, Crash, OtherSave, vars,
         aggregate
<1>5. \A c \in Caller : CompleteTask(c) => child' = child /\ Astray' = Astray
  BY DEF CompleteTask, Astray
<1>6. \A c \in Caller : WakeSave(c) /\ call[c].fresh => child' = child /\ Astray' = Astray
  BY DEF WakeSave, Astray
<1> QED BY <1>1, <1>2, <1>3, <1>4, <1>5, <1>6

\* A token with a task got it where it is, or had it.
LEMMA AtTasksStep ==
  ASSUME Typed, AtTasks, [Next]_vars
  PROVE  AtTasks'
<1>0. way' = way /\ \A t \in Token : at[t] \in 1 .. Len(way[t]) + 1 /\ Len(way[t]) \in Nat
  BY TokensStep, SubflowAssumption, LenProperties DEF Typed, Sits
<1>1. ASSUME NEW t \in Token, MoveOn(t) PROVE AtTasks'
  <2>1. /\ tok' = [tok EXCEPT ![t] = Parked(t, at[t] + 1)]
        /\ at' = [at EXCEPT ![t] = at[t] + 1]
    BY <1>1 DEF MoveOn
  <2>2. Parked(t, at[t] + 1) = "Task" => way[t][at[t] + 1] = "task"
    BY DEF Parked
  <2> QED BY <1>0, <2>1, <2>2 DEF AtTasks, Typed
<1>2. ASSUME at' = at, \A t \in Token : tok'[t] \in {tok[t], "Incident", "Ended", Parked(t, at[t])}
      PROVE  AtTasks'
  <2>1. \A t \in Token : Parked(t, at[t]) = "Task" => way[t][at[t]] = "task"
    BY DEF Parked
  <2> QED BY <1>0, <1>2, <2>1 DEF AtTasks
<1>3. ASSUME NEW c \in Caller, RetryIncident(c) PROVE AtTasks'
  BY <1>2, <1>3 DEF RetryIncident
<1>4. ASSUME NEW c \in Caller, MarkSave(c) PROVE AtTasks'
  <2>1. at' = at /\ \A t \in Token : tok'[t] \in {tok[t], "Incident"}
    BY <1>4 DEF MarkSave
  <2> QED BY <1>2, <2>1
<1>5. ASSUME NEW c \in Caller, OperatorSave(c) PROVE AtTasks'
  <2>1. at' = at /\ \A t \in Token : tok'[t] \in {tok[t], "Ended"}
    BY <1>5 DEF OperatorSave
  <2> QED BY <1>2, <2>1
<1>6. ASSUME NEW c \in Caller, CompleteTask(c) PROVE AtTasks'
  BY <1>1, <1>6 DEF CompleteTask
<1>7. ASSUME NEW c \in Caller, WakeSave(c) PROVE AtTasks'
  <2>1. CASE call[c].fresh
    <3>1. Len(call[c].stack) > 0
      BY <1>7, CallTyped DEF WakeSave, At, CallOk
    <3>2. Done(child, Top(c).child)
      BY <3>1, CallTyped DEF CallOk, Top
    <3>3. child[Top(c).child] \in Kid
      BY <3>2, CallTyped, ElementOfSeq DEF Done
    <3>4. child[Top(c).child].token \in Token
      BY <3>3 DEF Kid
    <3> QED BY <1>1, <1>7, <2>1, <3>4 DEF WakeSave
  <2>2. CASE ~call[c].fresh
    BY <1>0, <1>7, <2>2 DEF WakeSave, aggregate, AtTasks
  <2> QED BY <2>1, <2>2
<1>8. CASE at' = at /\ tok' = tok
  BY <1>0, <1>8 DEF AtTasks
<1>9. ASSUME NEW c \in Caller,
             \/ LaunchLoad(c) \/ LaunchFind(c) \/ LaunchCreate(c) \/ LaunchRefused(c)
             \/ MarkLoad(c) \/ WakeLoad(c) \/ OperatorFind(c) \/ CascadeOne(c)
             \/ CompleteChild(c) \/ OperatorLoad(c) \/ CascadeFails(c) \/ Crash(c)
      PROVE  AtTasks'
  <2>1. CASE LaunchLoad(c) \/ LaunchFind(c) \/ LaunchCreate(c) \/ LaunchRefused(c)
    BY <1>8, <2>1 DEF LaunchLoad, LaunchFind, LaunchCreate, LaunchRefused, aggregate
  <2>2. CASE MarkLoad(c) \/ WakeLoad(c) \/ OperatorFind(c) \/ CascadeOne(c)
    BY <1>8, <2>2 DEF MarkLoad, WakeLoad, OperatorFind, CascadeOne, aggregate
  <2>3. CASE CompleteChild(c) \/ OperatorLoad(c) \/ CascadeFails(c) \/ Crash(c)
    BY <1>8, <2>3 DEF CompleteChild, OperatorLoad, CascadeFails, Crash, aggregate
  <2> QED BY <1>9, <2>1, <2>2, <2>3
<1>10. CASE UNCHANGED vars \/ OtherSave
  BY <1>8, <1>10 DEF vars, OtherSave, aggregate
<1> HIDE DEF AtTasks
<1>11. ASSUME NEW c \in Caller, Step(c) PROVE AtTasks'
  BY <1>4, <1>5, <1>7, <1>9, <1>11 DEF Step
<1> QED BY <1>3, <1>6, <1>9, <1>10, <1>11 DEF Next

\* What has been passed by a completed child stays so.
LEMMA PassedStays ==
  ASSUME Typed, Typed', NEW t \in Token, way' = way, Grows(child, child'), at'[t] = at[t],
         Passed(t)
  PROVE  Passed(t)'
<1>0. /\ DOMAIN child = 1 .. Len(child) /\ DOMAIN child' = 1 .. Len(child')
      /\ Len(child) \in Nat /\ Len(child') \in Nat
      /\ \A k \in 1 .. Len(child') : child'[k] \in Kid
  BY LenProperties, ElementOfSeq DEF Typed
<1>1. ASSUME NEW n \in Nat, NEW k \in DOMAIN child,
             child[k] = [token |-> t, node |-> n, state |-> "Completed"]
      PROVE  k \in DOMAIN child' /\ child'[k] = [token |-> t, node |-> n, state |-> "Completed"]
  <2>1. k \in 1 .. Len(child') /\ child'[k].token = t /\ child'[k].node = n
        /\ child'[k].state = "Completed"
    BY <1>0, <1>1 DEF Grows
  <2>2. child'[k] \in Kid
    BY <1>0, <2>1
  <2>3. child'[k] = [token |-> child'[k].token, node |-> child'[k].node,
                     state |-> child'[k].state]
    BY <2>2 DEF Kid
  <2> QED BY <1>0, <2>1, <2>3
<1>2. at[t] \in Nat
  BY DEF Typed
<1>3. SUFFICES ASSUME NEW n \in 1 .. at[t] - 1, way[t][n] # "task"
               PROVE  \E k \in DOMAIN child' :
                        child'[k] = [token |-> t, node |-> n, state |-> "Completed"]
  BY DEF Passed
<1>4. PICK k \in DOMAIN child : child[k] = [token |-> t, node |-> n, state |-> "Completed"]
  BY <1>3 DEF Passed
<1> QED BY <1>1, <1>2, <1>4

\* A token that moves on has passed the node it was at as well.
LEMMA PassedOn ==
  ASSUME Typed, NEW t \in Token, way' = way, child' = child, MoveOn(t), Passed(t),
         way[t][at[t]] = "task" \/ \E k \in 1 .. Len(child) :
           child[k].token = t /\ child[k].node = at[t] /\ child[k].state = "Completed"
  PROVE  Passed(t)'
<1>1. at[t] \in Nat /\ at'[t] = at[t] + 1
  BY DEF Typed, MoveOn
<1>2. DOMAIN child = 1 .. Len(child) /\ \A k \in 1 .. Len(child) : child[k] \in Kid
  BY LenProperties, ElementOfSeq DEF Typed
<1>3. SUFFICES ASSUME NEW n \in 1 .. at[t], way[t][n] # "task"
               PROVE  \E k \in DOMAIN child :
                        child[k] = [token |-> t, node |-> n, state |-> "Completed"]
  BY <1>1 DEF Passed
<1>4. CASE n \in 1 .. at[t] - 1
  BY <1>3, <1>4 DEF Passed
<1>5. CASE n = at[t]
  <2>1. PICK k \in 1 .. Len(child) :
          child[k].token = t /\ child[k].node = n /\ child[k].state = "Completed"
    BY <1>3, <1>5
  <2>2. child[k] \in Kid
    BY <1>2
  <2>3. child[k] = [token |-> child[k].token, node |-> child[k].node, state |-> child[k].state]
    BY <2>2 DEF Kid
  <2> QED BY <1>2, <2>1, <2>3
<1> QED BY <1>1, <1>4, <1>5

\* What a token that moves on leaves behind, unless it has gone astray: a
\* task, or a call activity whose child is completed.
LEMMA Leaves ==
  ASSUME Typed, Standing, NEW c \in Caller, NEW t \in Token, t \notin Astray,
         \/ CompleteTask(c) /\ tok[t] = "Task"
         \/ WakeSave(c) /\ call[c].fresh /\ t = child[Innermost(call[c])].token
  PROVE  \/ way[t][at[t]] = "task"
         \/ /\ WakeSave(c) /\ Reporting(call[c]) /\ Innermost(call[c]) \in 1 .. Len(child)
            /\ child[Innermost(call[c])].token = t /\ child[Innermost(call[c])].node = at[t]
            /\ child[Innermost(call[c])].state = "Completed"
<1>1. CASE tok[t] = "Task"
  BY <1>1 DEF Standing, AtTasks
<1>2. CASE WakeSave(c) /\ t = child[Innermost(call[c])].token
  <2>1. call[c].pc = "wakeSave" /\ Reporting(call[c])
    BY <1>2 DEF WakeSave, At, Reporting
  <2>2. Len(call[c].stack) > 0 /\ Len(call[c].stack) \in Nat
    BY <2>1, CallTyped DEF CallOk
  <2>3. Done(child, Innermost(call[c]))
    BY <2>2, CallTyped DEF CallOk, Innermost
  <2>4. at[t] = child[Innermost(call[c])].node
    BY <1>2, <2>1 DEF Standing, CallsStand, Right
  <2> QED BY <1>2, <2>1, <2>3, <2>4 DEF Done
<1> QED BY <1>1, <1>2

\* The visit a child belongs to is of a call activity.
LEMMA KidsAtCalls ==
  ASSUME Typed, NEW k \in 1 .. Len(child)
  PROVE  /\ child[k] \in Kid /\ child[k].token \in Token /\ child[k].node \in Nat
         /\ way[child[k].token][child[k].node] # "task"
         /\ VisitAt(child, k) = <<child[k].token, child[k].node>>
<1>0. child \in Seq(Kid) /\ \A i \in 1 .. Len(child) : <<child[i].token, child[i].node>> \in CallVisits(way)
  BY LenProperties DEF Typed
<1>1. child[k] \in Kid
  BY <1>0, ElementOfSeq
<1>2. <<child[k].token, child[k].node>> \in CallVisits(way)
  BY DEF Typed
<1>3. way[child[k].token][child[k].node] # "task"
  BY <1>2 DEF CallVisits
<1>4. child[k].token \in Token /\ child[k].node \in Nat
  BY <1>1 DEF Kid
<1> QED BY <1>1, <1>3, <1>4 DEF VisitAt

LEMMA PassedStep ==
  ASSUME Typed, Typed', Listed, Standing, [Next]_vars, Astray \subseteq Astray'
  PROVE  PassedByChild'
<1>0. way' = way /\ Grows(child, child')
  BY TokensStep, GrowsStep
<1> SUFFICES ASSUME NEW u \in Token, u \notin Astray' PROVE Passed(u)'
  BY DEF PassedByChild
<1>1. Passed(u) /\ u \notin Astray
  BY DEF Standing, PassedByChild
<1>2. CASE at'[u] = at[u]
  BY <1>0, <1>1, <1>2, PassedStays
<1>3. ASSUME NEW c \in Caller, MoveOn(u), child' = child,
             \/ CompleteTask(c) /\ tok[u] = "Task"
             \/ WakeSave(c) /\ call[c].fresh /\ u = child[Innermost(call[c])].token
      PROVE  Passed(u)'
  <2>1. \/ way[u][at[u]] = "task"
        \/ \E k \in 1 .. Len(child) :
             child[k].token = u /\ child[k].node = at[u] /\ child[k].state = "Completed"
    BY <1>1, <1>3, Leaves
  <2> QED BY <1>0, <1>1, <1>3, <2>1, PassedOn
<1>4. at' = at => at'[u] = at[u]
  OBVIOUS
<1>5. \A t \in Token : MoveOn(t) /\ t # u => at'[u] = at[u]
  BY DEF MoveOn, Typed
<1> QED BY <1>2, <1>3, <1>4, <1>5, TokensStep

LEMMA AttendedStep ==
  ASSUME Typed, Typed', Listed, Single, Standing, [Next]_vars, Astray \subseteq Astray'
  PROVE  Attended(child', at', Astray')
<1>0. Lasts(child, child') /\ Len(child) \in Nat /\ Len(child') \in Nat
  BY KidsStep, CallTyped, LenProperties DEF Typed
<1> SUFFICES ASSUME NEW k \in 1 .. Len(child'), ~Over(child'[k].state),
                    child'[k].token \notin Astray'
             PROVE  at'[child'[k].token] = child'[k].node
  BY DEF Attended
<1>1. CASE k \in 1 .. Len(child)
  <2>1. /\ child'[k].token = child[k].token /\ child'[k].node = child[k].node
        /\ ~Over(child[k].state) /\ child[k].token \notin Astray
    BY <1>0, <1>1 DEF Lasts
  <2>2. at[child[k].token] = child[k].node
    BY <1>1, <2>1 DEF Standing, Attended
  <2>3. CASE at' = at
    BY <2>1, <2>2, <2>3
  <2>4. ASSUME NEW c \in Caller, NEW t \in Token, MoveOn(t),
               \/ CompleteTask(c) /\ tok[t] = "Task"
               \/ WakeSave(c) /\ call[c].fresh /\ t = child[Innermost(call[c])].token
        PROVE  at'[child[k].token] = at[child[k].token]
    <3>1. child[k].token # t
      <4> SUFFICES ASSUME child[k].token = t PROVE FALSE
        OBVIOUS
      <4>1. way[t][at[t]] # "task"
        BY <1>1, <2>2, KidsAtCalls
      <4>2. PICK j \in 1 .. Len(child) :
              child[j].token = t /\ child[j].node = at[t] /\ child[j].state = "Completed"
        BY <2>1, <2>4, <4>1, Leaves
      <4>3. VisitAt(child, j) = VisitAt(child, k)
        BY <2>2, <4>2 DEF VisitAt
      <4>4. j = k
        <5>1. VisitAt(child, k) \notin raced
          BY <2>1 DEF Astray, VisitAt
        <5> QED BY <1>1, <4>2, <4>3, <5>1 DEF Single, Distinct
      <4> QED BY <2>1, <4>2, <4>4 DEF Over
    <3>2. child[k].token \in Token
      BY <1>1, KidsAtCalls
    <3> QED BY <2>4, <3>1, <3>2 DEF MoveOn, Typed
  <2> QED BY <2>1, <2>2, <2>3, <2>4, TokensStep
<1>2. ASSUME NEW c \in Caller, LaunchCreate(c), k \notin 1 .. Len(child)
      PROVE  at'[child'[k].token] = child'[k].node
  <2>1. /\ call[c].pc = "create" /\ call[c].visit \in CallVisits(way) /\ Len(child) < MaxChild
        /\ at' = at
    BY <1>2, CallTyped DEF LaunchCreate, At, CallOk, Creating, aggregate
  <2>2. PICK s \in InstanceState :
          child' = Append(child, [token |-> call[c].visit[1], node |-> call[c].visit[2],
                                  state |-> s])
    BY <1>2 DEF LaunchCreate, InstanceState
  <2>3. Len(child') = Len(child) + 1
        /\ <<child'[Len(child) + 1].token, child'[Len(child) + 1].node>> = call[c].visit
    BY <2>1, <2>2, Appended
  <2>4. k = Len(child) + 1
    BY <1>0, <1>2, <2>3
  <2>5. child'[k].token = call[c].visit[1] /\ child'[k].node = call[c].visit[2]
    BY <2>3, <2>4
  <2>6. at[call[c].visit[1]] = call[c].visit[2]
    BY <2>1, <2>5 DEF Standing, CallsStand, Right
  <2> QED BY <2>1, <2>5, <2>6
<1> QED BY <1>1, <1>2, KidsStep


\* The calls, where tokens stay and where one moves.
LEMMA AllStand ==
  ASSUME Typed, Typed', Standing, AllLess, at' = at, Lasts(child, child'),
         Astray \subseteq Astray'
  PROVE  CallsStand'
<1>0. Len(child) \in Nat /\ Len(child') \in Nat
  BY CallTyped, LenProperties DEF Typed
<1>1. ASSUME NEW d \in Caller PROVE Right(call'[d], child', at', Astray')
  <2>1. CallOk(call[d], way, child, tok) /\ Right(call[d], child, at, Astray)
    BY CallTyped DEF Standing, CallsStand
  <2>2. Right(call[d], child', at, Astray')
    BY <1>0, <2>1, RightLasts
  <2> QED BY <2>2, LessRight DEF AllLess
<1>2. ASSUME NEW d \in Caller, NEW e \in Caller, d # e PROVE Apart(call'[d], call'[e])
  <2>1. Apart(call[d], call[e]) /\ Less(call[d], call'[d]) /\ Less(call[e], call'[e])
    BY <1>2 DEF Standing, CallsStand, AllLess
  <2>2. Len(call[d].stack) \in Nat /\ Len(call[e].stack) \in Nat
    BY CallTyped
  <2> QED BY <2>1, <2>2, LessApart
<1> QED BY <1>1, <1>2 DEF CallsStand

LEMMA OneStands ==
  ASSUME Typed, Typed', Standing, NEW c \in Caller, NEW r, call' = [call EXCEPT ![c] = r],
         at' = at, Lasts(child, child'), Astray \subseteq Astray',
         Right(r, child', at, Astray'), \A d \in Caller : d # c => Apart(r, call[d])
  PROVE  CallsStand'
<1>0. Len(child) \in Nat /\ Len(child') \in Nat
  BY CallTyped, LenProperties DEF Typed
<1>1. call'[c] = r /\ \A d \in Caller : d # c => call'[d] = call[d]
  BY DEF Typed
<1>2. ASSUME NEW d \in Caller PROVE Right(call'[d], child', at', Astray')
  <2>1. CallOk(call[d], way, child, tok) /\ Right(call[d], child, at, Astray)
    BY CallTyped DEF Standing, CallsStand
  <2>2. Right(call[d], child', at, Astray')
    BY <1>0, <2>1, RightLasts
  <2> QED BY <1>1, <2>2
<1>3. ASSUME NEW d \in Caller, NEW e \in Caller, d # e PROVE Apart(call'[d], call'[e])
  <2>1. CASE d = c
    BY <1>1, <1>3, <2>1
  <2>2. CASE e = c
    <3>1. Apart(r, call[d])
      BY <1>3, <2>2
    <3> QED BY <1>1, <1>3, <2>2, <3>1 DEF Apart
  <2>3. CASE d # c /\ e # c
    BY <1>1, <1>3, <2>3 DEF Standing, CallsStand
  <2> QED BY <2>1, <2>2, <2>3
<1> QED BY <1>2, <1>3 DEF CallsStand

LEMMA MovedStands ==
  ASSUME Typed, Typed', Single, Standing, NEW c \in Caller, NEW t \in Token, MoveOn(t),
         child' = child, Astray' = Astray,
         \/ CompleteTask(c) /\ tok[t] = "Task"
         \/ WakeSave(c) /\ call[c].fresh /\ t = child[Innermost(call[c])].token
  PROVE  CallsStand'
<1>1. AllLess
  BY PeopleLess, SavesLess
<1>2. \A u \in Token : u # t => at'[u] = at[u]
  BY DEF MoveOn, Typed
<1>3. WakeSave(c) /\ call[c].fresh => ~Reporting(call'[c])
  <2> SUFFICES ASSUME WakeSave(c), call[c].fresh PROVE ~Reporting(call'[c])
    OBVIOUS
  <2> DEFINE q == [call[c] EXCEPT !.pc = "launch"]
             r == IF parent' = "Completed" THEN Reported(c) ELSE q
  <2>1. q.pc = "launch" /\ q \in Call
    BY CallTyped DEF Call, PC
  <2>2. Reported(c).pc \in {"idle", "launch"} /\ Reported(c) \in Call
    <3>1. Len(call[c].stack) > 0 /\ call[c].visit = NoVisit
      BY CallTyped DEF WakeSave, At, CallOk, Creating
    <3>2. Reported(c) \in Call
      BY <3>1, CallTyped, ReportedOk DEF CallOk
    <3> QED BY <3>2, CallTyped DEF Reported, Free, Call
  <2>3. call' = Stale([call EXCEPT ![c] = r])
    BY DEF WakeSave
  <2> HIDE DEF q
  <2>4. r \in Call /\ r.pc \in {"idle", "launch"}
    BY <2>1, <2>2
  <2> HIDE DEF r
  <2>5. call'[c] = [r EXCEPT !.fresh = FALSE]
    BY <2>3 DEF Stale, Typed
  <2> QED BY <2>4, <2>5 DEF Call, Reporting
<1>4. ASSUME NEW d \in Caller PROVE Right(call'[d], child, at', Astray)
  <2> DEFINE q == call'[d]
  <2>0. /\ Less(call[d], q) /\ Right(call[d], child, at, Astray)
        /\ CallOk(call[d], way, child, tok) /\ Len(call[d].stack) \in Nat
    BY <1>1, CallTyped DEF AllLess, Standing, CallsStand
  <2>1. Right(q, child, at, Astray)
    BY <2>0, LessRight
  <2>2. Reporting(q) /\ child[Innermost(q)].token \notin Astray =>
          at'[child[Innermost(q)].token] = child[Innermost(q)].node
    <3> SUFFICES ASSUME Reporting(q), child[Innermost(q)].token \notin Astray
                 PROVE  at'[child[Innermost(q)].token] = child[Innermost(q)].node
      OBVIOUS
    <3> DEFINE k == Innermost(q)
    <3>1. at[child[k].token] = child[k].node
      BY <2>1 DEF Right
    <3>2. Reporting(call[d]) /\ k = Innermost(call[d]) /\ Len(call[d].stack) > 0
      BY <2>0 DEF Less, Innermost
    <3>3. Done(child, k)
      BY <2>0, <3>2 DEF CallOk, Innermost
    <3>4. k \in 1 .. Len(child) /\ child[k].token \in Token
      BY <3>3, KidsAtCalls DEF Done
    <3> HIDE DEF k
    <3>5. child[k].token # t
      <4> SUFFICES ASSUME child[k].token = t PROVE FALSE
        OBVIOUS
      <4>1. way[t][at[t]] # "task" /\ t \notin Astray
        BY <3>1, <3>4, KidsAtCalls DEF k
      <4> DEFINE j == Innermost(call[c])
      <4>2. /\ WakeSave(c) /\ Reporting(call[c]) /\ j \in 1 .. Len(child)
            /\ child[j].token = t /\ child[j].node = at[t]
        BY <4>1, Leaves
      <4> HIDE DEF j
      <4>3. VisitAt(child, j) = VisitAt(child, k)
        BY <3>1, <4>2 DEF VisitAt
      <4>4. j = k
        <5>1. VisitAt(child, k) \notin raced
          BY <4>1 DEF Astray, VisitAt
        <5> QED BY <3>4, <4>2, <4>3, <5>1 DEF Single, Distinct
      <4>5. CASE d = c
        <5>1. call[c].fresh
          BY <4>2 DEF WakeSave, CompleteTask, At
        <5> QED BY <1>3, <4>2, <4>5, <5>1
      <4>6. CASE d # c
        <5>1. Apart(call[c], call[d])
          BY <4>6 DEF Standing, CallsStand
        <5>2. Len(call[c].stack) > 0 /\ Len(call[c].stack) \in Nat
          BY <4>2, CallTyped DEF CallOk, Reporting
        <5>3. j = call[c].stack[Len(call[c].stack)].child
          BY DEF j, Innermost
        <5>4. k = call[d].stack[Len(call[d].stack)].child /\ Len(call[d].stack) > 0
          BY <3>2 DEF Innermost
        <5>5. /\ Len(call[c].stack) \in 1 .. Len(call[c].stack)
              /\ Len(call[d].stack) \in 1 .. Len(call[d].stack)
          BY <2>0, <5>2, <5>4
        <5> QED BY <4>4, <5>1, <5>3, <5>4, <5>5 DEF Apart
      <4> QED BY <4>5, <4>6
    <3> QED BY <1>2, <3>1, <3>4, <3>5 DEF k
  <2>3. q.pc = "create" /\ q.visit[1] \notin Astray => at'[q.visit[1]] = q.visit[2]
    <3> SUFFICES ASSUME q.pc = "create", q.visit[1] \notin Astray
                 PROVE  at'[q.visit[1]] = q.visit[2]
      OBVIOUS
    <3> DEFINE visit == q.visit
    <3>1. at[visit[1]] = visit[2]
      BY <2>1 DEF Right
    <3>2. call[d].pc = "create" /\ visit = call[d].visit
      BY <2>0 DEF Less
    <3>3. visit \in CallVisits(way) /\ ~Has(child, visit)
      <4>1. visit \notin raced
        BY DEF Astray
      <4> QED BY <3>2, <4>1, CreatesAtVisit DEF Single
    <3>4. visit[1] \in Token /\ visit = <<visit[1], visit[2]>>
          /\ way[visit[1]][visit[2]] # "task"
      BY <3>3 DEF CallVisits, Visit
    <3> HIDE DEF visit
    <3>5. visit[1] # t
      <4> SUFFICES ASSUME visit[1] = t PROVE FALSE
        OBVIOUS
      <4>1. way[t][at[t]] # "task" /\ t \notin Astray
        BY <3>1, <3>4 DEF visit
      <4>2. PICK j \in 1 .. Len(child) : child[j].token = t /\ child[j].node = at[t]
        BY <4>1, Leaves
      <4>3. VisitAt(child, j) = visit
        BY <3>1, <3>4, <4>2 DEF VisitAt
      <4> QED BY <3>3, <4>2, <4>3 DEF Has
    <3> QED BY <1>2, <3>1, <3>4, <3>5 DEF visit
  <2>4. ASSUME NEW visit \in q.waiting, visit[1] \notin Astray
        PROVE  at'[visit[1]] = visit[2] \/ Has(child, visit)
    <3>1. visit \in call[d].waiting
      BY <2>0 DEF Less
    <3>2. visit \in CallVisits(way)
      BY <2>0, <3>1 DEF CallOk
    <3>3. visit[1] \in Token /\ visit = <<visit[1], visit[2]>>
          /\ way[visit[1]][visit[2]] # "task"
      BY <3>2 DEF CallVisits, Visit
    <3>4. at[visit[1]] = visit[2] \/ Has(child, visit)
      BY <2>1, <2>4 DEF Right
    <3>5. CASE visit[1] = t /\ at[t] = visit[2]
      <4>1. PICK j \in 1 .. Len(child) : child[j].token = t /\ child[j].node = at[t]
        BY <2>4, <3>3, <3>5, Leaves
      <4>2. VisitAt(child, j) = visit
        BY <3>3, <3>5, <4>1 DEF VisitAt
      <4> QED BY <4>1, <4>2 DEF Has
    <3>6. CASE visit[1] # t
      BY <1>2, <3>3, <3>4, <3>6
    <3> QED BY <3>4, <3>5, <3>6
  <2> HIDE DEF q
  <2>5. Right(q, child, at', Astray)
    BY <2>2, <2>3, <2>4 DEF Right
  <2> QED BY <2>5 DEF q
<1>5. ASSUME NEW d \in Caller, NEW e \in Caller, d # e PROVE Apart(call'[d], call'[e])
  <2>1. Apart(call[d], call[e]) /\ Less(call[d], call'[d]) /\ Less(call[e], call'[e])
    BY <1>1, <1>5 DEF Standing, CallsStand, AllLess
  <2>2. Len(call[d].stack) \in Nat /\ Len(call[e].stack) \in Nat
    BY CallTyped
  <2> QED BY <2>1, <2>2, LessApart
<1> QED BY <1>4, <1>5 DEF CallsStand

\* A call that looks what waits, finds a visit without a child, creates one,
\* reports one, or starts a report over.
LEMMA SearchStands ==
  ASSUME Typed, Typed', Listed, Standing, NEW c \in Caller, LaunchLoad(c) \/ LaunchFind(c)
  PROVE  CallsStand'
<1>0. /\ call[c] \in Call /\ CallOk(call[c], way, child, tok) /\ Len(call[c].stack) \in Nat
      /\ Right(call[c], child, at, Astray) /\ Len(child) \in Nat
      /\ \A d \in Caller : d # c => Apart(call[c], call[d])
  BY CallTyped DEF Standing, CallsStand
<1>1. at' = at /\ child' = child /\ Astray \subseteq Astray' /\ Lasts(child, child')
  <2>1. at' = at /\ child' = child /\ Astray \subseteq Astray'
    BY DEF LaunchLoad, LaunchFind, Overlap, aggregate, Astray
  <2>2. Lasts(child, child)
    BY <1>0 DEF Lasts
  <2> QED BY <2>1, <2>2
<1>2. call[c].visit = NoVisit
  BY <1>0 DEF LaunchLoad, LaunchFind, At, CallOk, Creating
<1>3. CASE call' = [call EXCEPT ![c] = Launched(c)]
  <2>1. Launched(c) \in Call /\ Less(call[c], Launched(c))
    BY <1>0, <1>2, LaunchedOk, ReportedLess DEF CallOk
  <2> QED BY <1>1, <1>3, <2>1, TurnsLess, AllStand
<1>4. CASE call' = [call EXCEPT ![c] = [call[c] EXCEPT !.pc = "find", !.waiting = Waiting]]
  <2> DEFINE q == [call[c] EXCEPT !.pc = "find", !.waiting = Waiting]
  <2>1. q.pc = "find" /\ q.stack = call[c].stack /\ q.waiting = Waiting
    BY <1>0 DEF Call
  <2>2. call' = [call EXCEPT ![c] = q]
    BY <1>4
  <2> HIDE DEF q
  <2>3. \A visit \in Waiting : at[visit[1]] = visit[2]
    BY DEF Waiting
  <2>4. Right(q, child, at, Astray')
    BY <1>1, <2>1, <2>3 DEF Right, Reporting
  <2>5. \A d \in Caller : d # c => Apart(q, call[d])
    BY <1>0, <2>1 DEF Apart
  <2> QED BY <1>1, <2>2, <2>4, <2>5, OneStands
<1>5. ASSUME NEW visit \in call[c].waiting, ~Already(visit),
             call' = [call EXCEPT ![c] = [call[c] EXCEPT !.pc = "create", !.visit = visit,
                                                         !.waiting = {}]]
      PROVE  CallsStand'
  <2> DEFINE q == [call[c] EXCEPT !.pc = "create", !.visit = visit, !.waiting = {}]
  <2>1. q.pc = "create" /\ q.stack = call[c].stack /\ q.waiting = {} /\ q.visit = visit
    BY <1>0 DEF Call
  <2>2. call' = [call EXCEPT ![c] = q]
    BY <1>5
  <2> HIDE DEF q
  <2>3. visit[1] \notin Astray => at[visit[1]] = visit[2]
    BY <1>0, <1>5, OneIsDistinct DEF Right
  <2>4. Right(q, child, at, Astray')
    BY <1>1, <2>1, <2>3 DEF Right, Reporting
  <2>5. \A d \in Caller : d # c => Apart(q, call[d])
    BY <1>0, <2>1 DEF Apart
  <2> QED BY <1>1, <2>2, <2>4, <2>5, OneStands
<1>6. CASE LaunchLoad(c)
  BY <1>3, <1>4, <1>6 DEF LaunchLoad, Goes
<1>7. CASE LaunchFind(c)
  <2>1. \/ call' = [call EXCEPT ![c] = Launched(c)]
        \/ \E visit \in call[c].waiting :
             /\ ~Already(visit)
             /\ call' = [call EXCEPT ![c] = [call[c] EXCEPT !.pc = "create", !.visit = visit,
                                                            !.waiting = {}]]
    BY <1>7 DEF LaunchFind, Goes
  <2> QED BY <1>3, <1>5, <2>1
<1> QED BY <1>6, <1>7

LEMMA CreateStands ==
  ASSUME Typed, Typed', Listed, Standing, NEW c \in Caller, LaunchCreate(c), [Next]_vars
  PROVE  CallsStand'
<1> DEFINE visit == call[c].visit
           st == call[c].stack
<1>0. /\ call[c] \in Call /\ CallOk(call[c], way, child, tok) /\ Len(st) \in Nat
      /\ Right(call[c], child, at, Astray) /\ Len(child) \in Nat /\ st \in Seq(Report)
  BY CallTyped DEF Standing, CallsStand
<1>1. call[c].pc = "create" /\ visit \in CallVisits(way) /\ at' = at /\ Astray' = Astray
      /\ Len(child) < MaxChild
  BY CallTyped DEF LaunchCreate, At, CallOk, Creating, aggregate, Astray
<1>2. PICK s \in {"Active", "Completed"} :
        /\ child' = Append(child, [token |-> visit[1], node |-> visit[2], state |-> s])
        /\ call' = [call EXCEPT ![c] =
             IF Finished(s)
             THEN [call[c] EXCEPT !.pc = "wakeLoad", !.visit = NoVisit,
                     !.stack = Append(@, [child |-> Len(child) + 1, attempt |-> 1])]
             ELSE [call[c] EXCEPT !.pc = "launch", !.visit = NoVisit]]
  BY DEF LaunchCreate, Goes
<1>3. /\ Len(child') = Len(child) + 1
      /\ <<child'[Len(child) + 1].token, child'[Len(child) + 1].node>> = visit
  <2>1. s \in InstanceState
    BY DEF InstanceState
  <2>2. child' = Append(child, [token |-> visit[1], node |-> visit[2], state |-> s])
    BY <1>2
  <2> HIDE DEF visit
  <2> QED BY <1>1, <2>1, <2>2, Appended
<1>4. Lasts(child, child')
  BY KidsStep
<1>5. CASE Finished(s)
  <2> DEFINE rep == [child |-> Len(child) + 1, attempt |-> 1]
             q == [call[c] EXCEPT !.pc = "wakeLoad", !.visit = NoVisit,
                                  !.stack = Append(st, rep)]
  <2>1. rep \in Report /\ rep.child = Len(child) + 1
    BY <1>0 DEF Report
  <2>2. call' = [call EXCEPT ![c] = q]
    BY <1>2, <1>5
  <2> HIDE DEF rep
  <2>3. /\ Append(st, rep) \in Seq(Report) /\ Len(Append(st, rep)) = Len(st) + 1
        /\ \A i \in 1 .. Len(st) : Append(st, rep)[i] = st[i]
        /\ Append(st, rep)[Len(st) + 1] = rep
    BY <1>0, <2>1, AppendProperties
  <2>4. q.pc = "wakeLoad" /\ q.waiting = call[c].waiting /\ q.stack = Append(st, rep)
    BY <1>0 DEF Call
  <2> HIDE DEF q
  <2>5. Innermost(q) = Len(child) + 1
    BY <2>1, <2>3, <2>4 DEF Innermost
  <2>6. Right(call[c], child', at, Astray)
    BY <1>0, <1>3, <1>4, RightLasts
  <2>7. /\ child'[Len(child) + 1].token = visit[1] /\ child'[Len(child) + 1].node = visit[2]
        /\ visit[1] \notin Astray => at[visit[1]] = visit[2]
    BY <1>0, <1>1, <1>3 DEF Right
  <2>8. Right(q, child', at, Astray)
    BY <2>4, <2>5, <2>6, <2>7 DEF Right, Reporting
  <2>9. ASSUME NEW d \in Caller, d # c PROVE Apart(q, call[d])
    <3>1. Apart(call[c], call[d])
      BY <2>9 DEF Standing, CallsStand
    <3>2. \A j \in 1 .. Len(call[d].stack) : Done(child, call[d].stack[j].child)
      BY CallTyped DEF CallOk
    <3>3. \A i \in 1 .. Len(q.stack) : i \in 1 .. Len(st) \/ i = Len(st) + 1
      BY <1>0, <2>3, <2>4
    <3>4. \A j \in 1 .. Len(call[d].stack) : call[d].stack[j].child # Len(child) + 1
      BY <1>0, <3>2 DEF Done
    <3> QED BY <2>1, <2>3, <2>4, <3>1, <3>3, <3>4 DEF Apart
  <2> QED BY <1>1, <1>4, <2>2, <2>8, <2>9, OneStands
<1>6. CASE ~Finished(s)
  <2> DEFINE q == [call[c] EXCEPT !.pc = "launch", !.visit = NoVisit]
  <2>1. /\ q \in Call /\ q.pc = "launch" /\ q.stack = st /\ q.waiting = call[c].waiting
    BY <1>0 DEF Call, PC
  <2>2. call' = [call EXCEPT ![c] = q]
    BY <1>2, <1>6
  <2> HIDE DEF q
  <2>3. Less(call[c], q)
    BY <1>0, <2>1, SameLess DEF Reporting
  <2> QED BY <1>1, <1>4, <2>1, <2>2, <2>3, TurnsLess, AllStand
<1> QED BY <1>5, <1>6

LEMMA ReportStands ==
  ASSUME Typed, Typed', Listed, Standing, NEW c \in Caller, CompleteChild(c), [Next]_vars
  PROVE  CallsStand'
<1>0. DOMAIN child = 1 .. Len(child) /\ Len(child) \in Nat
  BY LenProperties DEF Typed
<1>1. PICK k \in 1 .. Len(child) :
        /\ child[k].state = "Active"
        /\ child' = [child EXCEPT ![k].state = "Completed"]
        /\ call' = [call EXCEPT ![c] = [Free EXCEPT !.pc = "wakeLoad", !.root = "child",
                               !.stack = <<[child |-> k, attempt |-> 1]>>]]
  BY <1>0 DEF CompleteChild, Goes
<1> DEFINE st == <<[child |-> k, attempt |-> 1]>>
           q == [Free EXCEPT !.pc = "wakeLoad", !.root = "child", !.stack = st]
<1>2. Len(st) = 1 /\ st[1].child = k
  OBVIOUS
<1>3. q.pc = "wakeLoad" /\ q.stack = st /\ q.waiting = {}
  <2> HIDE DEF st
  <2> QED BY DEF Free
<1>4. call' = [call EXCEPT ![c] = q]
  BY <1>1
<1> HIDE DEF q, st
<1>5. at' = at /\ Astray' = Astray /\ Lasts(child, child')
  BY KidsStep DEF CompleteChild, aggregate, Astray
<1>6. Innermost(q) = k
  BY <1>2, <1>3 DEF Innermost
<1>7. child'[k].token = child[k].token /\ child'[k].node = child[k].node
  BY <1>5 DEF Lasts
<1>8. child[k].token \notin Astray => at[child[k].token] = child[k].node
  BY <1>1 DEF Standing, Attended, Over
<1>9. Right(q, child', at, Astray)
  BY <1>3, <1>6, <1>7, <1>8 DEF Right, Reporting
<1>10. ASSUME NEW d \in Caller PROVE Apart(q, call[d])
  <2>1. \A j \in 1 .. Len(call[d].stack) : Done(child, call[d].stack[j].child)
    BY CallTyped DEF CallOk
  <2>2. \A j \in 1 .. Len(call[d].stack) : call[d].stack[j].child # k
    BY <1>1, <2>1 DEF Done
  <2>3. \A i \in 1 .. Len(q.stack) : q.stack[i].child = k
    <3>1. \A i \in 1 .. 1 : i = 1
      OBVIOUS
    <3> QED BY <1>2, <1>3, <3>1
  <2> QED BY <2>2, <2>3 DEF Apart
<1> QED BY <1>4, <1>5, <1>9, <1>10, OneStands

LEMMA ConflictStands ==
  ASSUME Typed, Typed', Listed, Standing, NEW c \in Caller, ~call[c].fresh,
         MarkSave(c) \/ WakeSave(c)
  PROVE  CallsStand'
<1>0. /\ call[c] \in Call /\ CallOk(call[c], way, child, tok) /\ Len(call[c].stack) \in Nat
      /\ Right(call[c], child, at, Astray) /\ Len(child) \in Nat
      /\ \A d \in Caller : d # c => Apart(call[c], call[d])
      /\ call[c].pc \in {"mark", "wakeSave"}
  BY CallTyped DEF Standing, CallsStand, MarkSave, WakeSave, At
<1>1. Conflict(c) /\ at' = at /\ child' = child /\ Lasts(child, child') /\ raced' = raced
  BY <1>0 DEF MarkSave, WakeSave, aggregate, Lasts
<1>2. PICK up \in 0 .. Len(call[c].stack) :
        /\ up = 0 => call' = [call EXCEPT ![c] = Free] /\ replayed' = replayed
        /\ up # 0 => StartsOver(c, up)
  BY <1>1, Restarts
<1>3. CASE up = 0
  <2>1. Less(call[c], Free) /\ Free \in Call
    BY <1>0, FreeLess, FreeKeeps
  <2>2. Astray \subseteq Astray'
    BY <1>1, <1>2, <1>3 DEF Astray
  <2> QED BY <1>1, <1>2, <1>3, <2>1, <2>2, TurnsLess, AllStand
<1>4. CASE up # 0
  <2>1. PICK q \in Call :
          /\ call' = [call EXCEPT ![c] = q]
          /\ q.pc = "wakeLoad" /\ q.waiting = call[c].waiting
          /\ Len(q.stack) = up /\ \A i \in 1 .. up : q.stack[i].child = call[c].stack[i].child
          /\ replayed' = IF up < Len(call[c].stack) \/ call[c].pc = "mark"
                         THEN replayed \cup {child[call[c].stack[up].child].token} ELSE replayed
    BY <1>2, <1>4 DEF StartsOver
  <2>2. up \in 1 .. Len(call[c].stack) /\ Innermost(q) = call[c].stack[up].child
    BY <1>0, <1>2, <1>4, <2>1 DEF Innermost
  <2>3. Astray \subseteq Astray'
    BY <1>1, <2>1 DEF Astray
  <2>4. child[Innermost(q)].token \notin Astray' =>
          at[child[Innermost(q)].token] = child[Innermost(q)].node
    <3> SUFFICES ASSUME child[Innermost(q)].token \notin Astray'
                 PROVE  at[child[Innermost(q)].token] = child[Innermost(q)].node
      OBVIOUS
    <3>1. up = Len(call[c].stack) /\ call[c].pc = "wakeSave"
      <4>1. child[Innermost(q)].token \notin replayed'
        BY DEF Astray
      <4> QED BY <1>0, <2>1, <2>2, <4>1
    <3>2. Innermost(q) = Innermost(call[c]) /\ Reporting(call[c])
      BY <2>2, <3>1 DEF Innermost, Reporting
    <3> QED BY <1>0, <2>3, <3>2 DEF Right
  <2>5. Right(q, child', at, Astray')
    BY <1>0, <1>1, <2>1, <2>3, <2>4 DEF Right
  <2>6. ASSUME NEW d \in Caller, d # c PROVE Apart(q, call[d])
    <3>1. Apart(call[c], call[d])
      BY <1>0, <2>6
    <3>2. \A i \in 1 .. up : i \in 1 .. Len(call[c].stack)
      BY <1>0, <2>2
    <3> QED BY <2>1, <3>1, <3>2 DEF Apart
  <2> QED BY <1>1, <2>1, <2>3, <2>5, <2>6, OneStands
<1> QED BY <1>3, <1>4

LEMMA StandingStep ==
  ASSUME Typed, Typed', Listed, Single, Standing, [Next]_vars, Astray \subseteq Astray'
  PROVE  Standing'
<1>1. AtTasks' /\ PassedByChild' /\ Attended(child', at', Astray')
  BY AtTasksStep, PassedStep, AttendedStep DEF Standing
<1>2. Lasts(child, child')
  BY KidsStep
<1>3. ASSUME at' = at PROVE CallsStand'
  <2>1. ASSUME AllLess PROVE CallsStand'
    BY <1>2, <1>3, <2>1, AllStand
  <2>2. ASSUME NEW c \in Caller, LaunchLoad(c) \/ LaunchFind(c) PROVE CallsStand'
    BY <2>2, SearchStands
  <2>3. ASSUME NEW c \in Caller, LaunchCreate(c) PROVE CallsStand'
    BY <2>3, CreateStands
  <2>4. ASSUME NEW c \in Caller, CompleteChild(c) PROVE CallsStand'
    BY <2>4, ReportStands
  <2>5. ASSUME NEW c \in Caller, ~call[c].fresh, MarkSave(c) \/ WakeSave(c) PROVE CallsStand'
    BY <2>5, ConflictStands
  <2>6. \/ AllLess
        \/ \E c \in Caller : LaunchLoad(c) \/ LaunchFind(c) \/ LaunchCreate(c)
        \/ \E c \in Caller : CompleteChild(c)
        \/ \E c \in Caller : ~call[c].fresh /\ (MarkSave(c) \/ WakeSave(c))
    BY TurnsStep
  <2> QED BY <2>1, <2>2, <2>3, <2>4, <2>5, <2>6
<1>4. ASSUME NEW c \in Caller, NEW t \in Token, MoveOn(t), child' = child, Astray' = Astray,
             \/ CompleteTask(c) /\ tok[t] = "Task"
             \/ WakeSave(c) /\ call[c].fresh /\ t = child[Innermost(call[c])].token
      PROVE  CallsStand'
  BY <1>4, MovedStands
<1>5. CallsStand'
  <2>1. \/ at' = at
        \/ \E c \in Caller, t \in Token :
             /\ MoveOn(t) /\ child' = child /\ Astray' = Astray
             /\ \/ CompleteTask(c) /\ tok[t] = "Task"
                \/ WakeSave(c) /\ call[c].fresh /\ t = child[Innermost(call[c])].token
    BY TokensStep
  <2> QED BY <1>3, <1>4, <2>1
<1> QED BY <1>1, <1>5 DEF Standing

LEMMA StandingInit == Init => Standing
<1> SUFFICES ASSUME Init PROVE Standing
  OBVIOUS
<1>1. child = <<>> /\ Len(child) = 0 /\ \A t \in Token : at[t] = 1 /\ tok[t] = Parked(t, 1)
  BY EmptySeq DEF Init
<1>2. AtTasks
  BY <1>1 DEF AtTasks, Parked
<1>3. PassedByChild
  BY <1>1 DEF PassedByChild, Passed
<1>4. Attended(child, at, Astray)
  BY <1>1 DEF Attended
<1>5. \A c \in Caller : call[c] \in {Free, Launching}
  BY DEF Init
<1>6. \A c \in Caller : /\ call[c].stack = <<>> /\ call[c].waiting = {}
                        /\ call[c].pc \in {"idle", "launch"}
  BY <1>5 DEF Free, Launching
<1>7. CallsStand
  BY <1>6, EmptySeq DEF CallsStand, Right, Reporting, Apart
<1> QED BY <1>2, <1>3, <1>4, <1>7 DEF Standing

\* A token leaves a call activity only when the child launched there is
\* completed, for any number of callers, tokens and call activities, whatever is
\* refused, retried, completed or cancelled meanwhile, wherever calls die, and
\* however launches overlap.  The ways past one without its child are two: a
\* conflict made the report of a child of this token start over after it had
\* moved it, or two launches overlapped at a visit of this token.
THEOREM PassedOnlyByChild == Spec => []PassedByChild
<1> DEFINE Inv == IInv /\ Single /\ Standing
<1>1. Init => Inv
  BY TypedInit, ListedInit, SingleInit, StandingInit DEF IInv, Init
<1>2. Inv /\ [Next]_vars => Inv'
  BY TypedStep, ListedStep, ReplayedStep, RacedStep, AstrayStep, SingleStep, StandingStep DEF IInv
<1>3. Inv => PassedByChild
  BY DEF Standing
<1> HIDE DEF Inv
<1> QED BY <1>1, <1>2, <1>3, PTL DEF Spec

\* Where no way has more than one call activity, a token passes it by its child
\* alone, and the replay of a report changes nothing: launches may overlap, and
\* every report may start over at any time.
OneCallEach ==
  \A w \in Ways : \A t \in Token : \A m, n \in 1 .. Len(w[t]) :
    w[t][m] # "task" /\ w[t][n] # "task" => m = n

THEOREM OneCallConverges == OneCallEach => (Spec => []ReplayConverges)
<1> SUFFICES ASSUME OneCallEach PROVE Spec => []ReplayConverges
  OBVIOUS
<1> DEFINE Inv == IInv /\ AtTasks /\ ReplayConverges
<1>1. Init => Inv
  BY TypedInit, ListedInit, StandingInit DEF IInv, Init, Standing, ReplayConverges, Passed
<1>2. Inv /\ [Next]_vars => Inv'
  <2> SUFFICES ASSUME Inv, [Next]_vars PROVE Inv'
    OBVIOUS
  <2>1. IInv' /\ AtTasks' /\ Typed /\ Typed'
    BY TypedStep, ListedStep, ReplayedStep, RacedStep, AtTasksStep DEF IInv
  <2>2. way' = way /\ Grows(child, child')
    BY TokensStep, GrowsStep DEF IInv
  <2>3. ASSUME NEW u \in Token PROVE Passed(u)'
    <3>1. Passed(u)
      BY DEF ReplayConverges
    <3>2. CASE at'[u] = at[u]
      BY <2>1, <2>2, <3>1, <3>2, PassedStays
    <3>3. ASSUME NEW c \in Caller, MoveOn(u), child' = child,
                 \/ CompleteTask(c) /\ tok[u] = "Task"
                 \/ WakeSave(c) /\ call[c].fresh /\ u = child[Innermost(call[c])].token
          PROVE  Passed(u)'
      <4>1. CASE tok[u] = "Task"
        <5>1. way[u][at[u]] = "task"
          BY <4>1 DEF AtTasks
        <5> QED BY <2>1, <2>2, <3>1, <3>3, <5>1, PassedOn
      <4>2. CASE WakeSave(c) /\ call[c].fresh /\ u = child[Innermost(call[c])].token
        <5> DEFINE k == Innermost(call[c])
        <5>1. Len(call[c].stack) > 0 /\ Len(call[c].stack) \in Nat
              /\ call[c].pc = "wakeSave"
          BY <2>1, <4>2, CallTyped DEF WakeSave, At, CallOk
        <5>2. Done(child, k) /\ tok[u] = "Subflow"
          BY <2>1, <4>2, <5>1, CallTyped DEF CallOk, Innermost
        <5> HIDE DEF k
        <5>3. k \in 1 .. Len(child) /\ child[k].state = "Completed"
          BY <5>2 DEF Done
        <5>4. <<child[k].token, child[k].node>> \in CallVisits(way)
          BY <2>1, <5>3 DEF Typed
        <5>5. child[k].node \in 1 .. Len(way[u]) /\ way[u][child[k].node] # "task"
          BY <4>2, <5>4 DEF CallVisits, k
        <5>6. at[u] \in 1 .. Len(way[u]) /\ way[u][at[u]] # "task"
          <6>1. Len(way[u]) \in Nat
            BY <2>1, SubflowAssumption, LenProperties DEF Typed
          <6> QED BY <2>1, <5>2, <6>1 DEF Typed, Sits
        <5>7. child[k].node = at[u]
          BY <2>1, <5>5, <5>6 DEF OneCallEach, Typed
        <5> QED BY <2>1, <2>2, <3>1, <3>3, <4>2, <5>3, <5>7, PassedOn DEF k
      <4> QED BY <3>3, <4>1, <4>2
    <3>4. at' = at => at'[u] = at[u]
      OBVIOUS
    <3>5. \A t \in Token : MoveOn(t) /\ t # u => at'[u] = at[u]
      BY <2>1 DEF MoveOn, Typed
    <3> QED BY <2>1, <3>2, <3>3, <3>4, <3>5, TokensStep
  <2> QED BY <2>1, <2>3 DEF ReplayConverges
<1>3. Inv => ReplayConverges
  OBVIOUS
<1> HIDE DEF Inv
<1> QED BY <1>1, <1>2, <1>3, PTL DEF Spec

=============================================================================
