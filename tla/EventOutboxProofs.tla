-------------------------- MODULE EventOutboxProofs --------------------------
(***************************************************************************)
(* The outbox keeps the order of each subscriber's rows and settles a row  *)
(* for good, for any subscribers, workers, bounds and leases.              *)
(*                                                                         *)
(* The order rests on the claim alone: when a row is claimed every emitted *)
(* row before it was settled, and what was once settled is remembered,     *)
(* whatever the claim's task is overtaken by until it tells the row.       *)
(***************************************************************************)
EXTENDS EventOutbox, TLAPS

\* Rows are written in the order of their numbers, each for a subscriber.
Written ==
  \A r \in Row :
    /\ r >= next => row[r] = NoRow /\ r \notin closed
    /\ r < next => row[r].state # "NONE" /\ row[r].sub \in Sub /\ row[r].source # "none"

\* What does not wait was settled, but for the audit rows of tests.
Accounted ==
  \A r \in Row :
    r < next /\ row[r].source # "test" => row[r].state \in Waiting \/ r \in closed

\* Nobody holds a row out of flight.
Unheld == \A r \in Row : row[r].state # "IN_FLIGHT" => row[r].by = Nobody

\* The audit row of a test is done from the start, and at most purged.
Audits ==
  \A r \in Row : row[r].source = "test" => row[r].state \in {"DONE", "PURGED"}

\* A row some task has yet to tell comes after settled rows only.
Turn ==
  \A t \in task : \A r \in t.rows :
    r < next /\ row[r].source # "test" /\ Follows(r) \subseteq closed

IInv == TypeOK /\ Written /\ Accounted /\ Unheld /\ Audits /\ Turn

-----------------------------------------------------------------------------

RowType == [sub : Sub \cup {Nobody}, source : {"none", "emit", "rebuild", "test"},
            state : State, tries : Nat, by : Worker \cup {Nobody}, clock : 0 .. LeaseTicks]

TaskOK(t) ==
  /\ t.worker \in Worker
  /\ t.rows \subseteq Row /\ t.rows # {}
  /\ t.tries \in [Row -> Nat]
  /\ {t.known, t.waited} \subseteq BOOLEAN
  /\ t.outcome \in {"none", "ok", "retry", "fatal"}

LEMMA InitInv == Init => IInv
<1> SUFFICES ASSUME Init PROVE IInv
  OBVIOUS
<1>1. NoRow \in RowType /\ NoRow.state = "NONE" /\ NoRow.by = Nobody
  BY OutboxAssumption DEF NoRow, RowType, State
<1>2. \A r \in Row : row[r] = NoRow /\ r >= next
  BY DEF Init, Row
<1>3. TypeOK
  <2>1. row \in [Row -> RowType]
    BY <1>1 DEF Init
  <2>2. next \in 1 .. MaxRow + 1 /\ faults \in 0 .. Faults /\ orders \in 0 .. Orders
    BY OutboxAssumption DEF Init
  <2> QED
    BY <2>1, <2>2 DEF Init, TypeOK, RowType
<1>4. Written /\ Accounted /\ Unheld /\ Audits /\ Turn
  BY <1>1, <1>2 DEF Init, Written, Accounted, Unheld, Audits, Turn, Row, NoRow
<1> QED
  BY <1>3, <1>4 DEF IInv

-----------------------------------------------------------------------------
(* Steps of three kinds.                                                   *)

\* Nothing of rows and their history changes and tasks get no rows.
LEMMA KeepsRows ==
  ASSUME IInv, TypeOK', UNCHANGED <<row, next, closed>>,
         \A t \in task' : \E old \in task : t.rows \subseteq old.rows
  PROVE  IInv'
<1>1. Written' /\ Accounted' /\ Unheld' /\ Audits'
  BY DEF IInv, Written, Accounted, Unheld, Audits
<1>2. \A r \in Row : Follows(r)' = Follows(r)
  BY DEF Follows
<1>3. Turn'
  <2> SUFFICES ASSUME NEW t \in task', NEW r \in t.rows
               PROVE  (r < next /\ row[r].source # "test" /\ Follows(r) \subseteq closed)'
    BY DEF Turn
  <2>1. PICK old \in task : t.rows \subseteq old.rows
    OBVIOUS
  <2>2. r \in Row /\ r < next /\ row[r].source # "test" /\ Follows(r) \subseteq closed
    BY <2>1 DEF IInv, Turn, TypeOK
  <2> QED
    BY <1>2, <2>2
<1> QED
  BY <1>1, <1>3 DEF IInv

\* The written rows change but for whom they are and where they come from;
\* what stops waiting is remembered.
LEMMA ChangesRows ==
  ASSUME IInv, TypeOK', next' = next, closed \subseteq closed',
         \A r \in Row : r >= next => row'[r] = row[r] /\ r \notin closed',
         \A r \in Row :
           /\ row'[r].sub = row[r].sub /\ row'[r].source = row[r].source
           /\ row[r].state # "NONE" => row'[r].state # "NONE"
           /\ row[r].state \in Waiting => row'[r].state \in Waiting \/ r \in closed'
           /\ row[r].state \in {"DONE", "PURGED"} => row'[r].state \in {"DONE", "PURGED"},
         \A r \in Row : row'[r].state # "IN_FLIGHT" => row'[r].by = Nobody,
         \A t \in task' : \A r \in t.rows :
           \/ \E old \in task : r \in old.rows
           \/ r < next /\ row[r].source # "test" /\ Follows(r) \subseteq closed
  PROVE  IInv'
<1>1. Written' /\ Unheld' /\ Audits'
  BY DEF IInv, Written, Unheld, Audits
<1>2. Accounted'
  BY DEF IInv, Accounted
<1>3. \A r \in Row : Follows(r)' = Follows(r)
  BY DEF Follows
<1>4. Turn'
  <2> SUFFICES ASSUME NEW t \in task', NEW r \in t.rows
               PROVE  (r < next /\ row[r].source # "test" /\ Follows(r) \subseteq closed)'
    BY DEF Turn
  <2>1. r \in Row
    BY DEF TypeOK
  <2>2. r < next /\ row[r].source # "test" /\ Follows(r) \subseteq closed
    BY <2>1 DEF IInv, Turn
  <2> QED
    BY <1>3, <2>1, <2>2
<1> QED
  BY <1>1, <1>2, <1>4 DEF IInv

\* One row is written.
LEMMA InsertInv ==
  ASSUME IInv, NEW s \in Sub, NEW source \in {"emit", "rebuild", "test"},
         NEW state \in {"PENDING", "DONE"}, state = "DONE" <=> source = "test",
         InsertDelivery(s, source, state), orders' \in 0 .. Orders,
         UNCHANGED <<sub, routes, task, phase, failed, faults, told, closed>>
  PROVE  IInv'
<1> DEFINE new == [NoRow EXCEPT !.sub = s, !.source = source, !.state = state]
<1>1. /\ new \in RowType /\ new.sub = s /\ new.source = source /\ new.state = state
      /\ new.by = Nobody
  <2>1. NoRow \in RowType /\ NoRow.by = Nobody
    BY OutboxAssumption DEF NoRow, RowType, State
  <2>2. s \in Sub \cup {Nobody} /\ state \in State
        /\ source \in {"none", "emit", "rebuild", "test"}
    BY DEF State
  <2> QED
    BY <2>1, <2>2 DEF RowType
<1>2. next \in Row /\ next' = next + 1 /\ next \in Nat /\ next' \in 1 .. MaxRow + 1
  BY OutboxAssumption DEF InsertDelivery, IInv, TypeOK, Row
<1>3. row \in [Row -> RowType] /\ row' = [row EXCEPT ![next] = new]
  BY DEF InsertDelivery, IInv, TypeOK, RowType
<1> HIDE DEF new
<1>4. /\ row' \in [Row -> RowType] /\ row'[next] = new
      /\ \A r \in Row : r # next => row'[r] = row[r]
  BY <1>1, <1>2, <1>3
<1>5. \A r \in Row : r \in Nat /\ (r < next' <=> r < next \/ r = next)
  BY <1>2 DEF Row
<1>6. TypeOK'
  BY <1>2, <1>4 DEF IInv, TypeOK, RowType
<1>7. Written'
  BY <1>1, <1>2, <1>4, <1>5 DEF IInv, Written
<1>8. Accounted'
  BY <1>1, <1>2, <1>4, <1>5 DEF IInv, Accounted, Waiting
<1>9. Unheld' /\ Audits'
  BY <1>1, <1>2, <1>4 DEF IInv, Unheld, Audits
<1>10. Turn'
  <2> SUFFICES ASSUME NEW t \in task, NEW r \in t.rows
               PROVE  (r < next /\ row[r].source # "test" /\ Follows(r) \subseteq closed)'
    BY DEF Turn
  <2>1. r \in Row /\ r < next /\ row[r].source # "test" /\ Follows(r) \subseteq closed
    BY DEF IInv, Turn, TypeOK
  <2>2. Follows(r)' = Follows(r)
    <3> HIDE DEF Row
    <3>0. \A q \in Row : q \in Nat
      BY <1>5
    <3>1. \A q \in Row : q < r => q # next
      BY <1>2, <2>1, <3>0
    <3>2. row'[r] = row[r] /\ \A q \in Row : q < r => row'[q] = row[q]
      BY <1>2, <1>4, <2>1, <3>1
    <3> QED
      BY <3>2 DEF Follows
  <2> QED
    BY <1>4, <1>5, <2>1, <2>2
<1> QED
  BY <1>6, <1>7, <1>8, <1>9, <1>10 DEF IInv

-----------------------------------------------------------------------------
(* The steps.                                                              *)

\* A row that is released, settled, skipped or purged keeps its type.
LEMMA RowTyped ==
  ASSUME TypeOK, NEW r \in Row, NEW state \in State
  PROVE  /\ row[r] \in RowType
         /\ [row[r] EXCEPT !.state = state] \in RowType
         /\ [Released(r) EXCEPT !.state = state] \in RowType
         /\ [Released(r) EXCEPT !.state = state, !.tries = 0] \in RowType
         /\ [Released(r) EXCEPT !.state = state, !.clock = 1] \in RowType
<1>1. row[r] \in RowType
  BY DEF TypeOK, RowType
<1>2. 0 \in 0 .. LeaseTicks /\ 1 \in 0 .. LeaseTicks
  BY OutboxAssumption
<1> QED
  BY <1>1, <1>2 DEF RowType, Released

\* What a task writes to its row: it is settled, or waits for its next try.
LEMMA SettledTyped ==
  ASSUME TypeOK, NEW t \in task, NEW r \in Row, t.outcome # "none"
  PROVE  /\ Settled(t, r) \in RowType
         /\ Settled(t, r).by = Nobody
         /\ Settled(t, r).state \in {"PENDING", "DONE", "DEAD"}
         /\ Settled(t, r).sub = row[r].sub /\ Settled(t, r).source = row[r].source
<1>1. row[r] \in RowType
  BY DEF TypeOK, RowType
<1>2. t.outcome \in {"ok", "retry", "fatal"}
  BY DEF TypeOK
<1>3. \A state \in {"PENDING", "DONE", "DEAD"} :
        /\ [Released(r) EXCEPT !.state = state] \in RowType
        /\ [Released(r) EXCEPT !.state = state, !.clock = 1] \in RowType
  BY RowTyped DEF State
<1>4. Settled(t, r) \in {[Released(r) EXCEPT !.state = "DONE"],
                         [Released(r) EXCEPT !.state = "DEAD"],
                         [Released(r) EXCEPT !.state = "PENDING", !.clock = 1]}
  BY <1>2 DEF Settled, FinishDone, FinishDead, FinishRetryOrDead
<1>5. Released(r).by = Nobody /\ Released(r).sub = row[r].sub
      /\ Released(r).source = row[r].source
  BY <1>1 DEF Released, RowType
<1> QED
  BY <1>1, <1>3, <1>4, <1>5 DEF Released, RowType

\* A renewal moves clocks only.
LEMMA RenewedTyped ==
  ASSUME NEW rows \in [Row -> RowType], NEW w \in Worker
  PROVE  /\ Renewed(rows, w) \in [Row -> RowType]
         /\ \A r \in Row :
              /\ Renewed(rows, w)[r].state = rows[r].state
              /\ Renewed(rows, w)[r].sub = rows[r].sub
              /\ Renewed(rows, w)[r].source = rows[r].source
              /\ Renewed(rows, w)[r].by = rows[r].by
              /\ rows[r].state # "IN_FLIGHT" => Renewed(rows, w)[r] = rows[r]
<1>1. LeaseTicks \in 0 .. LeaseTicks
  BY OutboxAssumption
<1>2. \A r \in Row : rows[r] \in RowType
                     /\ [rows[r] EXCEPT !.clock = LeaseTicks] \in RowType
  BY <1>1 DEF RowType
<1> QED
  BY <1>2 DEF Renewed, RowType

LEMMA EmitInv ==
  ASSUME IInv, NEW s \in Sub,
         EmitToOutbox(s) \/ RebuildSubscriber(s) \/ TestSubscriber(s)
  PROVE  IInv'
<1>1. orders' \in 0 .. Orders
  BY OutboxAssumption
  DEF EmitToOutbox, RebuildSubscriber, TestSubscriber, Order, IInv, TypeOK
<1> QED
  BY <1>1, InsertInv DEF EmitToOutbox, RebuildSubscriber, TestSubscriber

LEMMA SubscribersInv ==
  ASSUME IInv,
         \/ \E s \in Sub : SetSubscriberActive(s) \/ DeleteSubscriber(s)
         \/ RefreshRoutes
  PROVE  IInv'
<1>1. UNCHANGED <<row, next, task, phase, failed, faults, told, closed>>
  BY DEF SetSubscriberActive, DeleteSubscriber, RefreshRoutes
<1>2. orders' \in 0 .. Orders
  BY OutboxAssumption
  DEF SetSubscriberActive, DeleteSubscriber, RefreshRoutes, Order, IInv, TypeOK
<1>3. routes' \subseteq Sub
  BY DEF SetSubscriberActive, DeleteSubscriber, RefreshRoutes, IInv, TypeOK
<1>4. sub' \in [Sub -> {"active", "inactive", "gone"}]
  BY DEF SetSubscriberActive, DeleteSubscriber, RefreshRoutes, IInv, TypeOK
<1>5. TypeOK'
  BY <1>1, <1>2, <1>3, <1>4 DEF IInv, TypeOK
<1> QED
  BY <1>1, <1>5, KeepsRows

LEMMA ClaimInv ==
  ASSUME IInv, NEW w \in Worker, Claim(w)
  PROVE  IInv'
<1> DEFINE held(r) == [row[r] EXCEPT !.state = "IN_FLIGHT", !.by = w,
                                     !.clock = LeaseTicks, !.tries = @ + 1]
           group(s, ok) ==
             [worker |-> w, rows |-> {r \in Claimed : row[r].sub = s},
              tries |-> [r \in Row |-> IF r \in Claimed THEN row[r].tries + 1 ELSE 0],
              known |-> ok /\ sub[s] # "gone", waited |-> TRUE, outcome |-> "none"]
<1>1. /\ TypeOK /\ Claimed \subseteq Row
      /\ \A r \in Row : row[r] \in RowType
      /\ \A r \in Claimed : row[r].state \in Waiting /\ ~Blocked(r)
  BY DEF IInv, TypeOK, RowType, Claimed, Claimable
<1>2. row' = [r \in Row |-> IF r \in Claimed THEN held(r) ELSE row[r]]
  BY DEF Claim
<1>3. \A r \in Row :
        /\ held(r) \in RowType /\ held(r).state = "IN_FLIGHT"
        /\ held(r).sub = row[r].sub /\ held(r).source = row[r].source
  <2>1. LeaseTicks \in 0 .. LeaseTicks /\ "IN_FLIGHT" \in State
    BY OutboxAssumption DEF State
  <2> SUFFICES ASSUME NEW r \in Row
               PROVE  /\ held(r) \in RowType /\ held(r).state = "IN_FLIGHT"
                      /\ held(r).sub = row[r].sub /\ held(r).source = row[r].source
    OBVIOUS
  <2>2. row[r] \in RowType /\ row[r].tries + 1 \in Nat
    BY <1>1 DEF RowType
  <2> QED
    BY <2>1, <2>2 DEF RowType
<1>4. PICK ok \in BOOLEAN :
        /\ IF ok THEN faults' = faults ELSE Fault
        /\ task' = task \cup {group(s, ok) : s \in {row[r].sub : r \in Claimed}}
  BY Zenon DEF Claim
<1>5. \A s \in {row[r].sub : r \in Claimed} : TaskOK(group(s, ok))
  BY <1>1 DEF TaskOK, RowType
<1>6. \A s : group(s, ok).rows \subseteq Claimed
  OBVIOUS
<1> HIDE DEF held, group
<1>7. /\ row' \in [Row -> RowType]
      /\ \A r \in Claimed : row'[r] = held(r)
      /\ \A r \in Row : r \notin Claimed => row'[r] = row[r]
  BY <1>1, <1>2, <1>3
<1>8. TypeOK'
  <2>1. \A t \in task' : TaskOK(t)
    BY <1>1, <1>4, <1>5 DEF TypeOK, TaskOK
  <2>2. faults' \in 0 .. Faults
    BY <1>1, <1>4, OutboxAssumption DEF Fault, TypeOK
  <2> QED
    BY <1>1, <1>7, <2>1, <2>2 DEF Claim, TypeOK, TaskOK, RowType
<1>9. \A r \in Claimed : r < next /\ row[r].source # "test" /\ Follows(r) \subseteq closed
  <2> SUFFICES ASSUME NEW r \in Claimed
               PROVE  r < next /\ row[r].source # "test" /\ Follows(r) \subseteq closed
    OBVIOUS
  <2>1. r < next /\ row[r].source # "test"
    BY <1>1 DEF IInv, Written, Audits, NoRow, Waiting, TypeOK, Row
  <2>2. ASSUME NEW q \in Follows(r) PROVE q \in closed
    <3>1. q \in Row /\ q < r /\ row[q].sub = row[r].sub /\ row[q].source = "emit"
      BY <2>2 DEF Follows
    <3>2. row[q].state \notin Waiting
      BY <1>1, <3>1 DEF Blocked
    <3>3. q < next
      BY <1>1, <2>1, <3>1 DEF TypeOK, Row
    <3> QED
      BY <3>1, <3>2, <3>3 DEF IInv, Accounted
  <2> QED
    BY <2>1, <2>2
<1>10. \A t \in task' : \A r \in t.rows :
         \/ \E old \in task : r \in old.rows
         \/ r < next /\ row[r].source # "test" /\ Follows(r) \subseteq closed
  BY <1>4, <1>6, <1>9
<1>11. \A r \in Row :
         /\ r >= next => r \notin Claimed
         /\ row'[r].sub = row[r].sub /\ row'[r].source = row[r].source
         /\ r \in Claimed => row[r].state \in Waiting /\ row'[r].state = "IN_FLIGHT"
  BY <1>1, <1>3, <1>7, <1>9 DEF TypeOK, Row
<1>12. UNCHANGED <<next, closed>>
  BY DEF Claim
<1>13. \A r \in Row : row'[r].state # "IN_FLIGHT" => row'[r].by = Nobody
  BY <1>7, <1>11 DEF IInv, Unheld
<1>14. \A r \in Row :
         /\ r >= next => row'[r] = row[r] /\ r \notin closed'
         /\ row[r].state # "NONE" => row'[r].state # "NONE"
         /\ row[r].state \in Waiting => row'[r].state \in Waiting \/ r \in closed'
         /\ row[r].state \in {"DONE", "PURGED"} => row'[r].state \in {"DONE", "PURGED"}
  BY <1>7, <1>11, <1>12 DEF IInv, Written, Waiting
<1> QED
  BY <1>8, <1>10, <1>11, <1>12, <1>13, <1>14, ChangesRows

\* A task that reaches a subscriber, gives up or is no longer waited for.
LEMMA TasksInv ==
  ASSUME IInv,
         \/ \E t \in task, r \in Row : Dispatch(t, r) \/ GiveUp(t, r)
         \/ \E w \in Worker : EndBatch(w) \/ Crash(w)
  PROVE  IInv'
<1>1. TypeOK /\ \A t \in task : TaskOK(t)
  BY DEF IInv, TypeOK, TaskOK
<1>2. ASSUME NEW t \in task, NEW r \in Row, Dispatch(t, r)
      PROVE  IInv'
  <2>1. PICK outcome \in {"ok", "retry", "fatal"} :
          task' = (task \ {t}) \cup {[t EXCEPT !.outcome = outcome]}
    BY <1>2 DEF Dispatch
  <2> DEFINE new == [t EXCEPT !.outcome = outcome]
  <2>2. TaskOK(new) /\ new.rows = t.rows /\ task' = (task \ {t}) \cup {new}
    BY <1>1, <2>1 DEF TaskOK
  <2> HIDE DEF new
  <2>3. \A u \in task' : TaskOK(u) /\ \E old \in task : u.rows \subseteq old.rows
    BY <1>1, <2>2
  <2>4. TypeOK'
    BY <1>1, <1>2, <2>3 DEF Dispatch, TypeOK, TaskOK
  <2> QED
    BY <1>2, <2>3, <2>4, KeepsRows DEF Dispatch
<1>3. ASSUME NEW t \in task, NEW r \in Row, GiveUp(t, r)
      PROVE  IInv'
  <2>1. task' = task \ {t} /\ faults' \in 0 .. Faults
    BY <1>1, <1>3, OutboxAssumption DEF GiveUp, Fault, TypeOK
  <2>2. failed' \in [Worker -> BOOLEAN]
    BY <1>1, <1>3 DEF GiveUp, TypeOK
  <2>3. TypeOK'
    BY <1>1, <1>3, <2>1, <2>2 DEF GiveUp, TypeOK
  <2> QED
    BY <1>3, <2>1, <2>3, KeepsRows DEF GiveUp
<1>4. ASSUME NEW w \in Worker, EndBatch(w)
      PROVE  IInv'
  <2> DEFINE left(t) == IF t.worker = w THEN [t EXCEPT !.waited = FALSE] ELSE t
  <2>1. ASSUME NEW t \in task PROVE TaskOK(left(t)) /\ left(t).rows = t.rows
    <3>1. CASE t.worker = w
      BY <1>1, <3>1 DEF TaskOK
    <3>2. CASE t.worker # w
      BY <1>1, <3>2
    <3> QED
      BY <3>1, <3>2
  <2>2. task' = {left(t) : t \in task}
    BY <1>4 DEF EndBatch
  <2> HIDE DEF left
  <2>3. \A u \in task' : TaskOK(u) /\ \E old \in task : u.rows \subseteq old.rows
    BY <2>1, <2>2
  <2>4. TypeOK'
    BY <1>1, <1>4, <2>3 DEF EndBatch, TypeOK, TaskOK
  <2> QED
    BY <1>4, <2>3, <2>4, KeepsRows DEF EndBatch
<1>5. ASSUME NEW w \in Worker, Crash(w)
      PROVE  IInv'
  <2>1. task' \subseteq task /\ faults' \in 0 .. Faults
    BY <1>1, <1>5, OutboxAssumption DEF Crash, Fault, TypeOK
  <2>2. TypeOK'
    BY <1>1, <1>5, <2>1 DEF Crash, TypeOK
  <2> QED
    BY <1>5, <2>1, <2>2, KeepsRows DEF Crash
<1> QED
  BY <1>2, <1>3, <1>4, <1>5

LEMMA SettleInv ==
  ASSUME IInv, NEW t \in task, NEW r \in Row, Settle(t, r)
  PROVE  IInv'
<1>1. /\ TypeOK /\ TaskOK(t) /\ t.outcome # "none" /\ r \in t.rows
      /\ row[r].by = t.worker /\ row \in [Row -> RowType]
      /\ \A u \in task : TaskOK(u)
  BY DEF IInv, TypeOK, TaskOK, RowType, Settle, First, Holds
<1>2. row[r].state = "IN_FLIGHT" /\ r < next
  BY <1>1, OutboxAssumption DEF IInv, Unheld, Turn, TaskOK
<1> DEFINE new == [row EXCEPT ![r] = Settled(t, r)]
<1>3. /\ Settled(t, r) \in RowType /\ Settled(t, r).by = Nobody
      /\ Settled(t, r).state \in {"PENDING", "DONE", "DEAD"}
      /\ Settled(t, r).sub = row[r].sub /\ Settled(t, r).source = row[r].source
  BY <1>1, SettledTyped
<1>4. /\ new \in [Row -> RowType] /\ new[r] = Settled(t, r)
      /\ \A q \in Row : q # r => new[q] = row[q]
  BY <1>1, <1>3
<1>5. row' = Renewed(new, t.worker)
  BY DEF Settle
<1> HIDE DEF new
<1>6. /\ row' \in [Row -> RowType]
      /\ \A q \in Row :
           /\ row'[q].state = new[q].state /\ row'[q].sub = new[q].sub
           /\ row'[q].source = new[q].source /\ row'[q].by = new[q].by
           /\ new[q].state # "IN_FLIGHT" => row'[q] = new[q]
  BY <1>1, <1>4, <1>5, RenewedTyped DEF TaskOK
<1>7. /\ closed' = IF row'[r].state \in Waiting THEN closed ELSE closed \cup {r}
      /\ next' = next
  BY DEF Settle
<1> DEFINE rest == [t EXCEPT !.rows = @ \ {r}, !.outcome = "none"]
<1>8. task' = (task \ {t}) \cup IF t.rows = {r} THEN {} ELSE {rest}
  BY DEF Settle
<1>9. rest.rows \subseteq t.rows /\ (t.rows # {r} => TaskOK(rest))
  BY <1>1 DEF TaskOK
<1> HIDE DEF rest
<1>10. \A u \in task' : TaskOK(u) /\ \E old \in task : u.rows \subseteq old.rows
  BY <1>1, <1>8, <1>9
<1>11. TypeOK'
  BY <1>1, <1>6, <1>7, <1>10 DEF Settle, TypeOK, TaskOK, RowType
<1>12. \A q \in Row :
         /\ row'[q].sub = row[q].sub /\ row'[q].source = row[q].source
         /\ row[q].state # "NONE" => row'[q].state # "NONE"
         /\ row[q].state \in Waiting => row'[q].state \in Waiting \/ q \in closed'
         /\ row[q].state \in {"DONE", "PURGED"} => row'[q].state \in {"DONE", "PURGED"}
  BY <1>2, <1>3, <1>4, <1>6, <1>7
<1>13. \A q \in Row : row'[q].state # "IN_FLIGHT" => row'[q].by = Nobody
  BY <1>3, <1>4, <1>6 DEF IInv, Unheld
<1>14. \A q \in Row : q >= next => row'[q] = row[q] /\ q \notin closed'
  <2>1. \A q \in Row : q >= next => q # r
    BY <1>2 DEF IInv, TypeOK, Row
  <2>2. \A q \in Row : q >= next => row[q].state = "NONE" /\ q \notin closed
    BY DEF IInv, Written, NoRow
  <2> QED
    BY <1>4, <1>6, <1>7, <2>1, <2>2
<1> QED
  BY <1>7, <1>10, <1>11, <1>12, <1>13, <1>14, ChangesRows

LEMMA TickInv ==
  ASSUME IInv, Tick
  PROVE  IInv'
<1>1. TypeOK /\ row \in [Row -> RowType]
  BY DEF IInv, TypeOK, RowType
<1>2. \A r \in Row : row[r].clock > 0 =>
        LET low == [row[r] EXCEPT !.clock = @ - 1]
        IN  low \in RowType /\ \A f \in {"sub"} : low.sub = row[r].sub
            /\ low.source = row[r].source /\ low.state = row[r].state /\ low.by = row[r].by
  BY <1>1, OutboxAssumption DEF RowType
<1>3. /\ row' \in [Row -> RowType]
      /\ \A r \in Row :
           /\ row'[r].sub = row[r].sub /\ row'[r].source = row[r].source
           /\ row'[r].state = row[r].state /\ row'[r].by = row[r].by
           /\ row[r].clock = 0 => row'[r] = row[r]
  BY <1>1, <1>2 DEF Tick
<1>4. faults' \in 0 .. Faults
  BY <1>1, OutboxAssumption DEF Tick, Fault, TypeOK
<1>5. TypeOK'
  BY <1>1, <1>3, <1>4 DEF Tick, TypeOK, RowType
<1>6. \A r \in Row : r >= next => row'[r] = row[r] /\ r \notin closed'
  BY <1>3 DEF Tick, IInv, Written, NoRow
<1>7. \A r \in Row : row'[r].state # "IN_FLIGHT" => row'[r].by = Nobody
  BY <1>3 DEF IInv, Unheld
<1> QED
  BY <1>3, <1>5, <1>6, <1>7, ChangesRows DEF Tick

LEMMA AdministratorsInv ==
  ASSUME IInv, NEW r \in Row, RetryDelivery(r) \/ SkipDelivery(r) \/ PurgeDelivery(r)
  PROVE  IInv'
<1>1. TypeOK /\ row \in [Row -> RowType] /\ next' = next
  BY DEF IInv, TypeOK, RowType, RetryDelivery, SkipDelivery, PurgeDelivery
<1>2. orders' \in 0 .. Orders
  BY <1>1, OutboxAssumption
  DEF RetryDelivery, SkipDelivery, PurgeDelivery, Order, TypeOK
<1>3. PICK new \in RowType :
        /\ row' = [row EXCEPT ![r] = new]
        /\ new.sub = row[r].sub /\ new.source = row[r].source
        /\ new.state \in {"PENDING", "SKIPPED", "PURGED"} /\ new.by = Nobody
        /\ row[r].state \notin {"NONE"}
        /\ row[r].state \in Waiting => new.state \in Waiting \/ r \in closed'
        /\ row[r].state \in {"DONE", "PURGED"} => new.state = "PURGED"
  <2>1. row[r] \in RowType
    BY <1>1
  <2>2. CASE RetryDelivery(r)
    <3> DEFINE new == [Released(r) EXCEPT !.state = "PENDING", !.tries = 0]
    <3>1. new \in RowType
      BY <1>1, RowTyped DEF State
    <3>2. /\ new.sub = row[r].sub /\ new.source = row[r].source
          /\ new.state = "PENDING" /\ new.by = Nobody
      BY <2>1 DEF Released, RowType
    <3>3. row' = [row EXCEPT ![r] = new] /\ row[r].state \in {"DEAD", "IN_FLIGHT"}
      BY <2>2 DEF RetryDelivery, Resendable
    <3> QED
      BY <3>1, <3>2, <3>3 DEF Waiting
  <2>3. CASE SkipDelivery(r)
    <3> DEFINE new == [Released(r) EXCEPT !.state = "SKIPPED"]
    <3>1. new \in RowType
      BY <1>1, RowTyped DEF State
    <3>2. /\ new.sub = row[r].sub /\ new.source = row[r].source
          /\ new.state = "SKIPPED" /\ new.by = Nobody
      BY <2>1 DEF Released, RowType
    <3>3. /\ row' = [row EXCEPT ![r] = new] /\ row[r].state \in {"DEAD", "PENDING"}
          /\ r \in closed'
      BY <2>3 DEF SkipDelivery, Skippable
    <3> QED
      BY <3>1, <3>2, <3>3 DEF Waiting
  <2>4. CASE PurgeDelivery(r)
    <3> DEFINE new == [row[r] EXCEPT !.state = "PURGED"]
    <3>1. new \in RowType
      BY <1>1, RowTyped DEF State
    <3>2. row[r].state \in {"DONE", "SKIPPED"}
      BY <2>4 DEF PurgeDelivery
    <3>3. /\ new.sub = row[r].sub /\ new.source = row[r].source
          /\ new.state = "PURGED" /\ new.by = Nobody
      BY <2>1, <3>2 DEF RowType, IInv, Unheld
    <3>4. row' = [row EXCEPT ![r] = new]
      BY <2>4 DEF PurgeDelivery
    <3> QED
      BY <3>1, <3>2, <3>3, <3>4 DEF Waiting
  <2> QED
    BY <2>2, <2>3, <2>4
<1>4. /\ row' \in [Row -> RowType] /\ row'[r] = new
      /\ \A q \in Row : q # r => row'[q] = row[q]
  BY <1>1, <1>3
<1>5. closed' \in {closed, closed \cup {r}}
  BY DEF RetryDelivery, SkipDelivery, PurgeDelivery
<1>6. TypeOK' /\ task' = task
  <2>1. UNCHANGED <<sub, routes, task, phase, failed, faults, told>> /\ closed' \subseteq Row
    BY <1>1, <1>5 DEF RetryDelivery, SkipDelivery, PurgeDelivery, TypeOK
  <2> QED
    BY <1>1, <1>2, <1>4, <2>1 DEF TypeOK, RowType
<1>7. \A q \in Row : q >= next => row'[q] = row[q] /\ q \notin closed'
  BY <1>3, <1>4, <1>5 DEF IInv, Written, NoRow
<1>8. \A q \in Row : row'[q].state # "IN_FLIGHT" => row'[q].by = Nobody
  BY <1>3, <1>4 DEF IInv, Unheld
<1>9. \A q \in Row :
        /\ row'[q].sub = row[q].sub /\ row'[q].source = row[q].source
        /\ row[q].state # "NONE" => row'[q].state # "NONE"
        /\ row[q].state \in Waiting => row'[q].state \in Waiting \/ q \in closed'
        /\ row[q].state \in {"DONE", "PURGED"} => row'[q].state \in {"DONE", "PURGED"}
  BY <1>3, <1>4
<1> QED
  BY <1>1, <1>5, <1>6, <1>7, <1>8, <1>9, ChangesRows

LEMMA StepInv == IInv /\ [Next]_vars => IInv'
<1> SUFFICES ASSUME IInv, [Next]_vars PROVE IInv'
  OBVIOUS
<1>1. CASE UNCHANGED vars
  <2>1. TypeOK'
    BY <1>1 DEF vars, IInv, TypeOK
  <2> QED
    BY <1>1, <2>1, KeepsRows DEF vars
<1>2. CASE Next
  BY <1>2, EmitInv, SubscribersInv, ClaimInv, TasksInv, SettleInv, TickInv,
     AdministratorsInv DEF Next
<1> QED
  BY <1>1, <1>2

\* The inductive invariant, for any subscribers, workers and bounds.
THEOREM OutboxInvariant == Spec => []IInv
BY InitInv, StepInv, PTL DEF Spec

-----------------------------------------------------------------------------
(* Who settles a row, and for how long.                                    *)

\* Only the holder of a live lease, with the outcome of the row, takes it out
\* of flight: the three finish statements ask for locked_by, the resend for a
\* lease that is over, and the skip for a row out of flight (event_store.rs).
THEOREM OnlyHolderSettles == Spec => HolderSettles
<1> DEFINE Held == \A r \in Row :
             row[r].state = "IN_FLIGHT" /\ row[r].clock > 0 /\ row'[r].state # "IN_FLIGHT" =>
               \E t \in task : /\ t.worker = row[r].by /\ First(t, r)
                               /\ t.outcome # "none"
<1>1. IInv /\ [Next]_vars => [Held]_vars
  <2> SUFFICES ASSUME IInv, Next, NEW r \in Row, row[r].state = "IN_FLIGHT",
                      row[r].clock > 0, row'[r].state # "IN_FLIGHT"
               PROVE  \E t \in task : /\ t.worker = row[r].by /\ First(t, r)
                                      /\ t.outcome # "none"
    OBVIOUS
  <2>1. row \in [Row -> RowType] /\ r \in Nat /\ next \in Nat
    BY DEF IInv, TypeOK, RowType, Row
  <2>2. r < next
    BY <2>1 DEF IInv, Written, NoRow
  <2>3. ASSUME NEW s \in Sub,
               EmitToOutbox(s) \/ RebuildSubscriber(s) \/ TestSubscriber(s)
        PROVE  FALSE
    BY <2>1, <2>2, <2>3
    DEF EmitToOutbox, RebuildSubscriber, TestSubscriber, InsertDelivery
  <2>4. ASSUME NEW w \in Worker, Claim(w)
        PROVE  FALSE
    BY <2>1, <2>4 DEF Claim, RowType
  <2>5. ASSUME NEW t \in task, NEW q \in Row, Settle(t, q)
        PROVE  /\ t.worker = row[r].by /\ First(t, r) /\ t.outcome # "none"
    <3>1. t.worker \in Worker /\ t.outcome # "none" /\ First(t, q) /\ row[q].by = t.worker
      BY <2>5 DEF Settle, Holds, IInv, TypeOK
    <3> DEFINE new == [row EXCEPT ![q] = Settled(t, q)]
    <3>2. Settled(t, q) \in RowType
      BY <3>1, SettledTyped DEF IInv
    <3>3. new \in [Row -> RowType] /\ \A v \in Row : v # q => new[v] = row[v]
      BY <2>1, <3>2
    <3>4. row' = Renewed(new, t.worker)
      BY <2>5 DEF Settle
    <3> HIDE DEF new
    <3>5. row'[r].state = new[r].state
      BY <3>1, <3>3, <3>4, RenewedTyped
    <3>6. r = q
      BY <3>3, <3>5
    <3> QED
      BY <3>1, <3>6
  <2>6. ASSUME Tick
        PROVE  FALSE
    BY <2>1, <2>6 DEF Tick, RowType
  <2>7. ASSUME NEW q \in Row, RetryDelivery(q) \/ SkipDelivery(q) \/ PurgeDelivery(q)
        PROVE  FALSE
    <3>1. q # r
      BY <2>7 DEF RetryDelivery, SkipDelivery, PurgeDelivery, Resendable, Skippable
    <3> QED
      BY <2>1, <2>7, <3>1 DEF RetryDelivery, SkipDelivery, PurgeDelivery
  <2>8. UNCHANGED row => FALSE
    OBVIOUS
  <2> QED
    BY <2>3, <2>4, <2>5, <2>6, <2>7, <2>8
    DEF Next, SetSubscriberActive, DeleteSubscriber, RefreshRoutes, EndBatch, Crash,
        Dispatch, GiveUp
<1> QED
  BY <1>1, OutboxInvariant, PTL DEF Spec, HolderSettles

\* What is done or skipped is never taken up again, not even by a task that
\* lost the row and comes back: only a purge touches it (event_store.rs).
THEOREM SettledForGood == Spec => SettledFinal
<1> DEFINE Final == \A r \in Row :
             row[r].state \in {"DONE", "SKIPPED"} => row'[r].state \in {row[r].state, "PURGED"}
<1>1. IInv /\ [Next]_vars => [Final]_vars
  <2> SUFFICES ASSUME IInv, Next, NEW r \in Row, row[r].state \in {"DONE", "SKIPPED"}
               PROVE  row'[r].state \in {row[r].state, "PURGED"}
    OBVIOUS
  <2>1. row \in [Row -> RowType] /\ r \in Nat /\ next \in Nat
    BY DEF IInv, TypeOK, RowType, Row
  <2>2. r < next /\ row[r].by = Nobody
    BY <2>1 DEF IInv, Written, NoRow, Unheld
  <2>3. ASSUME NEW s \in Sub,
               EmitToOutbox(s) \/ RebuildSubscriber(s) \/ TestSubscriber(s)
        PROVE  row'[r] = row[r]
    BY <2>1, <2>2, <2>3
    DEF EmitToOutbox, RebuildSubscriber, TestSubscriber, InsertDelivery
  <2>4. ASSUME NEW w \in Worker, Claim(w)
        PROVE  row'[r] = row[r]
    BY <2>1, <2>4 DEF Claim, Claimed, Claimable, Waiting
  <2>5. ASSUME NEW t \in task, NEW q \in Row, Settle(t, q)
        PROVE  row'[r] = row[r]
    <3>1. t.worker \in Worker /\ t.outcome # "none" /\ row[q].by = t.worker
      BY <2>5 DEF Settle, Holds, IInv, TypeOK
    <3> DEFINE new == [row EXCEPT ![q] = Settled(t, q)]
    <3>2. Settled(t, q) \in RowType
      BY <3>1, SettledTyped DEF IInv
    <3>3. q # r /\ new \in [Row -> RowType] /\ new[r] = row[r]
      BY <2>1, <2>2, <3>1, <3>2, OutboxAssumption
    <3>4. row' = Renewed(new, t.worker)
      BY <2>5 DEF Settle
    <3> HIDE DEF new
    <3> QED
      BY <3>1, <3>3, <3>4, RenewedTyped
  <2>6. ASSUME Tick
        PROVE  row'[r].state = row[r].state
    BY <2>1, <2>6 DEF Tick, RowType
  <2>7. ASSUME NEW q \in Row, RetryDelivery(q) \/ SkipDelivery(q) \/ PurgeDelivery(q)
        PROVE  row'[r].state \in {row[r].state, "PURGED"}
    <3>1. CASE q # r
      BY <2>1, <2>7, <3>1 DEF RetryDelivery, SkipDelivery, PurgeDelivery
    <3>2. CASE q = r
      <4>1. PurgeDelivery(r)
        BY <2>7, <3>2 DEF RetryDelivery, SkipDelivery, Resendable, Skippable
      <4> QED
        BY <2>1, <4>1 DEF PurgeDelivery, RowType
    <3> QED
      BY <3>1, <3>2
  <2>8. UNCHANGED row => row'[r].state = row[r].state
    OBVIOUS
  <2> QED
    BY <2>3, <2>4, <2>5, <2>6, <2>7, <2>8
    DEF Next, SetSubscriberActive, DeleteSubscriber, RefreshRoutes, EndBatch, Crash,
        Dispatch, GiveUp
<1> QED
  BY <1>1, OutboxInvariant, PTL DEF Spec, SettledFinal

-----------------------------------------------------------------------------
(* The outbox is an OrderedQueue: what a step does to the rows is a step   *)
(* of one entry, or nothing at all.                                        *)

Todo == {r \in Row : row[r].state \in Waiting}
Befores == [r \in Row |-> Follows(r)]
queue == <<Todo, Befores, told, closed>>

LEMMA InitRefines == Init => Ordered!Init
<1> SUFFICES ASSUME Init PROVE Ordered!Init
  OBVIOUS
<1>1. \A r \in Row : row[r].state = "NONE" /\ row[r].source = "none"
  BY DEF Init, NoRow
<1>2. Todo = {}
  BY <1>1 DEF Todo, Waiting
<1>3. Befores = [r \in Row |-> {}]
  <2>1. \A r \in Row : Follows(r) = {}
    BY <1>1 DEF Follows
  <2> QED
    BY <2>1 DEF Befores
<1> QED
  BY <1>2, <1>3 DEF Init, Ordered!Init, Todo, Befores

\* Whose row it is and where it came from stays.
LEMMA SameBefores ==
  ASSUME \A r \in Row : row'[r].sub = row[r].sub /\ row'[r].source = row[r].source
  PROVE  Befores' = Befores
<1>1. \A r \in Row : Follows(r)' = Follows(r)
  BY DEF Follows
<1> QED
  BY <1>1 DEF Befores

\* A row that is written for an event or a replay is submitted behind the
\* rows it follows, all of which are known to the queue.
LEMMA InsertRefines ==
  ASSUME IInv, NEW s \in Sub, NEW source \in {"emit", "rebuild"},
         InsertDelivery(s, source, "PENDING"), UNCHANGED <<told, closed>>
  PROVE  \E n \in Row : Ordered!Submit(n)
<1>1. PICK n \in Row : n = next
  BY DEF IInv, TypeOK, Row, InsertDelivery
<1>2. row \in [Row -> RowType] /\ \A r \in Row : r \in Nat
  BY DEF IInv, TypeOK, RowType, Row
<1>3. /\ row'[n].state = "PENDING" /\ row'[n].source = source
      /\ \A r \in Row : r # n => row'[r] = row[r]
  BY <1>1, <1>2 DEF InsertDelivery, NoRow
<1>4. row[n].state = "NONE" /\ row[n].source = "none" /\ n \notin closed
  BY <1>1, <1>2 DEF IInv, Written, NoRow
<1>5. Todo' = Todo \cup {n} /\ n \notin Todo \cup closed
  BY <1>3, <1>4 DEF Todo, Waiting
<1>6. ASSUME NEW r \in Row, r # n PROVE Follows(r)' = Follows(r)
  <2>1. CASE r < n
    <3>1. \A q \in Row : q < r => q # n
      BY <1>2, <2>1
    <3> QED
      BY <1>3, <1>6, <3>1 DEF Follows
  <2>2. CASE ~(r < n)
    <3>1. row[r].source = "none" /\ row'[r] = row[r]
      BY <1>1, <1>2, <1>3, <1>6, <2>2 DEF IInv, Written, NoRow
    <3> QED
      BY <3>1 DEF Follows
  <2> QED
    BY <2>1, <2>2
<1>7. Befores' = [Befores EXCEPT ![n] = Follows(n)']
  <2>1. Befores' = [r \in Row |-> Follows(r)']
    BY DEF Befores
  <2> QED
    BY <1>6, <2>1 DEF Befores
<1>8. Follows(n)' \subseteq Todo \cup closed
  <2> SUFFICES ASSUME NEW q \in Follows(n)' PROVE q \in Todo \cup closed
    OBVIOUS
  <2>1. q \in Row /\ q < n /\ row'[q].source = "emit"
    BY DEF Follows
  <2>2. q # n /\ q < next /\ row[q].source = "emit"
    BY <1>1, <1>2, <1>3, <2>1
  <2> QED
    BY <2>1, <2>2 DEF Todo, IInv, Accounted
<1> QED
  BY <1>5, <1>7, <1>8 DEF Ordered!Submit, Todo, Befores

\* A test leaves an audit row: nothing of the queue.
LEMMA TestRefines ==
  ASSUME IInv, NEW s \in Sub, TestSubscriber(s)
  PROVE  UNCHANGED queue
<1>1. PICK n \in Row : n = next
  BY DEF IInv, TypeOK, Row, TestSubscriber, InsertDelivery
<1>2. row \in [Row -> RowType] /\ \A r \in Row : r \in Nat
  BY DEF IInv, TypeOK, RowType, Row
<1>3. /\ row'[n].state = "DONE" /\ row'[n].source = "test"
      /\ \A r \in Row : r # n => row'[r] = row[r]
  BY <1>1, <1>2 DEF TestSubscriber, InsertDelivery, NoRow
<1>4. row[n].state = "NONE" /\ row[n].source = "none"
  BY <1>1, <1>2 DEF IInv, Written, NoRow
<1>5. Todo' = Todo
  BY <1>3, <1>4 DEF Todo, Waiting
<1>6. \A r \in Row : Follows(r)' = Follows(r)
  BY <1>3, <1>4 DEF Follows
<1> QED
  BY <1>5, <1>6 DEF queue, Befores, TestSubscriber

\* The first telling of a row waits for its turn.
LEMMA DispatchRefines ==
  ASSUME IInv, NEW t \in task, NEW r \in Row, Dispatch(t, r)
  PROVE  Ordered!Tell(r) \/ UNCHANGED queue
<1>1. Todo' = Todo /\ Befores' = Befores /\ closed' = closed
  BY SameBefores DEF Dispatch, Todo
<1>2. CASE t.known
  <2>1. /\ r < next /\ row[r].source # "test" /\ Follows(r) \subseteq closed
        /\ told' = told \cup {r}
    BY <1>2 DEF Dispatch, First, IInv, Turn
  <2>2. r \in Todo \cup closed
    BY <2>1 DEF IInv, Accounted, Todo
  <2>3. Befores[r] \subseteq closed
    BY <2>1 DEF Befores
  <2> QED
    BY <1>1, <2>1, <2>2, <2>3 DEF Ordered!Tell, Todo, Befores
<1>3. CASE ~t.known
  BY <1>1, <1>3 DEF Dispatch, queue
<1> QED
  BY <1>2, <1>3

LEMMA SettleRefines ==
  ASSUME IInv, NEW t \in task, NEW r \in Row, Settle(t, r)
  PROVE  Ordered!Close(r) \/ UNCHANGED queue
<1>1. /\ TypeOK /\ t.worker \in Worker /\ t.outcome # "none"
      /\ row[r].by = t.worker /\ row \in [Row -> RowType]
  BY DEF IInv, TypeOK, RowType, Settle, First, Holds
<1>2. row[r].state = "IN_FLIGHT"
  BY <1>1, OutboxAssumption DEF IInv, Unheld
<1> DEFINE new == [row EXCEPT ![r] = Settled(t, r)]
<1>3. /\ Settled(t, r) \in RowType
      /\ Settled(t, r).state \in {"PENDING", "DONE", "DEAD"}
      /\ Settled(t, r).sub = row[r].sub /\ Settled(t, r).source = row[r].source
  BY <1>1, SettledTyped
<1>4. /\ new \in [Row -> RowType] /\ new[r] = Settled(t, r)
      /\ \A q \in Row : q # r => new[q] = row[q]
  BY <1>1, <1>3
<1>5. row' = Renewed(new, t.worker)
  BY DEF Settle
<1> HIDE DEF new
<1>6. \A q \in Row : /\ row'[q].state = new[q].state /\ row'[q].sub = new[q].sub
                     /\ row'[q].source = new[q].source
  BY <1>1, <1>4, <1>5, RenewedTyped
<1>7. Befores' = Befores /\ told' = told
  BY <1>3, <1>4, <1>6, SameBefores DEF Settle
<1>8. closed' = IF row'[r].state \in Waiting THEN closed ELSE closed \cup {r}
  BY DEF Settle
<1>9. r \in Todo
  BY <1>2 DEF Todo, Waiting
<1>10. CASE row'[r].state \in Waiting
  <2>1. Todo' = Todo
    BY <1>4, <1>6, <1>9, <1>10 DEF Todo
  <2> QED
    BY <1>7, <1>8, <1>10, <2>1 DEF queue
<1>11. CASE row'[r].state \notin Waiting
  <2>1. Todo' = Todo \ {r}
    BY <1>4, <1>6, <1>11 DEF Todo
  <2> QED
    BY <1>7, <1>8, <1>9, <1>11, <2>1 DEF Ordered!Close, Todo, Befores
<1> QED
  BY <1>10, <1>11

\* A dead row is reopened, one in flight is sent again as it is; a skip closes
\* a row or leaves a closed one closed; a purge is none of the queue's.
LEMMA AdministratorsRefine ==
  ASSUME IInv, NEW r \in Row, RetryDelivery(r) \/ SkipDelivery(r) \/ PurgeDelivery(r)
  PROVE  Ordered!Close(r) \/ Ordered!Reopen(r) \/ UNCHANGED queue
<1>1. row \in [Row -> RowType] /\ row[r] \in RowType
  BY DEF IInv, TypeOK, RowType
<1>2. /\ row'[r].sub = row[r].sub /\ row'[r].source = row[r].source
      /\ RetryDelivery(r) => row'[r].state = "PENDING"
      /\ SkipDelivery(r) => row'[r].state = "SKIPPED"
      /\ PurgeDelivery(r) => row'[r].state = "PURGED"
  <2>1. RetryDelivery(r) => row'[r] = [Released(r) EXCEPT !.state = "PENDING", !.tries = 0]
    BY <1>1 DEF RetryDelivery
  <2>2. SkipDelivery(r) => row'[r] = [Released(r) EXCEPT !.state = "SKIPPED"]
    BY <1>1 DEF SkipDelivery
  <2>3. PurgeDelivery(r) => row'[r] = [row[r] EXCEPT !.state = "PURGED"]
    BY <1>1 DEF PurgeDelivery
  <2>4. \A state \in State :
          /\ [row[r] EXCEPT !.state = state].state = state
          /\ [Released(r) EXCEPT !.state = state].state = state
          /\ [Released(r) EXCEPT !.state = state, !.tries = 0].state = state
    BY <1>1 DEF Released, RowType
  <2>5. \A state \in State :
          /\ [row[r] EXCEPT !.state = state].sub = row[r].sub
          /\ [row[r] EXCEPT !.state = state].source = row[r].source
          /\ [Released(r) EXCEPT !.state = state].sub = row[r].sub
          /\ [Released(r) EXCEPT !.state = state].source = row[r].source
          /\ [Released(r) EXCEPT !.state = state, !.tries = 0].sub = row[r].sub
          /\ [Released(r) EXCEPT !.state = state, !.tries = 0].source = row[r].source
    BY <1>1 DEF Released, RowType
  <2>6. "PENDING" \in State /\ "SKIPPED" \in State /\ "PURGED" \in State
    BY DEF State
  <2>7. /\ RetryDelivery(r) => row'[r].state = "PENDING"
        /\ SkipDelivery(r) => row'[r].state = "SKIPPED"
        /\ PurgeDelivery(r) => row'[r].state = "PURGED"
    BY <2>1, <2>2, <2>3, <2>4, <2>6
  <2>8. row'[r].sub = row[r].sub /\ row'[r].source = row[r].source
    BY <2>1, <2>2, <2>3, <2>5, <2>6
  <2> QED
    BY <2>7, <2>8
<1>3. \A q \in Row : q # r => row'[q] = row[q]
  BY <1>1 DEF RetryDelivery, SkipDelivery, PurgeDelivery
<1>4. Befores' = Befores /\ told' = told
  BY <1>2, <1>3, SameBefores DEF RetryDelivery, SkipDelivery, PurgeDelivery
<1>5. CASE RetryDelivery(r)
  <2>1. Todo' = Todo \cup {r} /\ closed' = closed
    BY <1>2, <1>3, <1>5 DEF Todo, Waiting, RetryDelivery
  <2>2. CASE r \in Todo
    BY <1>4, <2>1, <2>2 DEF queue
  <2>3. CASE r \notin Todo
    <3>1. row[r].state = "DEAD" /\ r \in Row /\ next \in Nat /\ r \in Nat
      BY <1>5, <2>3 DEF RetryDelivery, Resendable, Todo, Waiting, IInv, TypeOK, Row
    <3>2. r \in closed
      BY <3>1 DEF IInv, Accounted, Audits, Written, NoRow, Waiting
    <3> QED
      BY <1>4, <2>1, <2>3, <3>2 DEF Ordered!Reopen, Todo, Befores
  <2> QED
    BY <2>2, <2>3
<1>6. CASE SkipDelivery(r)
  <2>1. /\ Todo' = Todo \ {r} /\ closed' = closed \cup {r}
        /\ row[r].state \in {"DEAD", "PENDING"}
    BY <1>2, <1>3, <1>6 DEF Todo, Waiting, SkipDelivery, Skippable
  <2>2. CASE r \in Todo
    BY <1>4, <2>1, <2>2 DEF Ordered!Close, Todo, Befores
  <2>3. CASE r \notin Todo
    <3>1. row[r].state = "DEAD" /\ next \in Nat /\ r \in Nat
      BY <2>1, <2>3 DEF Todo, Waiting, IInv, TypeOK, Row
    <3>2. r \in closed
      BY <3>1 DEF IInv, Accounted, Audits, Written, NoRow, Waiting
    <3>3. Todo' = Todo /\ closed' = closed
      BY <2>1, <2>3, <3>2
    <3> QED
      BY <1>4, <3>3 DEF queue
  <2> QED
    BY <2>2, <2>3
<1>7. CASE PurgeDelivery(r)
  <2>1. Todo' = Todo /\ closed' = closed
    BY <1>2, <1>3, <1>7 DEF Todo, Waiting, PurgeDelivery
  <2> QED
    BY <1>4, <2>1 DEF queue
<1> QED
  BY <1>5, <1>6, <1>7

LEMMA StepRefines == IInv /\ [Next]_vars => [Ordered!Next]_queue
<1> SUFFICES ASSUME IInv, [Next]_vars PROVE Ordered!Next \/ UNCHANGED queue
  OBVIOUS
<1>1. ASSUME NEW s \in Sub, EmitToOutbox(s) \/ RebuildSubscriber(s)
      PROVE  Ordered!Next
  BY <1>1, InsertRefines DEF EmitToOutbox, RebuildSubscriber, Ordered!Next
<1>2. ASSUME NEW w \in Worker, Claim(w)
      PROVE  UNCHANGED queue
  <2>1. row \in [Row -> RowType]
    BY DEF IInv, TypeOK, RowType
  <2>2. \A r \in Row :
          /\ row'[r].sub = row[r].sub /\ row'[r].source = row[r].source
          /\ row'[r].state \in Waiting <=> row[r].state \in Waiting
    BY <1>2, <2>1 DEF Claim, Claimed, Claimable, Waiting, RowType
  <2>3. Befores' = Befores /\ Todo' = Todo
    BY <2>2, SameBefores DEF Todo
  <2> QED
    BY <1>2, <2>3 DEF Claim, queue
<1>3. CASE Tick
  <2>1. row \in [Row -> RowType]
    BY DEF IInv, TypeOK, RowType
  <2>2. \A r \in Row :
          /\ row'[r].sub = row[r].sub /\ row'[r].source = row[r].source
          /\ row'[r].state = row[r].state
    BY <1>3, <2>1 DEF Tick, RowType
  <2>3. Befores' = Befores /\ Todo' = Todo
    BY <2>2, SameBefores DEF Todo
  <2> QED
    BY <1>3, <2>3 DEF Tick, queue
<1>4. UNCHANGED <<row, told, closed>> => UNCHANGED queue
  BY SameBefores DEF queue, Todo
<1>5. CASE UNCHANGED vars
  BY <1>4, <1>5 DEF vars
<1>6. ASSUME NEW t \in task, NEW r \in Row, Dispatch(t, r) \/ Settle(t, r)
      PROVE  Ordered!Next \/ UNCHANGED queue
  BY <1>6, DispatchRefines, SettleRefines DEF Ordered!Next
<1>7. ASSUME NEW r \in Row, RetryDelivery(r) \/ SkipDelivery(r) \/ PurgeDelivery(r)
      PROVE  Ordered!Next \/ UNCHANGED queue
  BY <1>7, AdministratorsRefine DEF Ordered!Next
<1> QED
  BY <1>1, <1>2, <1>3, <1>4, <1>5, <1>6, <1>7, TestRefines
  DEF Next, SetSubscriberActive, DeleteSubscriber, RefreshRoutes, EndBatch, Crash, GiveUp

\* The outbox implements the ordered queue: whatever pollers, lapses, resends
\* and skips do, a row is told for the first time only after every emitted row
\* of its subscriber before it was settled (claim_due_deliveries, deliver_group).
THEOREM Refinement == Spec => OrderedSpec
BY InitRefines, StepRefines, OutboxInvariant, PTL
DEF Spec, OrderedSpec, Ordered!Spec, Ordered!vars, queue, Todo, Befores
=============================================================================
