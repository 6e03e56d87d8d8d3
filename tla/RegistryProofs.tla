--------------------------- MODULE RegistryProofs ---------------------------
(***************************************************************************)
(* Proofs about Registry, for every number of administrators, documents,   *)
(* versions, writes and faults.                                            *)
(***************************************************************************)
EXTENDS Registry, TLAPS

-----------------------------------------------------------------------------
(* The inductive invariant.                                                *)

\* A version number: of a version, none, or the next after any of them.
Number == 0 .. MaxVersion \cup {Max({0} \cup T) + 1 : T \in SUBSET Version}

CallType == [op : Op \cup {"none"}, at : Step \cup {"none"},
             xml : Xml \cup Table \cup {None}, version : Number, base : Nat]
RowType == [draft : Xml \cup {None}, stamp : Nat, active : 0 .. MaxVersion,
            state : {"NONE", "DRAFT", "PUBLISHED"}]

Loads == {"load", "deploy", "list"}
Loading(a) == call[a].op \in {"publish", "activate"} /\ call[a].at \in Loads
Entering(a) == call[a].op \in {"register", "unregister"} /\ call[a].at \in {"enter", "leave"}
\* The version of the request has been written or found.
Chose(a) == \/ call[a].op = "activate"
            \/ call[a].op = "publish" /\ call[a].at \in Loads \cup {"mark"}

Typed ==
  /\ row \in RowType
  /\ versions \in [Version -> Xml \cup {None}]
  /\ call \in [Admin -> CallType]
  /\ seen \in [Admin -> Nat]

\* What a request carries by the time it is used.
Carries(a) ==
  /\ call[a].op \in {"save", "seed"} => call[a].xml \in Xml
  /\ call[a].op \in {"publish", "activate", "delete"} => call[a].xml \in Xml \cup {None}
  /\ Chose(a) \/ call[a].op = "delete" => call[a].version \in Version
  /\ call[a].op = "activate" /\ call[a].at = "fill" => call[a].xml \in Xml
  /\ call[a].op = "publish" /\ call[a].at \in {"draft", "number", "insert"} =>
       row.draft # None
  /\ call[a].op = "publish" /\ call[a].at \in {"number", "insert"} => call[a].xml # None
Carried == \A a \in Admin : Carries(a)

\* A deletion that nothing overlaps is the only request.
Alone ==
  ~torn => \A a, b \in Admin : call[a].op = "delete" /\ call[b].op # "none" => a = b
Serial ==
  clean => /\ ~torn
           /\ \A a, b \in Admin : call[a].op # "none" /\ call[b].op # "none" => a = b

Flagged == row.state = "PUBLISHED" <=> row.active # 0

\* What the pointer and the requests name is there, what is erased is not
\* pointed at.
Named ==
  ~torn =>
    /\ row.active # 0 => versions[row.active] # None
    /\ \A a \in Admin :
         /\ Chose(a) => versions[call[a].version] # None
         /\ call[a].op = "delete" /\ call[a].at = "erase" => row.active # call[a].version

Running ==
  /\ engine = Published /\ listed = Published
  /\ row.active # 0 => Publishable(engine)
\* How far a request that runs alone has come.
Stage(a) ==
  /\ Loading(a) =>
       /\ row.active = call[a].version
       /\ Publishable(versions[call[a].version])
       /\ call[a].at # "load" => call[a].xml = versions[call[a].version]
       /\ call[a].at = "list" => engine = call[a].xml
  /\ call[a].op = "publish" =>
       /\ call[a].at = "draft" => Publishable(row.draft)
       /\ call[a].at \in {"number", "insert"} => Publishable(call[a].xml)
       /\ call[a].at = "mark" => Publishable(versions[call[a].version])
  /\ call[a].op = "activate" /\ call[a].at # "gate" =>
       Publishable(versions[call[a].version])
  /\ call[a].op = "register" /\ call[a].at = "enter" => decision = call[a].xml
  /\ call[a].op = "unregister" /\ call[a].at = "leave" => decision = None
Agreed ==
  clean =>
    /\ (\A a \in Admin : ~Loading(a)) => Running
    /\ (\A a \in Admin : ~Entering(a)) => table = decision
    /\ \A a \in Admin : Stage(a)

IInv == Typed /\ Carried /\ Alone /\ Serial /\ Flagged /\ Named /\ Agreed

-----------------------------------------------------------------------------
(* How a request moves on.                                                 *)

LEMMA IdleType == Idle \in CallType /\ Idle.op = "none"
BY RegistryAssumption DEF Idle, CallType, Number

\* Only the request of a changes.
Others(a) == \A b \in Admin \ {a} : call'[b] = call[b]

LEMMA Returns ==
  ASSUME Typed, NEW a \in Admin, Return(a)
  PROVE  /\ call' \in [Admin -> CallType]
         /\ call'[a] = Idle /\ call'[a].op = "none" /\ Others(a)
BY IdleType DEF Typed, Return, Others

LEMMA Goes ==
  ASSUME Typed, NEW a \in Admin, NEW at \in Step, Goto(a, at)
  PROVE  /\ call' \in [Admin -> CallType]
         /\ call'[a] = [call[a] EXCEPT !.at = at]
         /\ call'[a].op = call[a].op /\ call'[a].at = at /\ call'[a].xml = call[a].xml
         /\ call'[a].version = call[a].version
         /\ Others(a)
BY DEF Typed, Goto, Others, CallType

LEMMA GoesWith ==
  ASSUME Typed, NEW a \in Admin, NEW at \in Step, NEW x \in Xml \cup {None},
         GotoWith(a, at, x)
  PROVE  /\ call' \in [Admin -> CallType]
         /\ call'[a].op = call[a].op /\ call'[a].at = at /\ call'[a].xml = x
         /\ call'[a].version = call[a].version
         /\ Others(a)
BY DEF Typed, GotoWith, Others, CallType

\* No request begins.
LEMMA NoneBegins ==
  ASSUME Alone, Serial, NEW a \in Admin, Others(a),
         call'[a].op \in {call[a].op, "none"}, torn' = torn, clean' => clean
  PROVE  Alone' /\ Serial'
BY DEF Alone, Serial, Others

LEMMA InitInv == Init => IInv
<1> SUFFICES ASSUME Init PROVE IInv
  OBVIOUS
<1>1. Typed
  BY IdleType, RegistryAssumption DEF Init, Typed, RowType, NoRow
<1>2. \A a \in Admin : call[a].op = "none"
  BY IdleType DEF Init
<1>3. Carried /\ Alone /\ Serial
  BY <1>2 DEF Carried, Carries, Chose, Alone, Serial, Init
<1>4. Flagged /\ Named
  BY <1>2 DEF Flagged, Named, Chose, Init, NoRow
<1>5. Agreed
  BY <1>2 DEF Agreed, Running, Stage, Loading, Published, Init, NoRow
<1> QED
  BY <1>1, <1>3, <1>4, <1>5 DEF IInv

\* A request begins with nothing found yet but the version it is about.
LEMMA Begins ==
  ASSUME IInv, NEW a \in Admin, NEW op \in Op,
         NEW at \in {"check", "probe", "gate", "pointer", "upsert", "drop"},
         NEW x \in Xml \cup Table \cup {None}, NEW v \in 0 .. MaxVersion, NEW base \in Nat,
         Begin(a, op, at, x, v, base),
         op \in {"save", "seed"} => x \in Xml,
         op \in {"publish", "activate", "delete"} => x = None,
         op = "activate" => at = "gate",
         op \in {"activate", "delete"} => v \in Version /\ versions[v] # None
  PROVE  IInv'
<1> USE DEF IInv
<1>1. /\ UNCHANGED <<row, versions, decision, engine, listed, table, seen>>
      /\ call' \in [Admin -> CallType]
      /\ call'[a] = [op |-> op, at |-> at, xml |-> x, version |-> v, base |-> base]
      /\ Others(a)
  BY DEF Begin, store, memory, Typed, CallType, Step, Number, Others
<1>2. call'[a].op = op /\ call'[a].at = at /\ call'[a].xml = x /\ call'[a].version = v
  BY <1>1
<1>3. /\ torn' \/ \A b \in Admin : call[b].op # "delete"
      /\ torn' \/ op # "delete" \/ \A b \in Admin : call[b].op = "none"
      /\ torn => torn'
      /\ clean' => clean /\ \A b \in Admin : call[b].op = "none"
  BY DEF Begin, Busy
<1>4. Typed' /\ Flagged'
  BY <1>1 DEF Typed, Flagged
<1>5. Carried'
  BY <1>1, <1>2 DEF Carried, Carries, Chose, Others, Loads
<1>6. Alone'
  BY <1>1, <1>2, <1>3 DEF Alone, Others, Op
<1>7. Serial'
  <2> SUFFICES ASSUME clean'
               PROVE  /\ ~torn'
                      /\ \A b, c \in Admin :
                           call'[b].op # "none" /\ call'[c].op # "none" => b = c
    BY DEF Serial
  <2>1. ~torn /\ Busy = {}
    BY DEF Begin, Serial
  <2> QED
    BY <1>1, <1>3, <2>1 DEF Begin, Others
<1>8. Named'
  BY <1>1, <1>2, <1>3 DEF Named, Chose, Others, Loads
<1>9. Agreed'
  BY <1>1, <1>2, <1>3 DEF Agreed, Running, Published, Stage, Loading, Entering,
     Publishable, Others, Loads
<1> QED
  BY <1>4, <1>5, <1>6, <1>7, <1>8, <1>9

\* What makes the whole invariant out of what a step says of its own request.
LEMMA Moves ==
  ASSUME IInv, NEW a \in Admin, Others(a), call' \in [Admin -> CallType],
         call'[a].op \in {call[a].op, "none"},
         UNCHANGED <<store, memory, seen, torn>>, clean' => clean,
         Carries(a)',
         ~torn => /\ Chose(a)' => versions[call'[a].version] # None
                  /\ call'[a].op = "delete" /\ call'[a].at = "erase" =>
                       row.active # call'[a].version,
         clean' => /\ Stage(a)'
                   /\ Loading(a)' <=> Loading(a)
                   /\ Entering(a)' <=> Entering(a)
  PROVE  IInv'
<1> USE DEF IInv
<1>1. UNCHANGED <<row, versions, decision, engine, listed, table>>
  BY DEF store, memory
<1>2. Typed' /\ Flagged' /\ Alone' /\ Serial'
  BY <1>1, NoneBegins DEF Typed, Flagged
<1>3. Carried'
  BY <1>1 DEF Carried, Carries, Chose, Others
<1>4. Named'
  BY <1>1 DEF Named, Chose, Others
<1>5. Agreed'
  BY <1>1 DEF Agreed, Running, Published, Stage, Loading, Entering, Publishable, Others
<1> QED
  BY <1>2, <1>3, <1>4, <1>5

\* A request that ends before it has loaded or entered anything, or fails.
LEMMA Ends ==
  ASSUME IInv, NEW a \in Admin, Return(a), UNCHANGED <<store, memory, seen, torn>>,
         clean' => clean /\ ~Loading(a) /\ ~Entering(a)
  PROVE  IInv'
<1>1. call' \in [Admin -> CallType] /\ call'[a].op = "none" /\ Others(a)
  BY Returns DEF IInv
<1>2. Carries(a)' /\ Stage(a)' /\ ~Chose(a)' /\ ~Loading(a)' /\ ~Entering(a)'
  BY <1>1 DEF Carries, Stage, Chose, Loading, Entering
<1> QED
  BY <1>1, <1>2, Moves

-----------------------------------------------------------------------------
(* One step per action.                                                    *)

LEMMA StepInv == IInv /\ [Next]_vars => IInv'
<1> SUFFICES ASSUME IInv, [Next]_vars PROVE IInv'
  OBVIOUS
<1> USE RegistryAssumption DEF IInv
<1>1. CASE UNCHANGED vars
  BY <1>1 DEF vars, Typed, Carried, Carries, Chose, Alone, Serial, Flagged, Named,
     Agreed,
     Running, Published, Stage, Loading, Entering
<1>2. ASSUME NEW a \in Admin, Open(a) PROVE IInv'
  <2>1. Typed'
    BY <1>2 DEF Open, Typed, store, memory, RowType
  <2>2. UNCHANGED <<row, versions, decision, engine, listed, table, call, clean, torn>>
    BY <1>2 DEF Open, store, memory
  <2> QED
    BY <2>1, <2>2 DEF Carried, Carries, Chose, Alone, Serial, Flagged, Named, Agreed,
       Running, Published, Stage, Loading, Entering
<1>3. ASSUME NEW a \in Admin, Save(a) PROVE IInv'
  BY <1>3, Begins DEF Save, Op, Version, Typed
<1>4. ASSUME NEW a \in Admin, Seed(a) PROVE IInv'
  BY <1>4, Begins DEF Seed, Op, Version, Typed
<1>5. ASSUME NEW a \in Admin, Publish(a) PROVE IInv'
  BY <1>5, Begins DEF Publish, Op, Version, Typed
<1>6. ASSUME NEW a \in Admin, Activate(a) PROVE IInv'
  BY <1>6, Begins DEF Activate, Op, Version, Typed
<1>7. ASSUME NEW a \in Admin, Delete(a) PROVE IInv'
  BY <1>7, Begins DEF Delete, Op, Version, Typed
<1>8. ASSUME NEW a \in Admin, Register(a) PROVE IInv'
  BY <1>8, Begins DEF Register, Op, Version, Typed
<1>9. ASSUME NEW a \in Admin, Unregister(a) PROVE IInv'
  BY <1>9, Begins DEF Unregister, Op, Version, Typed
<1>10. ASSUME NEW a \in Admin, SaveCheck(a) PROVE IInv'
  <2>1. /\ call[a].op \in {"save"} /\ call[a].at = "check"
        /\ UNCHANGED <<store, memory, seen, clean, torn>>
    BY <1>10 DEF SaveCheck, At, Same
  <2>2. CASE ~(~Stale(call[a].base))
    BY <1>10, <2>1, <2>2, Ends DEF SaveCheck, Loading, Entering, Loads
  <2>3. CASE ~Stale(call[a].base)
    <3>1. /\ call' \in [Admin -> CallType] /\ Others(a)
          /\ call'[a].op = call[a].op /\ call'[a].at = "write"
          /\ call'[a].version = call[a].version /\ call'[a].xml = call[a].xml
      BY <1>10, <2>1, <2>3, Goes DEF SaveCheck, Step, Typed, RowType, Carried,
         Carries, Chose, Loads
    <3>2. UNCHANGED <<row, versions, decision, engine>>
      BY <2>1 DEF store, memory
    <3>3. Carries(a)'
      BY <1>10, <2>1, <2>3, <3>1, <3>2 DEF SaveCheck, Typed, RowType, Carried,
         Carries, Chose, Loads
    <3>4. ~torn => /\ Chose(a)' => versions[call'[a].version] # None
                   /\ call'[a].op = "delete" /\ call'[a].at = "erase" =>
                        row.active # call'[a].version
      BY <1>10, <2>1, <2>3, <3>1, <3>2 DEF SaveCheck, Named, Chose, Loads, InUse
    <3>5. clean => /\ Stage(a)'
                   /\ Loading(a)' <=> Loading(a)
                   /\ Entering(a)' <=> Entering(a)
      BY <1>10, <2>1, <2>3, <3>1, <3>2 DEF SaveCheck, Agreed, Serial, Stage, Loading,
         Entering, Loads, Named, Chose
    <3> QED
      BY <2>1, <3>1, <3>3, <3>4, <3>5, Moves
  <2> QED
    BY <2>2, <2>3
<1>11. ASSUME NEW a \in Admin, SeedProbe(a) PROVE IInv'
  <2>1. /\ call[a].op \in {"seed"} /\ call[a].at = "probe"
        /\ UNCHANGED <<store, memory, seen, clean, torn>>
    BY <1>11 DEF SeedProbe, At, Same
  <2>2. CASE ~(row = NoRow)
    BY <1>11, <2>1, <2>2, Ends DEF SeedProbe, Loading, Entering, Loads
  <2>3. CASE row = NoRow
    <3>1. /\ call' \in [Admin -> CallType] /\ Others(a)
          /\ call'[a].op = call[a].op /\ call'[a].at = "write"
          /\ call'[a].version = call[a].version /\ call'[a].xml = call[a].xml
      BY <1>11, <2>1, <2>3, Goes DEF SeedProbe, Step, Typed, RowType, Carried,
         Carries, Chose, Loads
    <3>2. UNCHANGED <<row, versions, decision, engine>>
      BY <2>1 DEF store, memory
    <3>3. Carries(a)'
      BY <1>11, <2>1, <2>3, <3>1, <3>2 DEF SeedProbe, Typed, RowType, Carried,
         Carries, Chose, Loads
    <3>4. ~torn => /\ Chose(a)' => versions[call'[a].version] # None
                   /\ call'[a].op = "delete" /\ call'[a].at = "erase" =>
                        row.active # call'[a].version
      BY <1>11, <2>1, <2>3, <3>1, <3>2 DEF SeedProbe, Named, Chose, Loads, InUse
    <3>5. clean => /\ Stage(a)'
                   /\ Loading(a)' <=> Loading(a)
                   /\ Entering(a)' <=> Entering(a)
      BY <1>11, <2>1, <2>3, <3>1, <3>2 DEF SeedProbe, Agreed, Serial, Stage, Loading,
         Entering, Loads, Named, Chose
    <3> QED
      BY <2>1, <3>1, <3>3, <3>4, <3>5, Moves
  <2> QED
    BY <2>2, <2>3
<1>12. ASSUME NEW a \in Admin, PublishGate(a) PROVE IInv'
  <2>1. /\ call[a].op \in {"publish"} /\ call[a].at = "gate"
        /\ UNCHANGED <<store, memory, seen, clean, torn>>
    BY <1>12 DEF PublishGate, At, Same
  <2>2. CASE ~(row.draft # None /\ Publishable(row.draft))
    BY <1>12, <2>1, <2>2, Ends DEF PublishGate, Loading, Entering, Loads
  <2>3. CASE row.draft # None /\ Publishable(row.draft)
    <3>1. /\ call' \in [Admin -> CallType] /\ Others(a)
          /\ call'[a].op = call[a].op /\ call'[a].at = "draft"
          /\ call'[a].version = call[a].version /\ call'[a].xml = call[a].xml
      BY <1>12, <2>1, <2>3, Goes DEF PublishGate, Step, Typed, RowType, Carried,
         Carries, Chose, Loads
    <3>2. UNCHANGED <<row, versions, decision, engine>>
      BY <2>1 DEF store, memory
    <3>3. Carries(a)'
      BY <1>12, <2>1, <2>3, <3>1, <3>2 DEF PublishGate, Typed, RowType, Carried,
         Carries, Chose, Loads
    <3>4. ~torn => /\ Chose(a)' => versions[call'[a].version] # None
                   /\ call'[a].op = "delete" /\ call'[a].at = "erase" =>
                        row.active # call'[a].version
      BY <1>12, <2>1, <2>3, <3>1, <3>2 DEF PublishGate, Named, Chose, Loads, InUse
    <3>5. clean => /\ Stage(a)'
                   /\ Loading(a)' <=> Loading(a)
                   /\ Entering(a)' <=> Entering(a)
      BY <1>12, <2>1, <2>3, <3>1, <3>2 DEF PublishGate, Agreed, Serial, Stage,
         Loading, Entering, Loads, Named, Chose
    <3> QED
      BY <2>1, <3>1, <3>3, <3>4, <3>5, Moves
  <2> QED
    BY <2>2, <2>3
<1>13. ASSUME NEW a \in Admin, PublishDraft(a) PROVE IInv'
  <2>1. /\ call[a].op = "publish" /\ call[a].at = "draft"
        /\ UNCHANGED <<store, memory, seen, clean, torn>>
    BY <1>13 DEF PublishDraft, At, Same
  <2>2. row.draft \in Xml /\ row' = row
    BY <2>1 DEF Typed, RowType, Carried, Carries, store
  <2>3. /\ call' \in [Admin -> CallType] /\ Others(a)
        /\ call'[a].op = "publish" /\ call'[a].at = "number" /\ call'[a].xml = row.draft
    BY <1>13, <2>1, <2>2, GoesWith DEF PublishDraft, Step
  <2>4. Carries(a)' /\ ~Chose(a)' /\ ~Loading(a)' /\ ~Loading(a) /\ ~Entering(a)' /\ ~Entering(a)
    BY <2>1, <2>2, <2>3 DEF Carries, Chose, Loading, Entering, Loads
  <2>5. clean => Stage(a)'
    BY <2>1, <2>3, <2>4 DEF Agreed, Stage, Publishable
  <2> QED
    BY <2>1, <2>3, <2>4, <2>5, Moves
<1>14. ASSUME NEW a \in Admin, PublishNumber(a) PROVE IInv'
  <2>1. /\ call[a].op = "publish" /\ call[a].at = "number"
        /\ UNCHANGED <<store, memory, seen, clean, torn>>
    BY <1>14 DEF PublishNumber, At, Same
  <2>2. Newest + 1 \in Number
    BY DEF Newest, Number
  <2>3. /\ call' \in [Admin -> CallType] /\ Others(a)
        /\ call'[a].op = "publish" /\ call'[a].at = "insert" /\ call'[a].xml = call[a].xml
    <3>1. call' = [call EXCEPT ![a] = [[call[a] EXCEPT !.at = "insert"]
                                          EXCEPT !.version = Newest + 1]]
      BY <1>14 DEF PublishNumber, Typed
    <3>2. call[a] \in CallType
      BY DEF Typed
    <3>3. [[call[a] EXCEPT !.at = "insert"] EXCEPT !.version = Newest + 1] =
            [op |-> call[a].op, at |-> "insert", xml |-> call[a].xml,
             version |-> Newest + 1, base |-> call[a].base]
      <4>1. [call[a] EXCEPT !.at = "insert"] =
              [op |-> call[a].op, at |-> "insert", xml |-> call[a].xml,
               version |-> call[a].version, base |-> call[a].base]
        BY <3>2 DEF CallType
      <4>2. [[op |-> call[a].op, at |-> "insert", xml |-> call[a].xml,
              version |-> call[a].version, base |-> call[a].base]
                EXCEPT !.version = Newest + 1] =
              [op |-> call[a].op, at |-> "insert", xml |-> call[a].xml,
               version |-> Newest + 1, base |-> call[a].base]
        OBVIOUS
      <4> QED
        BY ONLY <4>1, <4>2
    <3> QED
      BY <2>1, <2>2, <3>1, <3>2, <3>3 DEF Typed, CallType, Step, Others
  <2>4. Carries(a)' /\ ~Chose(a)' /\ ~Loading(a)' /\ ~Loading(a) /\ ~Entering(a)' /\ ~Entering(a)
    BY <2>1, <2>3 DEF Carried, Carries, Chose, Loading, Entering, Loads, store
  <2>5. clean => Stage(a)'
    BY <2>1, <2>3, <2>4 DEF Agreed, Stage
  <2> QED
    BY <2>1, <2>3, <2>4, <2>5, Moves
<1>15. ASSUME NEW a \in Admin, HotLoad(a) PROVE IInv'
  <2>1. /\ call[a].op \in {"publish", "activate"} /\ call[a].at = "load"
        /\ UNCHANGED <<store, memory, seen, clean, torn>>
    BY <1>15 DEF HotLoad, At, Same
  <2>2. CASE ~(versions[call[a].version] # None)
    BY <1>15, <2>1, <2>2, Ends DEF HotLoad, Loading, Entering, Loads, Named, Chose,
       Serial, Carried, Carries
  <2>3. CASE versions[call[a].version] # None
    <3>1. /\ call' \in [Admin -> CallType] /\ Others(a)
          /\ call'[a].op = call[a].op /\ call'[a].at = "deploy"
          /\ call'[a].version = call[a].version /\ call'[a].xml = versions[call[a].version]
      BY <1>15, <2>1, <2>3, GoesWith DEF HotLoad, Step, Typed, RowType, Carried,
         Carries, Chose, Loads
    <3>2. UNCHANGED <<row, versions, decision, engine>>
      BY <2>1 DEF store, memory
    <3>3. Carries(a)'
      BY <1>15, <2>1, <2>3, <3>1, <3>2 DEF HotLoad, Typed, RowType, Carried, Carries,
         Chose, Loads
    <3>4. ~torn => /\ Chose(a)' => versions[call'[a].version] # None
                   /\ call'[a].op = "delete" /\ call'[a].at = "erase" =>
                        row.active # call'[a].version
      BY <1>15, <2>1, <2>3, <3>1, <3>2 DEF HotLoad, Named, Chose, Loads, InUse
    <3>5. clean => /\ Stage(a)'
                   /\ Loading(a)' <=> Loading(a)
                   /\ Entering(a)' <=> Entering(a)
      BY <1>15, <2>1, <2>3, <3>1, <3>2 DEF HotLoad, Agreed, Serial, Stage, Loading,
         Entering, Loads, Named, Chose
    <3> QED
      BY <2>1, <3>1, <3>3, <3>4, <3>5, Moves
  <2> QED
    BY <2>2, <2>3
<1>16. ASSUME NEW a \in Admin, ActivateGate(a) PROVE IInv'
  <2>1. /\ call[a].op \in {"activate"} /\ call[a].at = "gate"
        /\ UNCHANGED <<store, memory, seen, clean, torn>>
    BY <1>16 DEF ActivateGate, At, Same
  <2>2. CASE ~(versions[call[a].version] # None /\ Publishable(versions[call[a].version]))
    BY <1>16, <2>1, <2>2, Ends DEF ActivateGate, Loading, Entering, Loads
  <2>3. CASE versions[call[a].version] # None /\ Publishable(versions[call[a].version])
    <3>1. /\ call' \in [Admin -> CallType] /\ Others(a)
          /\ call'[a].op = call[a].op /\ call'[a].at = "take"
          /\ call'[a].version = call[a].version /\ call'[a].xml = call[a].xml
      BY <1>16, <2>1, <2>3, Goes DEF ActivateGate, Step, Typed, RowType, Carried,
         Carries, Chose, Loads
    <3>2. UNCHANGED <<row, versions, decision, engine>>
      BY <2>1 DEF store, memory
    <3>3. Carries(a)'
      BY <1>16, <2>1, <2>3, <3>1, <3>2 DEF ActivateGate, Typed, RowType, Carried,
         Carries, Chose, Loads
    <3>4. ~torn => /\ Chose(a)' => versions[call'[a].version] # None
                   /\ call'[a].op = "delete" /\ call'[a].at = "erase" =>
                        row.active # call'[a].version
      BY <1>16, <2>1, <2>3, <3>1, <3>2 DEF ActivateGate, Named, Chose, Loads, InUse
    <3>5. clean => /\ Stage(a)'
                   /\ Loading(a)' <=> Loading(a)
                   /\ Entering(a)' <=> Entering(a)
      BY <1>16, <2>1, <2>3, <3>1, <3>2 DEF ActivateGate, Agreed, Serial, Stage,
         Loading, Entering, Loads, Named, Chose
    <3> QED
      BY <2>1, <3>1, <3>3, <3>4, <3>5, Moves
  <2> QED
    BY <2>2, <2>3
<1>17. ASSUME NEW a \in Admin, ActivateTake(a) PROVE IInv'
  <2>1. /\ call[a].op \in {"activate"} /\ call[a].at = "take"
        /\ UNCHANGED <<store, memory, seen, clean, torn>>
    BY <1>17 DEF ActivateTake, At, Same
  <2>2. CASE ~(versions[call[a].version] # None)
    BY <1>17, <2>1, <2>2, Ends DEF ActivateTake, Loading, Entering, Loads
  <2>3. CASE versions[call[a].version] # None
    <3>1. /\ call' \in [Admin -> CallType] /\ Others(a)
          /\ call'[a].op = call[a].op /\ call'[a].at = "fill"
          /\ call'[a].version = call[a].version /\ call'[a].xml = versions[call[a].version]
      BY <1>17, <2>1, <2>3, GoesWith DEF ActivateTake, Step, Typed, RowType, Carried,
         Carries, Chose, Loads
    <3>2. UNCHANGED <<row, versions, decision, engine>>
      BY <2>1 DEF store, memory
    <3>3. Carries(a)'
      BY <1>17, <2>1, <2>3, <3>1, <3>2 DEF ActivateTake, Typed, RowType, Carried,
         Carries, Chose, Loads
    <3>4. ~torn => /\ Chose(a)' => versions[call'[a].version] # None
                   /\ call'[a].op = "delete" /\ call'[a].at = "erase" =>
                        row.active # call'[a].version
      BY <1>17, <2>1, <2>3, <3>1, <3>2 DEF ActivateTake, Named, Chose, Loads, InUse
    <3>5. clean => /\ Stage(a)'
                   /\ Loading(a)' <=> Loading(a)
                   /\ Entering(a)' <=> Entering(a)
      BY <1>17, <2>1, <2>3, <3>1, <3>2 DEF ActivateTake, Agreed, Serial, Stage,
         Loading, Entering, Loads, Named, Chose
    <3> QED
      BY <2>1, <3>1, <3>3, <3>4, <3>5, Moves
  <2> QED
    BY <2>2, <2>3
<1>18. ASSUME NEW a \in Admin, DeletePointer(a) PROVE IInv'
  <2>1. /\ call[a].op \in {"delete"} /\ call[a].at = "pointer"
        /\ UNCHANGED <<store, memory, seen, clean, torn>>
    BY <1>18 DEF DeletePointer, At, Same
  <2>2. CASE ~(row # NoRow /\ ~InUse(call[a].version))
    BY <1>18, <2>1, <2>2, Ends DEF DeletePointer, Loading, Entering, Loads
  <2>3. CASE row # NoRow /\ ~InUse(call[a].version)
    <3>1. /\ call' \in [Admin -> CallType] /\ Others(a)
          /\ call'[a].op = call[a].op /\ call'[a].at = "erase"
          /\ call'[a].version = call[a].version /\ call'[a].xml = call[a].xml
      BY <1>18, <2>1, <2>3, Goes DEF DeletePointer, Step, Typed, RowType, Carried,
         Carries, Chose, Loads
    <3>2. UNCHANGED <<row, versions, decision, engine>>
      BY <2>1 DEF store, memory
    <3>3. Carries(a)'
      BY <1>18, <2>1, <2>3, <3>1, <3>2 DEF DeletePointer, Typed, RowType, Carried,
         Carries, Chose, Loads
    <3>4. ~torn => /\ Chose(a)' => versions[call'[a].version] # None
                   /\ call'[a].op = "delete" /\ call'[a].at = "erase" =>
                        row.active # call'[a].version
      BY <1>18, <2>1, <2>3, <3>1, <3>2 DEF DeletePointer, Named, Chose, Loads, InUse
    <3>5. clean => /\ Stage(a)'
                   /\ Loading(a)' <=> Loading(a)
                   /\ Entering(a)' <=> Entering(a)
      BY <1>18, <2>1, <2>3, <3>1, <3>2 DEF DeletePointer, Agreed, Serial, Stage,
         Loading, Entering, Loads, Named, Chose
    <3> QED
      BY <2>1, <3>1, <3>3, <3>4, <3>5, Moves
  <2> QED
    BY <2>2, <2>3
<1>19. ASSUME NEW a \in Admin, StoreFails(a) PROVE IInv'
  BY <1>19, Ends DEF StoreFails
<1>20. ASSUME NEW a \in Admin, SaveWrite(a) PROVE IInv'
  <2>1. /\ call[a].op \in {"save", "seed"} /\ call[a].at = "write"
        /\ UNCHANGED <<versions, decision, engine, listed, table, torn, clean>>
    BY <1>20 DEF SaveWrite, At, Same, store, memory
  <2>2. /\ call' \in [Admin -> CallType] /\ Others(a)
        /\ call'[a].op = "none"
    BY <1>20, Returns DEF SaveWrite, Step
  <2>3. Alone' /\ Serial'
    BY <2>1, <2>2, NoneBegins
  <2>4. /\ row'.draft \in Xml /\ row'.stamp \in Nat /\ row' \in RowType
        /\ row'.active = row.active
        /\ row'.state = "PUBLISHED" <=> row.state = "PUBLISHED"
    <3>1. call[a].xml \in Xml
      BY <2>1 DEF Carried, Carries
    <3>2. CASE row = NoRow
      BY <1>20, <3>1, <3>2 DEF SaveWrite, Upserted, Typed, RowType, NoRow
    <3>3. CASE row # NoRow
      <4>1. row' = [draft |-> call[a].xml, stamp |-> row.stamp + 1,
                    active |-> row.active, state |-> row.state]
        BY <1>20, <3>3 DEF SaveWrite, Upserted, Typed, RowType
      <4> QED
        BY <3>1, <4>1 DEF Typed, RowType
    <3> QED
      BY <3>2, <3>3
  <2>5. Typed' /\ Flagged'
    BY <1>20, <2>1, <2>2, <2>4 DEF SaveWrite, Typed, Flagged, Carried, Carries, Chose,
       Loads, RowType, Version
  <2>6. Carried'
    BY <1>20, <2>1, <2>2, <2>4 DEF SaveWrite, Carried, Carries, Chose, Others, Loads
  <2>7. Named'
    BY <1>20, <2>1, <2>2, <2>4 DEF SaveWrite, Typed, Named, Chose, Others, Loads,
       Carried, Carries, Alone
  <2>8. Agreed'
    <3> SUFFICES ASSUME clean PROVE Agreed'
      BY <2>1 DEF Agreed
    <3>1. ~torn /\ \A b \in Admin \ {a} : call[b].op = "none" /\ call'[b].op = "none"
      BY <2>1, <2>2 DEF Serial, Others
    <3>2. \A b \in Admin \ {a} : Stage(b)' /\ ~Loading(b)' /\ ~Loading(b) /\ ~Entering(b)' /\ ~Entering(b)
      BY <3>1 DEF Stage, Loading, Entering
    <3>3. Stage(a)'
      BY <1>20, <2>1, <2>2, <3>1, <2>4 DEF SaveWrite, Typed, Agreed, Stage, Loading,
         Loads, Carried, Carries, Chose, Named, Publishable
    <3>4. (\A b \in Admin : ~Loading(b)') => Running'
      BY <1>20, <2>1, <2>2, <3>1, <3>2, <2>4 DEF SaveWrite, Typed, Agreed, Running,
         Published, Stage, Loading, Loads, Carried, Carries, Chose, Named, Flagged,
         Publishable
    <3>5. (\A b \in Admin : ~Entering(b)') => table' = decision'
      BY <1>20, <2>1, <2>2, <3>1, <3>2 DEF SaveWrite, Agreed, Stage, Entering
    <3> QED
      BY <3>2, <3>3, <3>4, <3>5 DEF Agreed
  <2> QED
    BY <2>3, <2>5, <2>6, <2>7, <2>8
<1>21. ASSUME NEW a \in Admin, ActivateFill(a) PROVE IInv'
  <2>1. /\ call[a].op \in {"activate"} /\ call[a].at = "fill"
        /\ UNCHANGED <<versions, decision, engine, listed, table, seen, torn, clean>>
    BY <1>21 DEF ActivateFill, At, Same, store, memory
  <2>2. /\ call' \in [Admin -> CallType] /\ Others(a)
        /\ call'[a].op = call[a].op /\ call'[a].at = "mark"
          /\ call'[a].version = call[a].version /\ call'[a].xml = call[a].xml
    BY <1>21, Goes DEF ActivateFill, Step
  <2>3. Alone' /\ Serial'
    BY <2>1, <2>2, NoneBegins
  <2>4. /\ row'.draft \in Xml /\ row'.stamp \in Nat /\ row' \in RowType
        /\ row'.active = row.active
        /\ row'.state = "PUBLISHED" <=> row.state = "PUBLISHED"
    <3>1. call[a].xml \in Xml
      BY <2>1 DEF Carried, Carries
    <3>2. CASE row = NoRow
      BY <1>21, <3>1, <3>2 DEF ActivateFill, Upserted, Typed, RowType, NoRow
    <3>3. CASE row # NoRow
      <4>1. row' = [draft |-> call[a].xml, stamp |-> row.stamp + 1,
                    active |-> row.active, state |-> row.state]
        BY <1>21, <3>3 DEF ActivateFill, Upserted, Typed, RowType
      <4> QED
        BY <3>1, <4>1 DEF Typed, RowType
    <3> QED
      BY <3>2, <3>3
  <2>5. Typed' /\ Flagged'
    BY <1>21, <2>1, <2>2, <2>4 DEF ActivateFill, Typed, Flagged, Carried, Carries,
       Chose, Loads, RowType, Version
  <2>6. Carried'
    BY <1>21, <2>1, <2>2, <2>4 DEF ActivateFill, Carried, Carries, Chose, Others, Loads
  <2>7. Named'
    BY <1>21, <2>1, <2>2, <2>4 DEF ActivateFill, Typed, Named, Chose, Others, Loads,
       Carried, Carries, Alone
  <2>8. Agreed'
    <3> SUFFICES ASSUME clean PROVE Agreed'
      BY <2>1 DEF Agreed
    <3>1. ~torn /\ \A b \in Admin \ {a} : call[b].op = "none" /\ call'[b].op = "none"
      BY <2>1, <2>2 DEF Serial, Others
    <3>2. \A b \in Admin \ {a} : Stage(b)' /\ ~Loading(b)' /\ ~Loading(b) /\ ~Entering(b)' /\ ~Entering(b)
      BY <3>1 DEF Stage, Loading, Entering
    <3>3. Stage(a)'
      BY <1>21, <2>1, <2>2, <3>1, <2>4 DEF ActivateFill, Typed, Agreed, Stage,
         Loading, Loads, Carried, Carries, Chose, Named, Publishable
    <3>4. (\A b \in Admin : ~Loading(b)') => Running'
      BY <1>21, <2>1, <2>2, <3>1, <3>2, <2>4 DEF ActivateFill, Typed, Agreed, Running,
         Published, Stage, Loading, Loads, Carried, Carries, Chose, Named, Flagged,
         Publishable
    <3>5. (\A b \in Admin : ~Entering(b)') => table' = decision'
      BY <1>21, <2>1, <2>2, <3>1, <3>2 DEF ActivateFill, Agreed, Stage, Entering
    <3> QED
      BY <3>2, <3>3, <3>4, <3>5 DEF Agreed
  <2> QED
    BY <2>3, <2>5, <2>6, <2>7, <2>8
<1>22. ASSUME NEW a \in Admin, MarkPublished(a) PROVE IInv'
  <2>1. /\ call[a].op \in {"publish", "activate"} /\ call[a].at = "mark"
        /\ UNCHANGED <<versions, decision, engine, listed, table, seen, torn, clean>>
    BY <1>22 DEF MarkPublished, At, Same, store, memory
  <2>2. /\ call' \in [Admin -> CallType] /\ Others(a)
        /\ call'[a].op = call[a].op /\ call'[a].at = "load"
          /\ call'[a].version = call[a].version /\ call'[a].xml = call[a].xml
    BY <1>22, Goes DEF MarkPublished, Step
  <2>3. Alone' /\ Serial'
    BY <2>1, <2>2, NoneBegins
  <2>4. /\ call[a].version \in Version
        /\ row' \in RowType /\ row'.draft = row.draft /\ row'.active = call[a].version
        /\ row'.state = "PUBLISHED"
    <3>1. row' = [draft |-> row.draft, stamp |-> row.stamp,
                  active |-> call[a].version, state |-> "PUBLISHED"]
      BY <1>22 DEF MarkPublished, Typed, RowType
    <3>2. call[a].version \in Version
      BY <2>1 DEF Carried, Carries, Chose, Loads
    <3> QED
      BY <3>1, <3>2 DEF Typed, RowType, Version
  <2>5. Typed' /\ Flagged'
    BY <1>22, <2>1, <2>2, <2>4 DEF MarkPublished, Typed, Flagged, Carried, Carries,
       Chose, Loads, RowType, Version
  <2>6. Carried'
    BY <1>22, <2>1, <2>2, <2>4 DEF MarkPublished, Carried, Carries, Chose, Others, Loads
  <2>7. Named'
    BY <1>22, <2>1, <2>2, <2>4 DEF MarkPublished, Typed, Named, Chose, Others, Loads,
       Carried, Carries, Alone
  <2>8. Agreed'
    <3> SUFFICES ASSUME clean PROVE Agreed'
      BY <2>1 DEF Agreed
    <3>1. ~torn /\ \A b \in Admin \ {a} : call[b].op = "none" /\ call'[b].op = "none"
      BY <2>1, <2>2 DEF Serial, Others
    <3>2. \A b \in Admin \ {a} : Stage(b)' /\ ~Loading(b)' /\ ~Loading(b) /\ ~Entering(b)' /\ ~Entering(b)
      BY <3>1 DEF Stage, Loading, Entering
    <3>3. Stage(a)'
      BY <1>22, <2>1, <2>2, <3>1, <2>4 DEF MarkPublished, Typed, Agreed, Stage,
         Loading, Loads, Carried, Carries, Chose, Named, Publishable
    <3>4. (\A b \in Admin : ~Loading(b)') => Running'
      BY <1>22, <2>1, <2>2, <3>1, <3>2, <2>4 DEF MarkPublished, Typed, Agreed,
         Running, Published, Stage, Loading, Loads, Carried, Carries, Chose, Named,
         Flagged, Publishable
    <3>5. (\A b \in Admin : ~Entering(b)') => table' = decision'
      BY <1>22, <2>1, <2>2, <3>1, <3>2 DEF MarkPublished, Agreed, Stage, Entering
    <3> QED
      BY <3>2, <3>3, <3>4, <3>5 DEF Agreed
  <2> QED
    BY <2>3, <2>5, <2>6, <2>7, <2>8
<1>23. ASSUME NEW a \in Admin, HotDeploy(a) PROVE IInv'
  <2>1. /\ call[a].op \in {"publish", "activate"} /\ call[a].at = "deploy"
        /\ UNCHANGED <<row, versions, decision, listed, table, seen, torn, clean>>
    BY <1>23 DEF HotDeploy, At, Same, store, memory
  <2>2. /\ call' \in [Admin -> CallType] /\ Others(a)
        /\ call'[a].op = call[a].op /\ call'[a].at = "list"
          /\ call'[a].version = call[a].version /\ call'[a].xml = call[a].xml
    BY <1>23, Goes DEF HotDeploy, Step
  <2>3. Alone' /\ Serial'
    BY <2>1, <2>2, NoneBegins
  <2>5. Typed' /\ Flagged'
    BY <1>23, <2>1, <2>2 DEF HotDeploy, Typed, Flagged, Carried, Carries, Chose,
       Loads, RowType, Version
  <2>6. Carried'
    BY <1>23, <2>1, <2>2 DEF HotDeploy, Carried, Carries, Chose, Others, Loads
  <2>7. Named'
    BY <1>23, <2>1, <2>2 DEF HotDeploy, Typed, Named, Chose, Others, Loads, Carried,
       Carries, Alone
  <2>8. Agreed'
    <3> SUFFICES ASSUME clean PROVE Agreed'
      BY <2>1 DEF Agreed
    <3>1. ~torn /\ \A b \in Admin \ {a} : call[b].op = "none" /\ call'[b].op = "none"
      BY <2>1, <2>2 DEF Serial, Others
    <3>2. \A b \in Admin \ {a} : Stage(b)' /\ ~Loading(b)' /\ ~Loading(b) /\ ~Entering(b)' /\ ~Entering(b)
      BY <3>1 DEF Stage, Loading, Entering
    <3>3. Stage(a)'
      BY <1>23, <2>1, <2>2, <3>1 DEF HotDeploy, Typed, Agreed, Stage, Loading, Loads,
         Carried, Carries, Chose, Named, Publishable
    <3>4. (\A b \in Admin : ~Loading(b)') => Running'
      BY <1>23, <2>1, <2>2, <3>1, <3>2 DEF HotDeploy, Typed, Agreed, Running,
         Published, Stage, Loading, Loads, Carried, Carries, Chose, Named, Flagged,
         Publishable
    <3>5. (\A b \in Admin : ~Entering(b)') => table' = decision'
      BY <1>23, <2>1, <2>2, <3>1, <3>2 DEF HotDeploy, Agreed, Stage, Entering
    <3> QED
      BY <3>2, <3>3, <3>4, <3>5 DEF Agreed
  <2> QED
    BY <2>3, <2>5, <2>6, <2>7, <2>8
<1>24. ASSUME NEW a \in Admin, HotList(a) PROVE IInv'
  <2>1. /\ call[a].op \in {"publish", "activate"} /\ call[a].at = "list"
        /\ UNCHANGED <<row, versions, decision, engine, table, seen, torn, clean>>
    BY <1>24 DEF HotList, At, Same, store, memory
  <2>2. /\ call' \in [Admin -> CallType] /\ Others(a)
        /\ call'[a].op = "none"
    BY <1>24, Returns DEF HotList, Step
  <2>3. Alone' /\ Serial'
    BY <2>1, <2>2, NoneBegins
  <2>4. clean => /\ engine = Published /\ listed' = Published
                 /\ Publishable(engine)
    <3> SUFFICES ASSUME clean PROVE /\ engine = Published /\ listed' = Published
                                    /\ Publishable(engine)
      OBVIOUS
    <3>1. /\ row.active = call[a].version /\ Publishable(versions[call[a].version])
          /\ call[a].xml = versions[call[a].version] /\ engine = call[a].xml
      BY <2>1 DEF Agreed, Stage, Loading, Loads
    <3>2. row.active # 0
      BY <2>1, <3>1 DEF Carried, Carries, Chose, Loads, Version
    <3> QED
      BY <1>24, <3>1, <3>2 DEF HotList, Published, Flagged
  <2>5. Typed' /\ Flagged'
    BY <1>24, <2>1, <2>2, <2>4 DEF HotList, Typed, Flagged, Carried, Carries, Chose,
       Loads, RowType, Version
  <2>6. Carried'
    BY <1>24, <2>1, <2>2, <2>4 DEF HotList, Carried, Carries, Chose, Others, Loads
  <2>7. Named'
    BY <1>24, <2>1, <2>2, <2>4 DEF HotList, Typed, Named, Chose, Others, Loads,
       Carried, Carries, Alone
  <2>8. Agreed'
    <3> SUFFICES ASSUME clean PROVE Agreed'
      BY <2>1 DEF Agreed
    <3>1. ~torn /\ \A b \in Admin \ {a} : call[b].op = "none" /\ call'[b].op = "none"
      BY <2>1, <2>2 DEF Serial, Others
    <3>2. \A b \in Admin \ {a} : Stage(b)' /\ ~Loading(b)' /\ ~Loading(b) /\ ~Entering(b)' /\ ~Entering(b)
      BY <3>1 DEF Stage, Loading, Entering
    <3>3. Stage(a)'
      BY <1>24, <2>1, <2>2, <3>1, <2>4 DEF HotList, Typed, Agreed, Stage, Loading,
         Loads, Carried, Carries, Chose, Named, Publishable
    <3>4. (\A b \in Admin : ~Loading(b)') => Running'
      BY <1>24, <2>1, <2>2, <3>1, <3>2, <2>4 DEF HotList, Typed, Agreed, Running,
         Published, Stage, Loading, Loads, Carried, Carries, Chose, Named, Flagged,
         Publishable
    <3>5. (\A b \in Admin : ~Entering(b)') => table' = decision'
      BY <1>24, <2>1, <2>2, <3>1, <3>2 DEF HotList, Agreed, Stage, Entering
    <3> QED
      BY <3>2, <3>3, <3>4, <3>5 DEF Agreed
  <2> QED
    BY <2>3, <2>5, <2>6, <2>7, <2>8
<1>25. ASSUME NEW a \in Admin, DeleteErase(a) PROVE IInv'
  <2>1. /\ call[a].op \in {"delete"} /\ call[a].at = "erase"
        /\ UNCHANGED <<row, decision, engine, listed, table, seen, torn, clean>>
    BY <1>25 DEF DeleteErase, At, Same, store, memory
  <2>2. /\ call' \in [Admin -> CallType] /\ Others(a)
        /\ call'[a].op = "none"
    BY <1>25, Returns DEF DeleteErase, Step
  <2>3. Alone' /\ Serial'
    BY <2>1, <2>2, NoneBegins
  <2>5. Typed' /\ Flagged'
    BY <1>25, <2>1, <2>2 DEF DeleteErase, Typed, Flagged, Carried, Carries, Chose,
       Loads, RowType, Version
  <2>6. Carried'
    BY <1>25, <2>1, <2>2 DEF DeleteErase, Carried, Carries, Chose, Others, Loads
  <2>7. Named'
    BY <1>25, <2>1, <2>2 DEF DeleteErase, Typed, Named, Chose, Others, Loads, Carried,
       Carries, Alone
  <2>8. Agreed'
    <3> SUFFICES ASSUME clean PROVE Agreed'
      BY <2>1 DEF Agreed
    <3>1. ~torn /\ \A b \in Admin \ {a} : call[b].op = "none" /\ call'[b].op = "none"
      BY <2>1, <2>2 DEF Serial, Others
    <3>2. \A b \in Admin \ {a} : Stage(b)' /\ ~Loading(b)' /\ ~Loading(b) /\ ~Entering(b)' /\ ~Entering(b)
      BY <3>1 DEF Stage, Loading, Entering
    <3>3. Stage(a)'
      BY <1>25, <2>1, <2>2, <3>1 DEF DeleteErase, Typed, Agreed, Stage, Loading,
         Loads, Carried, Carries, Chose, Named, Publishable
    <3>4. (\A b \in Admin : ~Loading(b)') => Running'
      BY <1>25, <2>1, <2>2, <3>1, <3>2 DEF DeleteErase, Typed, Agreed, Running,
         Published, Stage, Loading, Loads, Carried, Carries, Chose, Named, Flagged,
         Publishable
    <3>5. (\A b \in Admin : ~Entering(b)') => table' = decision'
      BY <1>25, <2>1, <2>2, <3>1, <3>2 DEF DeleteErase, Agreed, Stage, Entering
    <3> QED
      BY <3>2, <3>3, <3>4, <3>5 DEF Agreed
  <2> QED
    BY <2>3, <2>5, <2>6, <2>7, <2>8
<1>26. ASSUME NEW a \in Admin, RegisterUpsert(a) PROVE IInv'
  <2>1. /\ call[a].op \in {"register"} /\ call[a].at = "upsert"
        /\ UNCHANGED <<row, versions, engine, listed, table, seen, torn, clean>>
    BY <1>26 DEF RegisterUpsert, At, Same, store, memory
  <2>2. /\ call' \in [Admin -> CallType] /\ Others(a)
        /\ call'[a].op = call[a].op /\ call'[a].at = "enter"
          /\ call'[a].version = call[a].version /\ call'[a].xml = call[a].xml
    BY <1>26, Goes DEF RegisterUpsert, Step
  <2>3. Alone' /\ Serial'
    BY <2>1, <2>2, NoneBegins
  <2>5. Typed' /\ Flagged'
    BY <1>26, <2>1, <2>2 DEF RegisterUpsert, Typed, Flagged, Carried, Carries, Chose,
       Loads, RowType, Version
  <2>6. Carried'
    BY <1>26, <2>1, <2>2 DEF RegisterUpsert, Carried, Carries, Chose, Others, Loads
  <2>7. Named'
    BY <1>26, <2>1, <2>2 DEF RegisterUpsert, Typed, Named, Chose, Others, Loads,
       Carried, Carries, Alone
  <2>8. Agreed'
    <3> SUFFICES ASSUME clean PROVE Agreed'
      BY <2>1 DEF Agreed
    <3>1. ~torn /\ \A b \in Admin \ {a} : call[b].op = "none" /\ call'[b].op = "none"
      BY <2>1, <2>2 DEF Serial, Others
    <3>2. \A b \in Admin \ {a} : Stage(b)' /\ ~Loading(b)' /\ ~Loading(b) /\ ~Entering(b)' /\ ~Entering(b)
      BY <3>1 DEF Stage, Loading, Entering
    <3>3. Stage(a)'
      BY <1>26, <2>1, <2>2, <3>1 DEF RegisterUpsert, Typed, Agreed, Stage, Loading,
         Loads, Carried, Carries, Chose, Named, Publishable
    <3>4. (\A b \in Admin : ~Loading(b)') => Running'
      BY <1>26, <2>1, <2>2, <3>1, <3>2 DEF RegisterUpsert, Typed, Agreed, Running,
         Published, Stage, Loading, Loads, Carried, Carries, Chose, Named, Flagged,
         Publishable
    <3>5. (\A b \in Admin : ~Entering(b)') => table' = decision'
      BY <1>26, <2>1, <2>2, <3>1, <3>2 DEF RegisterUpsert, Agreed, Stage, Entering
    <3> QED
      BY <3>2, <3>3, <3>4, <3>5 DEF Agreed
  <2> QED
    BY <2>3, <2>5, <2>6, <2>7, <2>8
<1>27. ASSUME NEW a \in Admin, RegisterEnter(a) PROVE IInv'
  <2>1. /\ call[a].op \in {"register"} /\ call[a].at = "enter"
        /\ UNCHANGED <<row, versions, decision, engine, listed, seen, torn, clean>>
    BY <1>27 DEF RegisterEnter, At, Same, store, memory
  <2>2. /\ call' \in [Admin -> CallType] /\ Others(a)
        /\ call'[a].op = "none"
    BY <1>27, Returns DEF RegisterEnter, Step
  <2>3. Alone' /\ Serial'
    BY <2>1, <2>2, NoneBegins
  <2>5. Typed' /\ Flagged'
    BY <1>27, <2>1, <2>2 DEF RegisterEnter, Typed, Flagged, Carried, Carries, Chose,
       Loads, RowType, Version
  <2>6. Carried'
    BY <1>27, <2>1, <2>2 DEF RegisterEnter, Carried, Carries, Chose, Others, Loads
  <2>7. Named'
    BY <1>27, <2>1, <2>2 DEF RegisterEnter, Typed, Named, Chose, Others, Loads,
       Carried, Carries, Alone
  <2>8. Agreed'
    <3> SUFFICES ASSUME clean PROVE Agreed'
      BY <2>1 DEF Agreed
    <3>1. ~torn /\ \A b \in Admin \ {a} : call[b].op = "none" /\ call'[b].op = "none"
      BY <2>1, <2>2 DEF Serial, Others
    <3>2. \A b \in Admin \ {a} : Stage(b)' /\ ~Loading(b)' /\ ~Loading(b) /\ ~Entering(b)' /\ ~Entering(b)
      BY <3>1 DEF Stage, Loading, Entering
    <3>3. Stage(a)'
      BY <1>27, <2>1, <2>2, <3>1 DEF RegisterEnter, Typed, Agreed, Stage, Loading,
         Loads, Carried, Carries, Chose, Named, Publishable
    <3>4. (\A b \in Admin : ~Loading(b)') => Running'
      BY <1>27, <2>1, <2>2, <3>1, <3>2 DEF RegisterEnter, Typed, Agreed, Running,
         Published, Stage, Loading, Loads, Carried, Carries, Chose, Named, Flagged,
         Publishable
    <3>5. (\A b \in Admin : ~Entering(b)') => table' = decision'
      BY <1>27, <2>1, <2>2, <3>1, <3>2 DEF RegisterEnter, Agreed, Stage, Entering
    <3> QED
      BY <3>2, <3>3, <3>4, <3>5 DEF Agreed
  <2> QED
    BY <2>3, <2>5, <2>6, <2>7, <2>8
<1>28. ASSUME NEW a \in Admin, UnregisterDrop(a) PROVE IInv'
  <2>1. /\ call[a].op \in {"unregister"} /\ call[a].at = "drop"
        /\ UNCHANGED <<row, versions, engine, listed, table, seen, torn, clean>>
    BY <1>28 DEF UnregisterDrop, At, Same, store, memory
  <2>2. /\ call' \in [Admin -> CallType] /\ Others(a)
        /\ call'[a].op = call[a].op /\ call'[a].at = "leave"
          /\ call'[a].version = call[a].version /\ call'[a].xml = call[a].xml
    BY <1>28, Goes DEF UnregisterDrop, Step
  <2>3. Alone' /\ Serial'
    BY <2>1, <2>2, NoneBegins
  <2>5. Typed' /\ Flagged'
    BY <1>28, <2>1, <2>2 DEF UnregisterDrop, Typed, Flagged, Carried, Carries, Chose,
       Loads, RowType, Version
  <2>6. Carried'
    BY <1>28, <2>1, <2>2 DEF UnregisterDrop, Carried, Carries, Chose, Others, Loads
  <2>7. Named'
    BY <1>28, <2>1, <2>2 DEF UnregisterDrop, Typed, Named, Chose, Others, Loads,
       Carried, Carries, Alone
  <2>8. Agreed'
    <3> SUFFICES ASSUME clean PROVE Agreed'
      BY <2>1 DEF Agreed
    <3>1. ~torn /\ \A b \in Admin \ {a} : call[b].op = "none" /\ call'[b].op = "none"
      BY <2>1, <2>2 DEF Serial, Others
    <3>2. \A b \in Admin \ {a} : Stage(b)' /\ ~Loading(b)' /\ ~Loading(b) /\ ~Entering(b)' /\ ~Entering(b)
      BY <3>1 DEF Stage, Loading, Entering
    <3>3. Stage(a)'
      BY <1>28, <2>1, <2>2, <3>1 DEF UnregisterDrop, Typed, Agreed, Stage, Loading,
         Loads, Carried, Carries, Chose, Named, Publishable
    <3>4. (\A b \in Admin : ~Loading(b)') => Running'
      BY <1>28, <2>1, <2>2, <3>1, <3>2 DEF UnregisterDrop, Typed, Agreed, Running,
         Published, Stage, Loading, Loads, Carried, Carries, Chose, Named, Flagged,
         Publishable
    <3>5. (\A b \in Admin : ~Entering(b)') => table' = decision'
      BY <1>28, <2>1, <2>2, <3>1, <3>2 DEF UnregisterDrop, Agreed, Stage, Entering
    <3> QED
      BY <3>2, <3>3, <3>4, <3>5 DEF Agreed
  <2> QED
    BY <2>3, <2>5, <2>6, <2>7, <2>8
<1>29. ASSUME NEW a \in Admin, UnregisterLeave(a) PROVE IInv'
  <2>1. /\ call[a].op \in {"unregister"} /\ call[a].at = "leave"
        /\ UNCHANGED <<row, versions, decision, engine, listed, seen, torn, clean>>
    BY <1>29 DEF UnregisterLeave, At, Same, store, memory
  <2>2. /\ call' \in [Admin -> CallType] /\ Others(a)
        /\ call'[a].op = "none"
    BY <1>29, Returns DEF UnregisterLeave, Step
  <2>3. Alone' /\ Serial'
    BY <2>1, <2>2, NoneBegins
  <2>5. Typed' /\ Flagged'
    BY <1>29, <2>1, <2>2 DEF UnregisterLeave, Typed, Flagged, Carried, Carries, Chose,
       Loads, RowType, Version
  <2>6. Carried'
    BY <1>29, <2>1, <2>2 DEF UnregisterLeave, Carried, Carries, Chose, Others, Loads
  <2>7. Named'
    BY <1>29, <2>1, <2>2 DEF UnregisterLeave, Typed, Named, Chose, Others, Loads,
       Carried, Carries, Alone
  <2>8. Agreed'
    <3> SUFFICES ASSUME clean PROVE Agreed'
      BY <2>1 DEF Agreed
    <3>1. ~torn /\ \A b \in Admin \ {a} : call[b].op = "none" /\ call'[b].op = "none"
      BY <2>1, <2>2 DEF Serial, Others
    <3>2. \A b \in Admin \ {a} : Stage(b)' /\ ~Loading(b)' /\ ~Loading(b) /\ ~Entering(b)' /\ ~Entering(b)
      BY <3>1 DEF Stage, Loading, Entering
    <3>3. Stage(a)'
      BY <1>29, <2>1, <2>2, <3>1 DEF UnregisterLeave, Typed, Agreed, Stage, Loading,
         Loads, Carried, Carries, Chose, Named, Publishable
    <3>4. (\A b \in Admin : ~Loading(b)') => Running'
      BY <1>29, <2>1, <2>2, <3>1, <3>2 DEF UnregisterLeave, Typed, Agreed, Running,
         Published, Stage, Loading, Loads, Carried, Carries, Chose, Named, Flagged,
         Publishable
    <3>5. (\A b \in Admin : ~Entering(b)') => table' = decision'
      BY <1>29, <2>1, <2>2, <3>1, <3>2 DEF UnregisterLeave, Agreed, Stage, Entering
    <3> QED
      BY <3>2, <3>3, <3>4, <3>5 DEF Agreed
  <2> QED
    BY <2>3, <2>5, <2>6, <2>7, <2>8
<1>30. ASSUME NEW a \in Admin, PublishInsert(a) PROVE IInv'
  <2>1. CASE Taken(call[a].version)
    BY <1>30, <2>1, Ends DEF PublishInsert, At, Same, Loading, Entering, Loads, store
  <2>2. CASE ~Taken(call[a].version)
    <3>1. /\ call[a].op \in {"publish"} /\ call[a].at = "insert"
          /\ UNCHANGED <<row, decision, engine, listed, table, seen, torn, clean>>
      BY <1>30, <2>2 DEF PublishInsert, At, Same, store, memory
    <3>2. /\ call' \in [Admin -> CallType] /\ Others(a)
          /\ call'[a].op = call[a].op /\ call'[a].at = "mark"
            /\ call'[a].version = call[a].version /\ call'[a].xml = call[a].xml
      BY <1>30, <2>2, Goes DEF PublishInsert, Step
    <3>3. Alone' /\ Serial'
      BY <3>1, <3>2, NoneBegins
    <3>4. /\ call[a].version \in Version /\ call[a].xml \in Xml
          /\ versions[call[a].version] = None
          /\ versions' \in [Version -> Xml \cup {None}]
          /\ \A v \in Version : versions'[v] = IF v = call[a].version THEN call[a].xml
                                                                   ELSE versions[v]
      BY <1>30, <2>2, <3>1 DEF PublishInsert, Typed, Taken, Carried, Carries
    <3>5. Typed' /\ Flagged'
      BY <1>30, <2>2, <3>1, <3>2, <3>4 DEF PublishInsert, Typed, Flagged, Carried,
         Carries, Chose, Loads, RowType, Version
    <3>6. Carried'
      BY <1>30, <2>2, <3>1, <3>2, <3>4 DEF PublishInsert, Carried, Carries, Chose,
         Others, Loads
    <3>7. Named'
      <4> SUFFICES ASSUME ~torn PROVE Named'
        BY <3>1 DEF Named
      <4>1. \A v \in Version : versions[v] # None => versions'[v] # None
        BY <3>4
      <4>2. row.active # 0 => versions'[row.active] # None
        BY <3>4, <4>1 DEF Named, Typed, RowType, Version
      <4>3. ASSUME NEW b \in Admin, Chose(b)' PROVE versions'[call'[b].version] # None
        <5>1. CASE b = a
          BY <3>2, <3>4, <5>1
        <5>2. CASE b # a
          <6>1. Chose(b) /\ call'[b] = call[b]
            BY <3>2, <4>3, <5>2 DEF Chose, Others
          <6> QED
            BY <4>1, <6>1 DEF Named, Carried, Carries
        <5> QED
          BY <5>1, <5>2
      <4> QED
        BY <3>1, <3>2, <4>2, <4>3 DEF Named, Others
    <3>8. Agreed'
      <4> SUFFICES ASSUME clean PROVE Agreed'
        BY <3>1 DEF Agreed
      <4>1. ~torn /\ \A b \in Admin \ {a} : call[b].op = "none" /\ call'[b].op = "none"
        BY <3>1, <3>2 DEF Serial, Others
      <4>2. \A b \in Admin \ {a} : Stage(b)' /\ ~Loading(b)' /\ ~Loading(b) /\ ~Entering(b)' /\ ~Entering(b)
        BY <4>1 DEF Stage, Loading, Entering
      <4>3. Stage(a)'
        BY <1>30, <2>2, <3>1, <3>2, <4>1, <3>4 DEF PublishInsert, Typed, Agreed,
           Stage, Loading, Loads, Carried, Carries, Chose, Named, Publishable
      <4>4. (\A b \in Admin : ~Loading(b)') => Running'
        <5>1. \A b \in Admin : ~Loading(b)
          BY <3>1, <4>2 DEF Loading, Loads
        <5>2. row.active # 0 => versions'[row.active] = versions[row.active]
          BY <3>4, <4>1 DEF Named, Typed, RowType, Version
        <5> QED
          BY <3>1, <5>1, <5>2 DEF Agreed, Running, Published, Publishable
      <4>5. (\A b \in Admin : ~Entering(b)') => table' = decision'
        BY <1>30, <2>2, <3>1, <3>2, <4>1, <4>2 DEF PublishInsert, Agreed, Stage,
           Entering
      <4> QED
        BY <4>2, <4>3, <4>4, <4>5 DEF Agreed
    <3> QED
      BY <3>3, <3>5, <3>6, <3>7, <3>8
  <2> QED
    BY <2>1, <2>2
<1>31. CASE Restart
  <2>1. /\ UNCHANGED <<row, versions, decision, seen, torn>>
        /\ engine' = Published /\ listed' = Published /\ table' = decision
        /\ clean' => clean /\ Busy = {}
    BY <1>31 DEF Restart, store
  <2>2. call' \in [Admin -> CallType] /\ \A a \in Admin : call'[a].op = "none"
    BY <1>31, IdleType DEF Restart
  <2>3. Typed' /\ Flagged'
    BY <2>1, <2>2 DEF Typed, Flagged
  <2>4. Carried' /\ Named'
    BY <2>1, <2>2 DEF Carried, Carries, Chose, Named
  <2>5. Alone' /\ Serial'
    BY <2>1, <2>2 DEF Alone, Serial
  <2>6. \A a \in Admin : Stage(a)'
    BY <2>2 DEF Stage, Loading
  <2>7. clean' => Running
    BY <2>1 DEF Agreed, Busy, Loading
  <2>8. Agreed'
    BY <2>1, <2>6, <2>7 DEF Agreed, Running, Published, Publishable
  <2> QED
    BY <2>3, <2>4, <2>5, <2>8
<1> QED
  BY <1>1, <1>2, <1>3, <1>4, <1>5, <1>6, <1>7, <1>8, <1>9, <1>10,
     <1>11, <1>12, <1>13, <1>14, <1>15, <1>16, <1>17, <1>18, <1>19,
     <1>20, <1>21, <1>22, <1>23, <1>24, <1>25, <1>26, <1>27, <1>28,
     <1>29, <1>30, <1>31 DEF Next

-----------------------------------------------------------------------------
\* The version the row points at exists, so that a restart loads it, as long
\* as no deletion ran beside another request (delete_version, mark_published).
THEOREM RegistryActiveExists == Spec => []ActiveExists
<1>1. IInv => ActiveExists
  BY DEF IInv, Named, ActiveExists
<1> QED
  BY <1>1, InitInv, StepInv, PTL DEF Spec

\* Requests made one at a time that all succeed, with restarts between them,
\* leave what the engine runs, what is listed and the decision table as the
\* store holds them, and what runs passed the gate.
THEOREM RegistrySettled == Spec => []Settled
<1>1. IInv => Settled
  <2> SUFFICES ASSUME IInv, clean, Busy = {} PROVE Running /\ Flagged /\ table = decision
    BY DEF Settled, Running, Flagged
  <2>1. \A a \in Admin : ~Loading(a) /\ ~Entering(a)
    BY DEF Busy, Loading, Entering
  <2> QED
    BY <2>1 DEF IInv, Agreed
<1> QED
  BY <1>1, InitInv, StepInv, PTL DEF Spec
=============================================================================
