------------------------------ MODULE Registry ------------------------------
(***************************************************************************)
(* The design-time registry of one definition: administrators save drafts, *)
(* publish them as versions, activate and delete versions, while the       *)
(* running engine is reloaded behind them (hot_load_version) and the       *)
(* service restarts; and the decision table a business rule task uses.     *)
(* A request makes several store calls and holds no lock between them, so  *)
(* every call is a step of its own.                                        *)
(*                                                                         *)
(* Simplifications:                                                        *)
(*  - one key, and a behaviour is about a definition or about a decision   *)
(*    table (subject): no request touches two keys or both kinds;          *)
(*  - a document is a member of Xml; those that declare required variables *)
(*    without the strict policy are Lax; every document compiles (a draft  *)
(*    that does not is refused before anything is read);                   *)
(*  - of the row's columns only those a later call depends on are kept, so *)
(*    the reads whose result only fills the others are left out;           *)
(*  - updated_at is the number of the write, so two writes never share it. *)
(***************************************************************************)
EXTENDS Naturals, FiniteSets, FiniteSetsExt

CONSTANTS Admin, Xml, Lax, Table,
          None,        \* an absent column, row or table
          MaxVersion,  \* bound on version numbers
          MaxWrites,   \* bound on writes of the draft
          Faults       \* bound on failed store calls and restarts

ASSUME RegistryAssumption ==
  /\ Lax \subseteq Xml
  /\ None \notin Xml \cup Table
  /\ {MaxVersion, MaxWrites, Faults} \subseteq Nat

Version == 1 .. MaxVersion

VARIABLES
  subject,   \* what the behaviour is about
  row,       \* cmx_flow_definition: draft, stamp (updated_at), active, state
  versions,  \* cmx_flow_definition_version, by version
  engine,    \* the document the engine's definitions hold
  listed,    \* the document rt.definitions holds
  decision,  \* cmx_flow_decision: the stored table
  table,     \* the table in the engine's decisions
  call,      \* what each administrator's request is doing
  seen,      \* the updated_at each administrator's editor was opened at
  faults,
  clean,     \* no two requests overlapped and none failed (history)
  torn       \* a deletion overlapped another request (history)

store == <<subject, row, versions, decision>>
memory == <<engine, listed, table>>
vars == <<subject, row, versions, engine, listed, decision, table, call, seen, faults,
          clean, torn>>

Op == {"save", "seed", "publish", "activate", "delete", "register",
       "unregister"}
Step == {"check", "probe", "write", "gate", "draft", "number", "insert",
         "take", "fill", "mark", "load", "deploy", "list", "pointer", "erase",
         "upsert", "enter", "drop", "leave"}

Idle == [op |-> "none", at |-> "none", xml |-> None, version |-> 0, base |-> 0]
NoRow == [draft |-> None, stamp |-> 0, active |-> 0, state |-> "NONE"]

TypeOK ==
  /\ subject \in {"definition", "decision"}
  /\ row \in [draft : Xml \cup {None}, stamp : 0 .. MaxWrites,
              active : 0 .. MaxVersion, state : {"NONE", "DRAFT", "PUBLISHED"}]
  /\ versions \in [Version -> Xml \cup {None}]
  /\ {engine, listed} \subseteq Xml \cup {None}
  /\ {decision, table} \subseteq Table \cup {None}
  /\ call \in [Admin -> [op : Op \cup {"none"}, at : Step \cup {"none"},
                         xml : Xml \cup Table \cup {None},
                         version : 0 .. MaxVersion + 1,
                         base : 0 .. MaxWrites]]
  /\ seen \in [Admin -> 0 .. MaxWrites]
  /\ faults \in 0 .. Faults
  /\ {clean, torn} \subseteq BOOLEAN

Init ==
  /\ subject \in {"definition", "decision"}
  /\ row = NoRow
  /\ versions = [v \in Version |-> None]
  /\ engine = None /\ listed = None
  /\ decision = None /\ table = None
  /\ call = [a \in Admin |-> Idle]
  /\ seen = [a \in Admin |-> 0]
  /\ faults = 0
  /\ clean = TRUE /\ torn = FALSE

Busy == {a \in Admin : call[a].op # "none"}

Begin(a, op, at, x, v, base) ==
  /\ call[a] = Idle
  /\ subject = IF op \in {"register", "unregister"} THEN "decision"
               ELSE "definition"
  /\ call' = [call EXCEPT ![a] = [op |-> op, at |-> at, xml |-> x, version |-> v,
                                  base |-> base]]
  /\ clean' = (clean /\ Busy = {})
  /\ torn' = \/ torn
             \/ Busy # {} /\ (op = "delete" \/ \E b \in Busy : call[b].op = "delete")
  /\ UNCHANGED <<store, memory, seen, faults>>

At(a, op, at) == call[a].op \in op /\ call[a].at = at
Goto(a, at) == call' = [call EXCEPT ![a].at = at]
GotoWith(a, at, x) == call' = [call EXCEPT ![a].at = at, ![a].xml = x]
Return(a) == call' = [call EXCEPT ![a] = Idle]
Same == UNCHANGED <<seen, faults, clean, torn>>

-----------------------------------------------------------------------------
(* Requests.                                                               *)

\* The designer loads the definition and remembers its updatedAt.
Open(a) ==
  /\ row # NoRow
  /\ seen[a] # row.stamp
  /\ seen' = [seen EXCEPT ![a] = row.stamp]
  /\ UNCHANGED <<store, memory, call, faults, clean, torn>>

\* With a base (the stamp the editor was opened at) or unconditionally.
Save(a) == \E x \in Xml, base \in {0, seen[a]} : Begin(a, "save", "check", x, 0, base)

Seed(a) == \E x \in Xml : Begin(a, "seed", "probe", x, 0, 0)

\* The handler's gate needs a draft, and answers 400 without one.
Publish(a) == row.draft # None /\ Begin(a, "publish", "gate", None, 0, 0)

Activate(a) == \E v \in Version : versions[v] # None
                                  /\ Begin(a, "activate", "gate", None, v, 0)

Delete(a) == \E v \in Version : versions[v] # None
                                /\ Begin(a, "delete", "pointer", None, v, 0)

Register(a) == \E t \in Table : Begin(a, "register", "upsert", t, 0, 0)
Unregister(a) == table # None /\ Begin(a, "unregister", "drop", None, 0, 0)

-----------------------------------------------------------------------------
(* Saving a draft.                                                         *)

\* save_draft_checked: a base that is not the row's updated_at is a conflict.
Stale(base) == base # 0 /\ row.draft # None /\ row.stamp # base

SaveCheck(a) ==
  /\ At(a, {"save"}, "check")
  /\ IF Stale(call[a].base) THEN Return(a) ELSE Goto(a, "write")
  /\ UNCHANGED <<store, memory>> /\ Same

\* seed_if_absent: a definition that exists is left alone.
SeedProbe(a) ==
  /\ At(a, {"seed"}, "probe")
  /\ IF row # NoRow THEN Return(a) ELSE Goto(a, "write")
  /\ UNCHANGED <<store, memory>> /\ Same

\* INSERT ... ON CONFLICT (key) DO UPDATE: the pointer and the state of a row
\* that exists are not among the columns it sets, so what save_draft read
\* of them before does not matter.
Upserted_Reset(x) == [draft |-> x, stamp |-> row.stamp + 1, active |-> 0,
                      state |-> "DRAFT"]
Upserted(x) ==
  IF row = NoRow
    THEN [draft |-> x, stamp |-> 1, active |-> 0, state |-> "DRAFT"]
    ELSE [row EXCEPT !.draft = x, !.stamp = @ + 1]

SaveWrite(a) ==
  /\ At(a, {"save", "seed"}, "write")
  /\ row.stamp < MaxWrites
  /\ row' = Upserted(call[a].xml)
  /\ seen' = [seen EXCEPT ![a] = row'.stamp]
  /\ Return(a)
  /\ UNCHANGED <<subject, versions, decision, memory, faults, clean, torn>>

-----------------------------------------------------------------------------
(* Publishing.                                                             *)

\* ensure_publishable_xml: required variables need the strict policy.
Publishable(x) == x \notin Lax

\* publish_definition reads the draft for the gate; publish reads it again.
PublishGate(a) ==
  /\ At(a, {"publish"}, "gate")
  /\ IF row.draft # None /\ Publishable(row.draft)
       THEN Goto(a, "draft") ELSE Return(a)
  /\ UNCHANGED <<store, memory>> /\ Same

PublishDraft(a) ==
  /\ At(a, {"publish"}, "draft")
  /\ GotoWith(a, "number", row.draft)
  /\ UNCHANGED <<store, memory>> /\ Same

Newest == Max({0} \cup {v \in Version : versions[v] # None})

PublishNumber(a) ==
  /\ At(a, {"publish"}, "number")
  /\ call' = [call EXCEPT ![a].at = "insert", ![a].version = Newest + 1]
  /\ UNCHANGED <<store, memory>> /\ Same

\* The unique index over (def_key, version) refuses a number that is taken.
Taken(v) == versions[v] # None

PublishInsert(a) ==
  LET v == call[a].version
  IN /\ At(a, {"publish"}, "insert")
     /\ v \in Version
     /\ IF Taken(v)
          THEN Return(a) /\ UNCHANGED versions
          ELSE Goto(a, "mark") /\ versions' = [versions EXCEPT ![v] = call[a].xml]
     /\ UNCHANGED <<subject, row, decision, memory>> /\ Same

\* mark_published, of publish and of activate_version.
MarkPublished(a) ==
  /\ At(a, {"publish", "activate"}, "mark")
  /\ row' = [row EXCEPT !.state = "PUBLISHED", !.active = call[a].version]
  /\ Goto(a, "load")
  /\ UNCHANGED <<subject, versions, decision, memory>> /\ Same

-----------------------------------------------------------------------------
(* hot_load_version: read the version, deploy it, list it.                 *)

HotLoad(a) ==
  /\ At(a, {"publish", "activate"}, "load")
  /\ LET x == versions[call[a].version]
     IN IF x = None THEN Return(a) ELSE GotoWith(a, "deploy", x)
  /\ UNCHANGED <<store, memory>> /\ Same

HotDeploy(a) ==
  /\ At(a, {"publish", "activate"}, "deploy")
  /\ engine' = call[a].xml
  /\ Goto(a, "list")
  /\ UNCHANGED <<store, listed, table>> /\ Same

HotList(a) ==
  /\ At(a, {"publish", "activate"}, "list")
  /\ listed' = call[a].xml
  /\ Return(a)
  /\ UNCHANGED <<store, engine, table>> /\ Same

-----------------------------------------------------------------------------
(* Activating a version.                                                   *)

ActivateGate(a) ==
  /\ At(a, {"activate"}, "gate")
  /\ LET x == versions[call[a].version]
     IN IF x # None /\ Publishable(x) THEN Goto(a, "take") ELSE Return(a)
  /\ UNCHANGED <<store, memory>> /\ Same

ActivateTake(a) ==
  /\ At(a, {"activate"}, "take")
  /\ LET x == versions[call[a].version]
     IN IF x = None THEN Return(a) ELSE GotoWith(a, "fill", x)
  /\ UNCHANGED <<store, memory>> /\ Same

\* The version's document replaces the draft, whatever was saved meanwhile.
\* The pointer it also carries is not a column the upsert sets.  The row
\* activate_version reads in between is there: none is ever deleted.
ActivateFill(a) ==
  /\ At(a, {"activate"}, "fill")
  /\ row.stamp < MaxWrites
  /\ row' = Upserted(call[a].xml)
  /\ Goto(a, "mark")
  /\ UNCHANGED <<subject, versions, decision, memory>> /\ Same

-----------------------------------------------------------------------------
(* Deleting a version.                                                     *)

InUse_Never(v) == FALSE
InUse(v) == row.active = v

DeletePointer(a) ==
  /\ At(a, {"delete"}, "pointer")
  /\ IF row = NoRow \/ InUse(call[a].version) THEN Return(a) ELSE Goto(a, "erase")
  /\ UNCHANGED <<store, memory>> /\ Same

DeleteErase(a) ==
  /\ At(a, {"delete"}, "erase")
  /\ versions' = [versions EXCEPT ![call[a].version] = None]
  /\ Return(a)
  /\ UNCHANGED <<subject, row, decision, memory>> /\ Same

-----------------------------------------------------------------------------
(* Decision tables: the store first, then the engine.                      *)

RegisterUpsert(a) ==
  /\ At(a, {"register"}, "upsert")
  /\ decision' = call[a].xml
  /\ Goto(a, "enter")
  /\ UNCHANGED <<subject, row, versions, memory>> /\ Same

RegisterEnter(a) ==
  /\ At(a, {"register"}, "enter")
  /\ table' = call[a].xml
  /\ Return(a)
  /\ UNCHANGED <<store, engine, listed>> /\ Same

UnregisterDrop(a) ==
  /\ At(a, {"unregister"}, "drop")
  /\ decision' = None
  /\ Goto(a, "leave")
  /\ UNCHANGED <<subject, row, versions, memory>> /\ Same

UnregisterLeave(a) ==
  /\ At(a, {"unregister"}, "leave")
  /\ table' = None
  /\ Return(a)
  /\ UNCHANGED <<store, engine, listed>> /\ Same

-----------------------------------------------------------------------------
(* Faults.                                                                 *)

\* A store call fails: the request answers an error and undoes nothing.
StoreFails(a) ==
  /\ faults < Faults
  /\ a \in Busy
  /\ faults' = faults + 1
  /\ clean' = FALSE
  /\ Return(a)
  /\ UNCHANGED <<store, memory, seen, torn>>

\* load_published: the version the pointer names, if its row is there.
Published ==
  IF row.state = "PUBLISHED" /\ row.active # 0 THEN versions[row.active] ELSE None

\* The process ends and build_for loads what the store holds.
Restart ==
  /\ faults < Faults
  /\ faults' = faults + 1
  /\ clean' = (clean /\ Busy = {})
  /\ engine' = Published /\ listed' = Published
  /\ table' = decision
  /\ call' = [a \in Admin |-> Idle]
  /\ UNCHANGED <<store, seen, torn>>

Next ==
  \/ \E a \in Admin :
       \/ Open(a) \/ Save(a) \/ Seed(a) \/ Publish(a) \/ Activate(a)
       \/ Delete(a) \/ Register(a) \/ Unregister(a)
       \/ SaveCheck(a) \/ SeedProbe(a) \/ SaveWrite(a)
       \/ PublishGate(a) \/ PublishDraft(a) \/ PublishNumber(a)
       \/ PublishInsert(a) \/ MarkPublished(a)
       \/ HotLoad(a) \/ HotDeploy(a) \/ HotList(a)
       \/ ActivateGate(a) \/ ActivateTake(a) \/ ActivateFill(a)
       \/ DeletePointer(a) \/ DeleteErase(a)
       \/ RegisterUpsert(a) \/ RegisterEnter(a)
       \/ UnregisterDrop(a) \/ UnregisterLeave(a)
       \/ StoreFails(a)
  \/ Restart

Spec == Init /\ [][Next]_vars

-----------------------------------------------------------------------------
(* Properties.                                                             *)

\* The version the row points at exists, so that a restart loads it: with
\* any interleaving of requests, failed store calls and restarts, as long as
\* no deletion ran beside another request (delete_version, publish, activate).
ActiveExists == torn \/ row.active = 0 \/ versions[row.active] # None

\* delete_version refuses the active version so that the engine does not lose
\* what it loads: the same without the restriction on deletions, which the
\* code does not keep.
ActiveNeverDeleted == row.active = 0 \/ versions[row.active] # None

\* Requests made one at a time, all of which succeeded, with restarts between
\* them, leave memory and store in agreement: the engine runs and lists the
\* active version, the pointer is set exactly when the definition is
\* published, what runs passed the gate, and the engine decides by the stored
\* table (publish, activate, delete, register, build_for).
Settled ==
  clean /\ Busy = {} =>
    /\ engine = Published /\ listed = Published
    /\ row.state = "PUBLISHED" <=> row.active # 0
    /\ row.active # 0 => Publishable(engine)
    /\ table = decision

\* required x strict is checked before anything is published or activated.  The
\* code does not keep this: the draft it checks is not the draft it publishes.
PublishedPassGate ==
  \A v \in Version : versions[v] # None => Publishable(versions[v])
=============================================================================
