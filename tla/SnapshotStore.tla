---------------------------- MODULE SnapshotStore ----------------------------
(***************************************************************************)
(* The runtime store under one process instance: PgRuntimeStore spreads    *)
(* the aggregate over several tables, reads it with one SELECT per table   *)
(* outside any transaction, and writes it back in one transaction whose    *)
(* first statement is a compare-and-swap on the instance row's version.    *)
(*                                                                         *)
(* Any number of engine calls (Client) on any number of replicas run load, *)
(* compute and save over the same instance; mark_cc_read writes one column *)
(* of the cc table beside them.                                            *)
(*                                                                         *)
(* Simplifications:                                                        *)
(*  - InMemoryStore, which does both under one mutex, is left out;         *)
(*  - a table's rows are one Value: nothing here looks inside them;        *)
(*  - the child tables are read in any order (the code fixes one), but     *)
(*    the instance row, with the version, is read first as in the code;    *)
(*  - a statement that fails, a lost connection and a crash of the replica *)
(*    all end an open transaction the same way, by Rollback.               *)
(***************************************************************************)
EXTENDS Integers

CONSTANTS Client,       \* engine calls running over the instance
          Part,         \* tables rewritten by a save
          Row,          \* the part that is the instance row itself
          Value,
          Final,        \* values of Row that are terminal instance states
          Handler,      \* <<before, after>>: what one engine section computes
          Cc,           \* ids of cc records (uuids)
          NoClient,
          MaxVersion    \* bound on the number of saves

ASSUME StoreAssumption ==
  /\ Row \in Part
  /\ Final \subseteq Value
  /\ Handler \subseteq [Part -> Value] \X [Part -> Value]
  /\ NoClient \notin Client
  /\ MaxVersion \in Nat

VARIABLES
  version,    \* cmx_flow_instance.version
  table,      \* the committed contents of every table
  cc,         \* cmx_flow_cc: "none" (no row), "unread" or "read"
  hiVersion,  \* version column of the history archive, -1 without a row
  lock,       \* the transaction that holds the instance row
  pc,         \* where each client is
  seen,       \* the version a client loaded
  got,        \* the parts a client has read so far
  buf,        \* a client's private aggregate
  ccBuf       \* a client's private cc records

vars == <<version, table, cc, hiVersion, lock, pc, seen, got, buf, ccBuf>>
stored == <<version, table, cc, hiVersion>>

Mark == {"none", "unread", "read"}

TypeOK ==
  /\ version \in 0 .. MaxVersion
  /\ table \in [Part -> Value]
  /\ cc \in [Cc -> Mark]
  /\ hiVersion \in -1 .. MaxVersion
  /\ lock \in Client \cup {NoClient}
  /\ pc \in [Client -> {"idle", "loading", "ready", "saving"}]
  /\ seen \in [Client -> 0 .. MaxVersion]
  /\ got \in [Client -> SUBSET Part]
  /\ buf \in [Client -> [Part -> Value]]
  /\ ccBuf \in [Client -> [Cc -> Mark]]

\* create_snapshot inserts the instance with version 0 and archives it at
\* once when its first section already ended it.
Init ==
  /\ version = 0
  /\ table \in [Part -> Value]
  /\ cc = [k \in Cc |-> "none"]
  /\ hiVersion = IF table[Row] \in Final THEN 0 ELSE -1
  /\ lock = NoClient
  /\ pc = [c \in Client |-> "idle"]
  /\ seen = [c \in Client |-> 0]
  /\ got = [c \in Client |-> {}]
  /\ buf = [c \in Client |-> table]
  /\ ccBuf = [c \in Client |-> cc]

\* The first SELECT of load_snapshot: the instance row and its version.
LoadRow(c) ==
  /\ pc[c] = "idle"
  /\ pc' = [pc EXCEPT ![c] = "loading"]
  /\ seen' = [seen EXCEPT ![c] = version]
  /\ got' = [got EXCEPT ![c] = {Row}]
  /\ buf' = [buf EXCEPT ![c][Row] = table[Row]]
  /\ ccBuf' = [ccBuf EXCEPT ![c] = cc]
  /\ UNCHANGED <<stored, lock>>

\* One of the SELECTs that follow, each its own statement.  The cc records
\* are read with the instance row: nothing depends on when exactly.
LoadPart(c, p) ==
  /\ pc[c] = "loading"
  /\ p \notin got[c]
  /\ got' = [got EXCEPT ![c] = @ \cup {p}]
  /\ buf' = [buf EXCEPT ![c][p] = table[p]]
  /\ UNCHANGED <<stored, lock, pc, seen, ccBuf>>

\* The handler and run_to_wait work on the private copy; a section may also
\* append cc records, under ids no other section uses.
Compute(c) ==
  /\ pc[c] = "loading"
  /\ got[c] = Part
  /\ \E after \in [Part -> Value] :
       /\ <<buf[c], after>> \in Handler
       /\ buf' = [buf EXCEPT ![c] = after]
  /\ \E new \in SUBSET {k \in Cc : \A d \in Client : ccBuf[d][k] = "none"} :
       ccBuf' = [ccBuf EXCEPT ![c] =
                   [k \in Cc |-> IF k \in new THEN "unread" ELSE @[k]]]
  /\ pc' = [pc EXCEPT ![c] = "ready"]
  /\ UNCHANGED <<stored, lock, seen, got>>

\* The handler returned an error, or its process died: nothing was written.
Abandon(c) ==
  /\ pc[c] \in {"loading", "ready"}
  /\ pc' = [pc EXCEPT ![c] = "idle"]
  /\ UNCHANGED <<stored, lock, seen, got, buf, ccBuf>>

\* UPDATE ... WHERE id AND version = seen: whether the row still matches.
RowMatches_Always(c) == TRUE
RowMatches(c) == version = seen[c]

\* BEGIN, then the compare-and-swap.  The row lock makes a second transaction
\* wait until the first ends, and compare only then.  No row updated: roll
\* back and answer Conflict.
SaveCas(c) ==
  /\ pc[c] = "ready"
  /\ lock = NoClient
  /\ version < MaxVersion
  /\ \/ /\ RowMatches(c)
        /\ lock' = c
        /\ pc' = [pc EXCEPT ![c] = "saving"]
     \/ /\ ~RowMatches(c)
        /\ lock' = lock
        /\ pc' = [pc EXCEPT ![c] = "idle"]
  /\ UNCHANGED <<stored, seen, got, buf, ccBuf>>

\* SET version = version + 1.
NextVersion(c) == seen[c] + 1

\* upsert_hi_instance of a terminal instance, with the version the row gets.
Archived(c) == IF buf[c][Row] \in Final THEN seen[c] + 1 ELSE hiVersion

\* INSERT ... ON CONFLICT DO UPDATE without read_at: a row that exists keeps
\* its mark, a new row is inserted with the client's.
MergedCc_Overwrite(c) ==
  [k \in Cc |-> IF ccBuf[c][k] = "none" THEN cc[k] ELSE ccBuf[c][k]]
MergedCc(c) ==
  [k \in Cc |-> IF cc[k] = "none" THEN ccBuf[c][k] ELSE cc[k]]

\* DELETE + INSERT of every child table, the archive of a terminal instance,
\* COMMIT: all visible at once.
SaveCommit(c) ==
  /\ pc[c] = "saving"
  /\ version' = NextVersion(c)
  /\ table' = buf[c]
  /\ cc' = MergedCc(c)
  /\ hiVersion' = Archived(c)
  /\ lock' = NoClient
  /\ pc' = [pc EXCEPT ![c] = "idle"]
  /\ UNCHANGED <<seen, got, buf, ccBuf>>

\* A statement after the CAS failed, or the replica died inside the
\* transaction.
Rollback(c) ==
  /\ pc[c] = "saving"
  /\ lock' = NoClient
  /\ pc' = [pc EXCEPT ![c] = "idle"]
  /\ UNCHANGED <<stored, seen, got, buf, ccBuf>>

\* UPDATE cmx_flow_cc SET read_at WHERE id AND read_at IS NULL, beside every
\* save: it neither takes the instance row nor moves its version.
MarkCcRead(k) ==
  /\ cc[k] = "unread"
  /\ cc' = [cc EXCEPT ![k] = "read"]
  /\ UNCHANGED <<version, table, hiVersion, lock, pc, seen, got, buf, ccBuf>>

Next ==
  \/ \E c \in Client :
       \/ LoadRow(c)
       \/ \E p \in Part : LoadPart(c, p)
       \/ Compute(c)
       \/ Abandon(c)
       \/ SaveCas(c)
       \/ SaveCommit(c)
       \/ Rollback(c)
  \/ \E k \in Cc : MarkCcRead(k)

Spec == Init /\ [][Next]_vars

-----------------------------------------------------------------------------
\* A section whose version is still current holds what is stored (so far as it
\* has read), or what one Handler run makes of what is stored: a load torn by
\* a concurrent save is always one whose version has moved on.
Coherent ==
  \A c \in Client :
    seen[c] = version =>
      /\ pc[c] = "loading" => \A p \in got[c] : buf[c][p] = table[p]
      /\ pc[c] \in {"ready", "saving"} => <<table, buf[c]>> \in Handler

\* At most one transaction is past its CAS, and it still holds the version it
\* compared.
OneWriter ==
  \A c \in Client :
    /\ pc[c] = "saving" <=> lock = c
    /\ pc[c] = "saving" => seen[c] = version

\* No loaded version is ahead of the stored one, and a save that passed its
\* compare-and-swap has room for one more version.
NotAhead ==
  \A c \in Client :
    /\ pc[c] # "idle" => seen[c] <= version
    /\ pc[c] = "saving" => version < MaxVersion

IInv == TypeOK /\ Coherent /\ OneWriter /\ NotAhead

\* Every save is one Handler run on the aggregate that is current when it
\* commits: no lost update and no result of a torn read is ever stored.
Atomic == INSTANCE AtomicAggregate
AtomicSpec == Atomic!Spec

\* What mark_cc_read acknowledged is never made unread again by the save of
\* an older snapshot (build_save_ops: "cc 已读").
ReadMarkKept == [][\A k \in Cc : cc[k] = "read" => cc'[k] = "read"]_vars

\* While the stored instance is terminal its archive row carries the version
\* of the runtime row (upsert_hi_instance with version + 1).
ArchiveCurrent ==
  table[Row] \in Final => hiVersion = version
=============================================================================
