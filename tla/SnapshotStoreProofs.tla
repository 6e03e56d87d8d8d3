------------------------- MODULE SnapshotStoreProofs -------------------------
(***************************************************************************)
(* Proofs about SnapshotStore: every load / compute / save section is      *)
(* atomic although its load is torn over several statements.               *)
(*                                                                         *)
(* The argument is Coherent: what a client has read so far agrees with the *)
(* store as long as the version it read first is still current, because a  *)
(* save is the only step that changes a table and always moves the         *)
(* version.  The compare-and-swap lets through only clients whose version  *)
(* is current, so a result of a torn read is never written.                *)
(***************************************************************************)
EXTENDS SnapshotStore, TLAPS

USE DEF stored

\* The initial state satisfies the inductive invariant.
LEMMA InitIInv == Init => IInv
<1> SUFFICES ASSUME Init PROVE IInv OBVIOUS
<1>1. TypeOK
  BY StoreAssumption DEF Init, TypeOK, Mark
<1>2. Coherent
  BY DEF Init, Coherent
<1>3. OneWriter
  BY StoreAssumption DEF Init, OneWriter
<1>4. NotAhead
  BY DEF Init, NotAhead
<1> QED BY <1>1, <1>2, <1>3, <1>4 DEF IInv

\* Every step keeps the types: a save is the only one that counts, and it
\* starts below the bound.
LEMMA TypeStep == IInv /\ [Next]_vars => TypeOK'
<1> SUFFICES ASSUME IInv, [Next]_vars PROVE TypeOK'
  OBVIOUS
<1> USE StoreAssumption DEF IInv, TypeOK, Mark
<1>1. ASSUME NEW c \in Client, LoadRow(c) PROVE TypeOK'
  BY <1>1 DEF LoadRow
<1>2. ASSUME NEW c \in Client, NEW p \in Part, LoadPart(c, p) PROVE TypeOK'
  BY <1>2 DEF LoadPart
<1>3. ASSUME NEW c \in Client, Compute(c) PROVE TypeOK'
  BY <1>3 DEF Compute
<1>4. ASSUME NEW c \in Client, Abandon(c) PROVE TypeOK'
  BY <1>4 DEF Abandon
<1>5. ASSUME NEW c \in Client, SaveCas(c) PROVE TypeOK'
  BY <1>5 DEF SaveCas
<1>6. ASSUME NEW c \in Client, SaveCommit(c) PROVE TypeOK'
  <2>1. seen[c] = version /\ version < MaxVersion
    BY <1>6 DEF SaveCommit, OneWriter, NotAhead
  <2> QED
    BY <1>6, <2>1 DEF SaveCommit, MergedCc, NextVersion, Archived
<1>7. ASSUME NEW c \in Client, Rollback(c) PROVE TypeOK'
  BY <1>7 DEF Rollback
<1>8. ASSUME NEW k \in Cc, MarkCcRead(k) PROVE TypeOK'
  BY <1>8 DEF MarkCcRead
<1>9. CASE UNCHANGED vars
  BY <1>9 DEF vars
<1> QED
  BY <1>1, <1>2, <1>3, <1>4, <1>5, <1>6, <1>7, <1>8, <1>9 DEF Next

\* A load reads current rows, a computation is one Handler run on what was
\* read, and a save either wins with a current version (then every other
\* client's version is behind) or writes nothing.
LEMMA CoherentStep == IInv /\ [Next]_vars => Coherent'
<1> SUFFICES ASSUME IInv, [Next]_vars, NEW d \in Client, seen'[d] = version'
    PROVE /\ pc'[d] = "loading" => \A q \in got'[d] : buf'[d][q] = table'[q]
          /\ pc'[d] \in {"ready", "saving"} => <<table', buf'[d]>> \in Handler
  BY DEF Coherent
<1> DEFINE Good ==
      /\ pc'[d] = "loading" => \A q \in got'[d] : buf'[d][q] = table'[q]
      /\ pc'[d] \in {"ready", "saving"} => <<table', buf'[d]>> \in Handler
<1> USE StoreAssumption DEF IInv, TypeOK, Coherent
<1>1. ASSUME NEW c \in Client, LoadRow(c) PROVE Good
  BY <1>1 DEF LoadRow
<1>2. ASSUME NEW c \in Client, NEW p \in Part, LoadPart(c, p) PROVE Good
  <2>1. seen[d] = version /\ pc'[d] = pc[d] /\ table' = table
    BY <1>2 DEF LoadPart
  <2>2. CASE c = d
    <3>1. pc[d] = "loading" /\ got'[d] = got[d] \cup {p}
      BY <1>2, <2>2 DEF LoadPart
    <3>2. ASSUME NEW q \in got'[d] PROVE buf'[d][q] = table[q]
      <4>1. q \in Part
        BY <3>1
      <4> QED BY <1>2, <2>1, <2>2, <3>1, <4>1 DEF LoadPart
    <3> QED BY <2>1, <3>1, <3>2
  <2>3. CASE c # d
    BY <1>2, <2>1, <2>3 DEF LoadPart
  <2> QED BY <2>2, <2>3
<1>3. ASSUME NEW c \in Client, Compute(c) PROVE Good
  <2>1. CASE c = d
    <3>1. seen[d] = version /\ table' = table /\ pc'[d] = "ready"
      BY <1>3, <2>1 DEF Compute
    <3>2. buf[d] = table
      <4>1. pc[d] = "loading" /\ got[d] = Part /\ seen[d] = version
        BY <1>3, <2>1, <3>1 DEF Compute
      <4>2. \A q \in Part : buf[d][q] = table[q]
        BY <4>1
      <4>3. buf[d] \in [Part -> Value] /\ table \in [Part -> Value]
        OBVIOUS
      <4> QED BY <4>2, <4>3
    <3>3. <<buf[d], buf'[d]>> \in Handler
      BY <1>3, <2>1 DEF Compute
    <3> QED BY <3>1, <3>2, <3>3
  <2>2. CASE c # d
    BY <1>3, <2>2 DEF Compute
  <2> QED BY <2>1, <2>2
<1>4. ASSUME NEW c \in Client, Abandon(c) PROVE Good
  BY <1>4 DEF Abandon
<1>5. ASSUME NEW c \in Client, SaveCas(c) PROVE Good
  BY <1>5 DEF SaveCas
<1>6. ASSUME NEW c \in Client, SaveCommit(c) PROVE Good
  <2>1. version' = version + 1 /\ pc'[c] = "idle" /\ seen' = seen
    BY <1>6 DEF SaveCommit, OneWriter, NextVersion
  <2>2. CASE c = d
    BY <2>1, <2>2
  <2>3. CASE c # d
    <3>1. pc'[d] = pc[d] /\ pc[d] \in {"idle", "loading", "ready", "saving"}
      BY <1>6, <2>3 DEF SaveCommit
    <3>2. pc[d] = "idle"
      BY <2>1, <3>1 DEF NotAhead
    <3> QED BY <3>1, <3>2
  <2> QED BY <2>2, <2>3
<1>7. ASSUME NEW c \in Client, Rollback(c) PROVE Good
  BY <1>7 DEF Rollback
<1>8. ASSUME NEW k \in Cc, MarkCcRead(k) PROVE Good
  BY <1>8 DEF MarkCcRead
<1>9. CASE UNCHANGED vars
  BY <1>9 DEF vars
<1> QED
  BY <1>1, <1>2, <1>3, <1>4, <1>5, <1>6, <1>7, <1>8, <1>9 DEF Next

\* The row lock admits one transaction past its compare-and-swap.
LEMMA OneWriterStep == IInv /\ [Next]_vars => OneWriter'
<1> SUFFICES ASSUME IInv, [Next]_vars PROVE OneWriter'
  OBVIOUS
<1> USE StoreAssumption DEF IInv, TypeOK, OneWriter
<1>1. ASSUME NEW c \in Client, LoadRow(c) PROVE OneWriter'
  BY <1>1 DEF LoadRow
<1>2. ASSUME NEW c \in Client, NEW p \in Part, LoadPart(c, p) PROVE OneWriter'
  BY <1>2 DEF LoadPart
<1>3. ASSUME NEW c \in Client, Compute(c) PROVE OneWriter'
  BY <1>3 DEF Compute
<1>4. ASSUME NEW c \in Client, Abandon(c) PROVE OneWriter'
  BY <1>4 DEF Abandon
<1>5. ASSUME NEW c \in Client, SaveCas(c) PROVE OneWriter'
  BY <1>5 DEF SaveCas, RowMatches
<1>6. ASSUME NEW c \in Client, SaveCommit(c) PROVE OneWriter'
  BY <1>6 DEF SaveCommit
<1>7. ASSUME NEW c \in Client, Rollback(c) PROVE OneWriter'
  BY <1>7 DEF Rollback
<1>8. ASSUME NEW k \in Cc, MarkCcRead(k) PROVE OneWriter'
  BY <1>8 DEF MarkCcRead
<1>9. CASE UNCHANGED vars
  BY <1>9 DEF vars
<1> QED
  BY <1>1, <1>2, <1>3, <1>4, <1>5, <1>6, <1>7, <1>8, <1>9 DEF Next

\* The version only grows.
LEMMA NotAheadStep == IInv /\ [Next]_vars => NotAhead'
<1> SUFFICES ASSUME IInv, [Next]_vars PROVE NotAhead'
  OBVIOUS
<1> USE StoreAssumption DEF IInv, TypeOK, NotAhead
<1>1. ASSUME NEW c \in Client, LoadRow(c) PROVE NotAhead'
  BY <1>1 DEF LoadRow
<1>2. ASSUME NEW c \in Client, NEW p \in Part, LoadPart(c, p) PROVE NotAhead'
  BY <1>2 DEF LoadPart
<1>3. ASSUME NEW c \in Client, Compute(c) PROVE NotAhead'
  BY <1>3 DEF Compute
<1>4. ASSUME NEW c \in Client, Abandon(c) PROVE NotAhead'
  BY <1>4 DEF Abandon
<1>5. ASSUME NEW c \in Client, SaveCas(c) PROVE NotAhead'
  BY <1>5 DEF SaveCas
<1>6. ASSUME NEW c \in Client, SaveCommit(c) PROVE NotAhead'
  <2>1. version' = version + 1 /\ seen' = seen
    BY <1>6 DEF SaveCommit, OneWriter, NextVersion
  <2>2. \A d \in Client : pc'[d] # "saving"
    BY <1>6 DEF SaveCommit, OneWriter
  <2>3. \A d \in Client : pc'[d] # "idle" => pc[d] # "idle"
    BY <1>6 DEF SaveCommit
  <2> QED BY <2>1, <2>2, <2>3
<1>7. ASSUME NEW c \in Client, Rollback(c) PROVE NotAhead'
  BY <1>7 DEF Rollback
<1>8. ASSUME NEW k \in Cc, MarkCcRead(k) PROVE NotAhead'
  BY <1>8 DEF MarkCcRead
<1>9. CASE UNCHANGED vars
  BY <1>9 DEF vars
<1> QED
  BY <1>1, <1>2, <1>3, <1>4, <1>5, <1>6, <1>7, <1>8, <1>9 DEF Next

\* The inductive invariant holds in every reachable state of every instance
\* of the constants: in particular a section that still holds the current
\* version never works on a torn read.
THEOREM Invariance == Spec => []IInv
<1>1. IInv /\ [Next]_vars => IInv'
  BY TypeStep, CoherentStep, OneWriterStep, NotAheadStep DEF IInv
<1> QED BY InitIInv, <1>1, PTL DEF Spec

\* Every variable keeps its type: versions never pass the bound, and every
\* private copy is a whole aggregate.
THEOREM TypeCorrect == Spec => []TypeOK
<1>1. IInv => TypeOK
  BY DEF IInv
<1> QED BY Invariance, <1>1, PTL

\* No section that holds the current version works on a torn read.
THEOREM CoherentReads == Spec => []Coherent
<1>1. IInv => Coherent
  BY DEF IInv
<1> QED BY Invariance, <1>1, PTL

\* The only step of the store an observer of version and table sees is a
\* save, and it applies one Handler run to what is stored.
LEMMA StepIsAtomic ==
  IInv /\ [Next]_vars => [Atomic!Save]_<<version, table>>
<1> SUFFICES ASSUME IInv, [Next]_vars PROVE Atomic!Save \/ UNCHANGED <<version, table>>
  OBVIOUS
<1>1. ASSUME NEW c \in Client, SaveCommit(c) PROVE Atomic!Save
  <2>1. seen[c] = version /\ pc[c] = "saving"
    BY <1>1 DEF SaveCommit, IInv, OneWriter
  <2>2. <<table, buf[c]>> \in Handler
    BY <2>1 DEF IInv, Coherent
  <2>3. buf[c] \in [Part -> Value]
    BY DEF IInv, TypeOK
  <2> QED
    BY <1>1, <2>1, <2>2, <2>3 DEF SaveCommit, NextVersion, Atomic!Save
<1>2. ASSUME NEW c \in Client,
             \/ LoadRow(c) \/ (\E p \in Part : LoadPart(c, p)) \/ Compute(c)
             \/ Abandon(c) \/ SaveCas(c) \/ Rollback(c)
      PROVE UNCHANGED <<version, table>>
  BY <1>2 DEF LoadRow, LoadPart, Compute, Abandon, SaveCas, Rollback
<1>3. ASSUME NEW k \in Cc, MarkCcRead(k) PROVE UNCHANGED <<version, table>>
  BY <1>3 DEF MarkCcRead
<1>4. CASE UNCHANGED vars
  BY <1>4 DEF vars
<1> QED BY <1>1, <1>2, <1>3, <1>4 DEF Next

\* The store implements the abstract aggregate: every save is one Handler run
\* on the aggregate that is current when it commits.
THEOREM Refinement == Spec => AtomicSpec
<1>1. Init => Atomic!Init
  BY DEF Init, Atomic!Init
<1> QED
  BY <1>1, Invariance, StepIsAtomic, PTL DEF Spec, AtomicSpec, Atomic!Spec, Atomic!vars

\* A cc record that was marked read stays read whatever is saved later.
THEOREM ReadMarks == Spec => ReadMarkKept
<1> DEFINE Kept == \A k \in Cc : cc[k] = "read" => cc'[k] = "read"
<1>1. IInv /\ [Next]_vars => [Kept]_vars
  <2> SUFFICES ASSUME IInv, Next PROVE Kept
    OBVIOUS
  <2>1. ASSUME NEW c \in Client, SaveCommit(c) PROVE Kept
    BY <2>1 DEF SaveCommit, MergedCc
  <2>2. ASSUME NEW c \in Client,
               \/ LoadRow(c) \/ (\E p \in Part : LoadPart(c, p)) \/ Compute(c)
               \/ Abandon(c) \/ SaveCas(c) \/ Rollback(c)
        PROVE Kept
    BY <2>2 DEF LoadRow, LoadPart, Compute, Abandon, SaveCas, Rollback
  <2>3. ASSUME NEW k \in Cc, MarkCcRead(k) PROVE Kept
    BY <2>3 DEF MarkCcRead, IInv, TypeOK
  <2> QED BY <2>1, <2>2, <2>3 DEF Next
<1> QED BY Invariance, <1>1, PTL DEF Spec, ReadMarkKept

\* The archive row of a terminal instance carries the version of its runtime
\* row.
THEOREM Archive == Spec => []ArchiveCurrent
<1>1. Init => ArchiveCurrent
  BY DEF Init, ArchiveCurrent
<1>2. IInv /\ ArchiveCurrent /\ [Next]_vars => ArchiveCurrent'
  <2> SUFFICES ASSUME IInv, ArchiveCurrent, [Next]_vars PROVE ArchiveCurrent'
    OBVIOUS
  <2>1. ASSUME NEW c \in Client, SaveCommit(c) PROVE ArchiveCurrent'
    BY <2>1, StoreAssumption
    DEF SaveCommit, Archived, NextVersion, ArchiveCurrent, IInv, TypeOK
  <2>2. ASSUME NEW c \in Client,
               \/ LoadRow(c) \/ (\E p \in Part : LoadPart(c, p)) \/ Compute(c)
               \/ Abandon(c) \/ SaveCas(c) \/ Rollback(c)
        PROVE UNCHANGED <<version, table, hiVersion>>
    BY <2>2 DEF LoadRow, LoadPart, Compute, Abandon, SaveCas, Rollback
  <2>3. ASSUME NEW k \in Cc, MarkCcRead(k)
        PROVE UNCHANGED <<version, table, hiVersion>>
    BY <2>3 DEF MarkCcRead
  <2>4. CASE UNCHANGED vars
    BY <2>4 DEF vars, ArchiveCurrent
  <2>5. UNCHANGED <<version, table, hiVersion>> => ArchiveCurrent'
    BY DEF ArchiveCurrent
  <2> QED BY <2>1, <2>2, <2>3, <2>4, <2>5 DEF Next
<1> QED BY Invariance, <1>1, <1>2, PTL DEF Spec
=============================================================================
