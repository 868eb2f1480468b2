------------------ MODULE ConfigurationTransaction_proofs -----------------
(***************************************************************************)
(* Proofs about the compositor configuration authority, for every set of   *)
(* contents, every largest revision and every number of transactions and   *)
(* damages.                                                                *)
(***************************************************************************)
EXTENDS ConfigurationTransaction, TLAPS

StoreOK ==
    /\ IsNamespace(disk)
    /\ \A ns \in survivors : IsNamespace(ns)

\* Inside a call or a start, memory holds what the next step reads.
ProcessOK ==
    /\ process \in {"ready", "commitVerify", "commitDesired",
                    "commitLastGood", "commitActivation", "commitRemove"} =>
           desired \in Snapshot
    /\ process \in {"rollDesired", "rollLastGood", "rollActivation",
                    "rollRemove", "commitVerify", "commitDesired",
                    "commitLastGood", "commitActivation", "commitRemove"} =>
           pending \in PendingRecord

TypeInv == TypeOK /\ ProcessOK

\* PersistentStore::write changes at most the one file, in the namespace seen
\* now and in those a power loss may leave.
LEMMA WriteEffect ==
    ASSUME NEW file \in StoreFile, NEW bytes, NEW outcome \in Outcome,
           Write(file, bytes, outcome)
    PROVE  /\ disk' = disk \/ disk' = [disk EXCEPT ![file] = bytes]
           /\ outcome = "success" =>
                  /\ disk' = [disk EXCEPT ![file] = bytes]
                  /\ survivors' = {disk'}
           /\ outcome = "notPublished" => disk' = disk /\ survivors' = survivors
           /\ \A ns \in survivors' :
                  \/ ns = disk'
                  \/ ns \in survivors
                  \/ \E old \in survivors : ns = [old EXCEPT ![file] = bytes]
  <1>1. CASE outcome = "success"
    BY <1>1 DEF Write
  <1>2. CASE outcome = "notPublished"
    BY <1>2 DEF Write, store
  <1>3. CASE outcome = "notDurable"
    BY <1>3 DEF Write
  <1> QED
    BY <1>1, <1>2, <1>3 DEF Outcome

\* A write of bytes that fit the file keeps every namespace well formed.
LEMMA WriteStoreOK ==
    ASSUME StoreOK, NEW file \in StoreFile, NEW bytes, Fits(file, bytes),
           NEW outcome \in Outcome, Write(file, bytes, outcome)
    PROVE  StoreOK'
  <1>1. \A ns : IsNamespace(ns) => IsNamespace([ns EXCEPT ![file] = bytes])
    BY DEF IsNamespace, Fits
  <1>2. IsNamespace(disk')
    BY <1>1, WriteEffect DEF StoreOK
  <1>3. \A ns \in survivors' : IsNamespace(ns)
    BY <1>1, <1>2, WriteEffect DEF StoreOK
  <1> QED
    BY <1>2, <1>3 DEF StoreOK

\* The initial store is well formed and nothing is remembered yet.
LEMMA InitTypeInv == Init => TypeInv
  <1> SUFFICES ASSUME Init PROVE TypeInv
    OBVIOUS
  <1> USE ContentAssumption, BoundAssumption
  <1>1. PICK d \in {Missing} \cup
                  [revision: {0}, content: Content, catalog: {"earlier"}] :
            disk = [f \in StoreFile |-> IF f = "Desired" THEN d ELSE Missing]
    BY DEF Init
  <1>2. d \in Snapshot \cup {Missing}
    BY DEF Snapshot, Catalog
  <1>3. IsNamespace(disk)
    BY <1>1, <1>2 DEF IsNamespace, Fits, StoreFile
  <1>4. /\ survivors = {disk}
        /\ generations = {} /\ told = {} /\ revoked = {} /\ decided = {}
        /\ catalog = "earlier" /\ process = "down"
        /\ failed = FALSE /\ semanticMatch = FALSE
        /\ desired = None /\ applied = None /\ pending = None
        /\ submitted = None /\ nonce = 0 /\ damage = 0
    BY DEF Init
  <1>5. TypeOK
    <2>1. 0 \in 0..MaxNonce /\ 0 \in 0..MaxDamage
      OBVIOUS
    <2>2. "earlier" \in Catalog /\ "down" \in Step
      BY DEF Catalog, Step
    <2> QED
      BY <1>3, <1>4, <2>1, <2>2, Zenon DEF TypeOK
  <1>6. ProcessOK
    BY <1>4 DEF ProcessOK
  <1> QED
    BY <1>5, <1>6 DEF TypeInv

\* Startup steps keep every variable in its type.
LEMMA StartupTypeInv ==
    ASSUME TypeInv, NEW outcome \in Outcome,
           \/ Initialize \/ ReconcileNothing \/ ReconcileRefused
           \/ ReconcileCommitting \/ LoadRefused \/ Startup(outcome)
    PROVE  TypeInv'
  <1> USE DEF TypeInv
  <1>0. StoreOK
    BY DEF TypeOK, StoreOK
  <1>a. StoreFile = {"Desired", "LastGood", "Activation", "Pending"}
    BY DEF StoreFile
  <1>1. CASE Initialize
    BY <1>1 DEF Initialize, SyncDirectory, TypeOK, ProcessOK, Catalog, Step,
                memory, history
  <1>2. CASE ReconcileNothing
    BY <1>2 DEF ReconcileNothing, TypeOK, ProcessOK, Step, store, world,
                memory, history
  <1>3. ASSUME StartupFails, StoreOK' PROVE TypeInv'
    BY <1>3 DEF StartupFails, Forget, TypeOK, ProcessOK, StoreOK, Step, world,
                history
  <1>4. CASE ReconcileRefused
    BY <1>0, <1>3, <1>4 DEF ReconcileRefused, StoreOK, store
  <1>5. CASE LoadRefused
    BY <1>0, <1>3, <1>5 DEF LoadRefused, StoreOK, store
  <1>6. CASE ReconcileCommitting
    <2>1. disk["Pending"] \in PendingRecord
      BY <1>0, <1>6 DEF ReconcileCommitting, StoreOK, IsNamespace, Fits,
                        StoreFile
    <2>2. pending' \in PendingRecord
      BY <1>6, <2>1 DEF ReconcileCommitting
    <2> QED
      BY <1>6, <2>2 DEF ReconcileCommitting, TypeOK, ProcessOK, Step, store,
                        world, history
  <1>7. CASE ReconcilePrepared(outcome)
    <2>1. StoreOK'
      BY <1>0, <1>a, <1>7, WriteStoreOK DEF ReconcilePrepared, Remove, Fits
    <2>2. CASE outcome = "success"
      BY <1>7, <2>1, <2>2 DEF ReconcilePrepared, TypeOK, StoreOK, ProcessOK,
                              Step, world, memory, history
    <2> QED
      BY <1>3, <1>7, <2>1, <2>2 DEF ReconcilePrepared
  <1>8. ASSUME NEW from \in Step, NEW file \in StoreFile, NEW bytes,
               Fits(file, bytes),
               NEW to \in {"rollLastGood", "rollActivation", "rollRemove",
                           "load"},
               process = from => pending \in PendingRecord,
               RollForward(from, file, bytes, to, outcome)
        PROVE  TypeInv'
    <2>1. StoreOK'
      BY <1>0, <1>8, WriteStoreOK DEF RollForward
    <2>2. CASE outcome = "success"
      BY <1>8, <2>1, <2>2 DEF RollForward, TypeOK, StoreOK, ProcessOK, Step,
                              world, history
    <2> QED
      BY <1>3, <1>8, <2>1, <2>2 DEF RollForward
  <1>9. ASSUME pending \in PendingRecord
        PROVE  /\ pending.after \in AppliedRecord
               /\ pending.after.snapshot \in Snapshot
    BY <1>9 DEF PendingRecord, AppliedRecord
  <1>10. CASE RollForwardDesired(outcome)
    <2>1. pending \in PendingRecord
      BY <1>10 DEF RollForwardDesired, RollForward, ProcessOK
    <2> QED
      BY <1>a, <1>8, <1>9, <1>10, <2>1 DEF RollForwardDesired, Fits, Step
  <1>11. CASE RollForwardLastGood(outcome)
    <2>1. pending \in PendingRecord
      BY <1>11 DEF RollForwardLastGood, RollForward, ProcessOK
    <2> QED
      BY <1>a, <1>8, <1>9, <1>11, <2>1 DEF RollForwardLastGood, Fits, Step
  <1>12. CASE RollForwardActivation(outcome)
    <2>1. pending \in PendingRecord
      BY <1>12 DEF RollForwardActivation, RollForward, ProcessOK
    <2> QED
      BY <1>a, <1>8, <1>9, <1>12, <2>1 DEF RollForwardActivation, Fits, Step
  <1>13. CASE RollForwardRemove(outcome)
    <2>1. pending \in PendingRecord
      BY <1>13 DEF RollForwardRemove, RollForward, ProcessOK
    <2> QED
      BY <1>a, <1>8, <1>13, <2>1 DEF RollForwardRemove, Fits, Step
  <1>14. CASE LoadSnapshots(outcome)
    <2> DEFINE record == IF disk["Activation"] = Missing THEN None
                         ELSE disk["Activation"]
    <2>1. /\ disk["Desired"] \in Snapshot \cup {Missing}
          /\ record \in AppliedRecord \cup {None}
          /\ record # None => record.nonce \in Nonce
      <3>1. /\ Fits("Desired", disk["Desired"])
            /\ Fits("Activation", disk["Activation"])
        BY <1>0, <1>a DEF StoreOK, IsNamespace
      <3>2. /\ disk["Desired"] = Missing \/ Parses(disk["Desired"])
            /\ disk["Activation"] = Missing \/ Parses(disk["Activation"])
        BY <1>14 DEF LoadSnapshots, Loadable
      <3>3. record # None => record \in AppliedRecord
        BY <3>1, <3>2 DEF Fits, Parses
      <3> QED
        BY <3>1, <3>2, <3>3 DEF Fits, Parses, AppliedRecord
    <2>2. LoadedDesired \in Snapshot
      BY <2>1, ContentAssumption, BoundAssumption
      DEF LoadedDesired, Migrated, Snapshot, TypeOK, Catalog
    <2>3. StoreOK'
      <3>1. CASE LoadedDesired # disk["Desired"]
        <4>1. Write("Desired", LoadedDesired, outcome)
          BY <1>14, <3>1 DEF LoadSnapshots
        <4>2. Fits("Desired", LoadedDesired)
          BY <2>2 DEF Fits
        <4> QED
          BY <1>0, <1>a, <4>1, <4>2, WriteStoreOK
      <3>2. CASE LoadedDesired = disk["Desired"]
        BY <1>0, <1>14, <3>2 DEF LoadSnapshots, StoreOK, store
      <3> QED
        BY <3>1, <3>2
    <2>4. CASE outcome = "success"
      <3>1. /\ process' = "ready" /\ desired' = LoadedDesired
            /\ applied' = record
            /\ semanticMatch' \in BOOLEAN
            /\ Serve(desired', record)
            /\ UNCHANGED <<world, failed, pending, submitted>>
        BY <1>14, <2>4 DEF LoadSnapshots
      <3>2. told' \subseteq Shown
        <4>1. <<desired'.revision, desired'.content>> \in Shown
          BY <2>2, <3>1 DEF Snapshot, Shown
        <4> QED
          BY <3>1, <4>1 DEF Serve, TypeOK
      <3>4. decided' \subseteq Nonce
        BY <2>1, <3>1 DEF Serve, TypeOK
      <3>5. revoked' \subseteq Nonce
        <4>1. 1..nonce \subseteq Nonce
          BY BoundAssumption DEF TypeOK, Nonce
        <4> QED
          BY <3>1, <4>1 DEF Serve, TypeOK
      <3>3. TypeOK'
        BY <2>1, <2>2, <2>3, <3>1, <3>2, <3>4, <3>5
        DEF TypeOK, StoreOK, Step, world
      <3> QED
        BY <2>2, <3>1, <3>3 DEF ProcessOK
    <2> QED
      BY <1>3, <1>14, <2>3, <2>4 DEF LoadSnapshots
  <1>15. CASE Startup(outcome)
    BY <1>7, <1>10, <1>11, <1>12, <1>13, <1>14, <1>15 DEF Startup
  <1> QED
    BY <1>1, <1>2, <1>4, <1>5, <1>6, <1>15

\* The journal a call stages fits its file.
LEMMA StagedRecordType ==
    ASSUME TypeInv, nonce < MaxNonce, NEW kind \in PendingKind,
           NEW candidate \in Snapshot, desired \in Snapshot
    PROVE  /\ [snapshot |-> candidate, nonce |-> nonce + 1] \in AppliedRecord
           /\ nonce + 1 \in Nonce
           /\ [kind |-> kind, phase |-> "Prepared", beforeDesired |-> desired,
               after |-> [snapshot |-> candidate, nonce |-> nonce + 1],
               before |-> applied] \in PendingRecord
  <1>1. nonce + 1 \in Nonce
    BY BoundAssumption DEF TypeInv, TypeOK, Nonce
  <1> QED
    BY <1>1 DEF TypeInv, TypeOK, AppliedRecord, PendingRecord, PendingPhase

\* Calls of the service keep every variable in its type.
LEMMA CallTypeInv ==
    ASSUME TypeInv, NEW outcome \in Outcome, Call(outcome)
    PROVE  TypeInv'
  <1> USE DEF TypeInv
  <1>0. StoreOK
    BY DEF TypeOK, StoreOK
  <1>a. StoreFile = {"Desired", "LastGood", "Activation", "Pending"}
    BY DEF StoreFile
  <1>1. ASSUME NEW expected \in 0..MaxRevision, NEW content \in Content,
               ReplaceSnapshot(expected, content, outcome)
        PROVE  TypeInv'
    <2> DEFINE next == [revision |-> expected + 1, content |-> content,
                        catalog |-> catalog]
    <2>1. expected # MaxRevision
      BY <1>1 DEF ReplaceSnapshot, ReplaceOutcome
    <2>2. next \in Snapshot
      BY <2>1, BoundAssumption DEF Snapshot, TypeOK
    <2>3. Write("Desired", next, outcome)
      BY <1>1 DEF ReplaceSnapshot
    <2>4. StoreOK'
      BY <1>0, <1>a, <2>2, <2>3, WriteStoreOK DEF Fits
    <2>5. /\ process' = process /\ pending' = pending
          /\ UNCHANGED <<world, applied, revoked, decided>>
          /\ submitted' = [expected |-> expected, content |-> content]
          /\ desired' = next \/ desired' = desired
          /\ semanticMatch' \in BOOLEAN /\ failed' \in BOOLEAN
          /\ told' = told \/ told' = told \cup {<<next.revision, content>>}
      BY <1>1 DEF ReplaceSnapshot, TypeOK
    <2>6. <<next.revision, content>> \in Shown
      BY <2>2 DEF Snapshot, Shown
    <2>7. TypeOK'
      BY <2>2, <2>4, <2>5, <2>6 DEF TypeOK, StoreOK, world
    <2> QED
      BY <2>2, <2>5, <2>7 DEF ProcessOK
  <1>2. ASSUME NEW kind \in PendingKind, NEW candidate \in Snapshot, Writable,
               StageCandidate(kind, candidate, outcome)
        PROVE  TypeInv'
    <2> DEFINE after == [snapshot |-> candidate, nonce |-> nonce + 1]
               record == [kind |-> kind, phase |-> "Prepared",
                          beforeDesired |-> desired, after |-> after,
                          before |-> applied]
    <2>1. desired \in Snapshot
      BY <1>2 DEF Writable, Available, ProcessOK
    <2>2. /\ after \in AppliedRecord /\ nonce + 1 \in Nonce
          /\ record \in PendingRecord
      BY <1>2, <2>1, StagedRecordType DEF StageCandidate
    <2>3. /\ Write("Pending", record, outcome)
          /\ nonce' = nonce + 1
          /\ generations' = generations \cup {after}
          /\ pending' = record \/ pending' = pending
          /\ failed' \in BOOLEAN
          /\ revoked' = revoked \/ revoked' = revoked \cup {nonce + 1}
          /\ UNCHANGED <<catalog, damage, process, desired, applied,
                         semanticMatch, told, decided, submitted>>
      BY <1>2 DEF StageCandidate, TypeOK
    <2>4. StoreOK'
      BY <1>0, <1>a, <2>2, <2>3, WriteStoreOK DEF Fits
    <2>5. nonce' \in 0..MaxNonce
      BY <2>2, <2>3, BoundAssumption DEF Nonce
    <2>6. TypeOK'
      BY <2>2, <2>3, <2>4, <2>5 DEF TypeOK, StoreOK
    <2> QED
      BY <2>2, <2>3, <2>6 DEF ProcessOK
  <1>3. CASE PrepareApply(outcome)
    <2>1. desired \in Snapshot
      BY <1>3 DEF PrepareApply, Writable, Available, ProcessOK
    <2> QED
      BY <1>2, <1>3, <2>1 DEF PrepareApply, PendingKind
  <1>4. CASE PrepareRecovery(outcome)
    <2> DEFINE candidate ==
                   [AppliedState EXCEPT !.revision = desired.revision + 1]
    <2>1. desired \in Snapshot /\ applied \in AppliedRecord
      BY <1>4 DEF PrepareRecovery, Writable, Available, ProcessOK, TypeOK
    <2>2. AppliedState \in Snapshot
      BY <2>1 DEF AppliedState, Migrated, AppliedRecord, Snapshot, TypeOK
    <2>3. candidate \in Snapshot
      BY <1>4, <2>1, <2>2, BoundAssumption DEF PrepareRecovery, Snapshot
    <2> QED
      BY <1>2, <1>4, <2>3 DEF PrepareRecovery, PendingKind
  <1>5. ASSUME NEW content \in Content, PrepareDisplayApply(content, outcome)
        PROVE  TypeInv'
    <2> DEFINE candidate ==
                   [revision |-> desired.revision + 1, content |-> content,
                    catalog |-> desired.catalog]
    <2>1. desired \in Snapshot
      BY <1>5 DEF PrepareDisplayApply, Writable, Available, ProcessOK
    <2>2. desired.catalog \in Catalog /\ desired.revision \in 0..MaxRevision
      BY <2>1 DEF Snapshot
    <2>4. desired.revision + 1 \in 0..MaxRevision
      BY <1>5, <2>2, BoundAssumption DEF PrepareDisplayApply
    <2>5. candidate \in Snapshot
      BY <2>2, <2>4 DEF Snapshot
    <2> QED
      BY <1>2, <1>5, <2>5 DEF PrepareDisplayApply, PendingKind
  <1>6. ASSUME pending \in PendingRecord
        PROVE  pending.after.nonce \in Nonce
    BY <1>6 DEF PendingRecord, AppliedRecord
  <1>7. CASE CommitApply(outcome)
    <2> DEFINE committing == [pending EXCEPT !.phase = "Committing"]
    <2>1. pending \in PendingRecord
      BY <1>7 DEF CommitApply, TypeOK
    <2>2. committing \in PendingRecord
      BY <2>1 DEF PendingRecord, PendingPhase
    <2>3. desired \in Snapshot
      BY <1>7 DEF CommitApply, Available, ProcessOK
    <2>4. StoreOK'
      <3>1. CASE CrossCheckGeneration(pending.after)
        BY <1>0, <1>a, <1>7, <2>2, <3>1, WriteStoreOK DEF CommitApply, Fits
      <3> QED
        BY <1>0, <1>7, <3>1 DEF CommitApply, StoreOK, store
    <2>5. /\ process' \in {process, "commitVerify"}
          /\ failed' \in BOOLEAN
          /\ pending' \in {pending, committing}
          /\ decided' \in {decided, decided \cup {pending.after.nonce}}
          /\ revoked' \in {revoked, revoked \cup {pending.after.nonce}}
          /\ submitted' \in {submitted, None}
          /\ UNCHANGED <<world, desired, applied, semanticMatch, told>>
      BY <1>7 DEF CommitApply, TypeOK
    <2>6. TypeOK'
      BY <1>6, <2>1, <2>2, <2>4, <2>5 DEF TypeOK, StoreOK, Step, world
    <2> QED
      BY <1>7, <2>1, <2>2, <2>3, <2>5, <2>6 DEF ProcessOK, CommitApply,
                                                Available
  <1>8. CASE AbortApply(outcome)
    <2>1. pending.after.nonce \in Nonce
      BY <1>6, <1>8 DEF AbortApply, TypeOK
    <2>2. StoreOK'
      <3>1. CASE /\ pending.phase = "Prepared"
                 /\ PersistentStateMatchesBefore(pending)
        BY <1>0, <1>a, <1>8, <3>1, WriteStoreOK DEF AbortApply, Remove, Fits
      <3> QED
        BY <1>0, <1>8, <3>1 DEF AbortApply, StoreOK, store
    <2>3. /\ revoked' = revoked \cup {pending.after.nonce}
          /\ pending' \in {pending, None}
          /\ failed' \in BOOLEAN
          /\ UNCHANGED <<world, process, desired, applied, semanticMatch, told,
                         decided, submitted>>
      BY <1>8 DEF AbortApply
    <2>4. TypeOK'
      BY <2>1, <2>2, <2>3 DEF TypeOK, StoreOK, world
    <2> QED
      BY <1>8, <2>3, <2>4 DEF ProcessOK, AbortApply, Available
  <1> QED
    BY <1>1, <1>3, <1>4, <1>5, <1>7, <1>8 DEF Call

\* The mirror writes of a commit keep every variable in its type.
LEMMA CommitTypeInv ==
    ASSUME TypeInv, NEW outcome \in Outcome, CommitVerify \/ Commit(outcome)
    PROVE  TypeInv'
  <1> USE DEF TypeInv
  <1>0. StoreOK
    BY DEF TypeOK, StoreOK
  <1>a. StoreFile = {"Desired", "LastGood", "Activation", "Pending"}
    BY DEF StoreFile
  <1>1. ASSUME DurableFailure, StoreOK', desired \in Snapshot PROVE TypeInv'
    BY <1>1 DEF DurableFailure, TypeOK, ProcessOK, StoreOK, Step, world, history
  <1>2. ASSUME pending \in PendingRecord
        PROVE  /\ pending.after \in AppliedRecord
               /\ pending.after.snapshot \in Snapshot
    BY <1>2 DEF PendingRecord, AppliedRecord
  <1>3. CASE CommitVerify
    <2>1. /\ StoreOK' /\ desired \in Snapshot /\ pending \in PendingRecord
      BY <1>0, <1>3 DEF CommitVerify, ProcessOK, StoreOK, store
    <2>2. CASE PersistentStateMatchesBefore(pending)
      BY <1>3, <2>1, <2>2 DEF CommitVerify, TypeOK, ProcessOK, StoreOK, Step,
                              world, memory, history
    <2> QED
      BY <1>1, <1>3, <2>1, <2>2 DEF CommitVerify
  <1>4. ASSUME NEW from \in {"commitDesired", "commitLastGood",
                             "commitActivation"},
               NEW file \in StoreFile, NEW bytes, Fits(file, bytes),
               NEW to \in {"commitLastGood", "commitActivation",
                           "commitRemove"},
               CommitWrite(from, file, bytes, to, outcome)
        PROVE  TypeInv'
    <2>1. StoreOK'
      BY <1>0, <1>4, WriteStoreOK DEF CommitWrite
    <2>2. desired \in Snapshot /\ pending \in PendingRecord
      BY <1>4 DEF CommitWrite, ProcessOK
    <2>3. CASE outcome = "success"
      BY <1>4, <2>1, <2>2, <2>3 DEF CommitWrite, TypeOK, ProcessOK, StoreOK,
                                    Step, world, memory, history
    <2> QED
      BY <1>1, <1>4, <2>1, <2>2, <2>3 DEF CommitWrite
  <1>5. CASE CommitDesired(outcome)
    <2>1. Fits("Desired", pending.after.snapshot)
      BY <1>2, <1>5 DEF CommitDesired, CommitWrite, ProcessOK, Fits
    <2> QED
      BY <1>a, <1>4, <1>5, <2>1 DEF CommitDesired
  <1>6. CASE CommitLastGood(outcome)
    <2>1. Fits("LastGood", pending.after.snapshot)
      BY <1>2, <1>6 DEF CommitLastGood, CommitWrite, ProcessOK, Fits
    <2> QED
      BY <1>a, <1>4, <1>6, <2>1 DEF CommitLastGood
  <1>7. CASE CommitActivation(outcome)
    <2>1. Fits("Activation", pending.after)
      BY <1>2, <1>7 DEF CommitActivation, CommitWrite, ProcessOK, Fits
    <2> QED
      BY <1>a, <1>4, <1>7, <2>1 DEF CommitActivation
  <1>8. CASE CommitRemove(outcome)
    <2>1. desired \in Snapshot /\ pending \in PendingRecord
      BY <1>8 DEF CommitRemove, ProcessOK
    <2>2. StoreOK'
      BY <1>0, <1>a, <1>8, WriteStoreOK DEF CommitRemove, Remove, Fits
    <2>3. CASE outcome = "success"
      <3>1. /\ process' = "ready" /\ pending' = None
            /\ desired' \in {desired, pending.after.snapshot}
            /\ applied' = pending.after /\ semanticMatch' = FALSE
            /\ told' = told \cup {<<desired'.revision, desired'.content>>}
            /\ UNCHANGED <<world, failed, revoked, decided, submitted>>
        BY <1>8, <2>3 DEF CommitRemove
      <3>2. desired' \in Snapshot
        BY <1>2, <2>1, <3>1
      <3>3. <<desired'.revision, desired'.content>> \in Shown
        BY <3>2 DEF Snapshot, Shown
      <3>4. TypeOK'
        BY <1>2, <2>1, <2>2, <3>1, <3>2, <3>3 DEF TypeOK, StoreOK, Step, world
      <3> QED
        BY <3>1, <3>2, <3>4 DEF ProcessOK
    <2> QED
      BY <1>1, <1>8, <2>1, <2>2, <2>3 DEF CommitRemove
  <1> QED
    BY <1>3, <1>5, <1>6, <1>7, <1>8 DEF Commit

\* Crashes, power losses and damage keep every variable in its type.
LEMMA EnvironmentTypeInv ==
    ASSUME TypeInv,
           \/ Crash
           \/ PowerLoss
           \/ \E file \in {"Desired", "LastGood", "Activation"} : Damage(file)
           \/ \E record \in generations : DamageGeneration(record)
           \/ UNCHANGED vars
    PROVE  TypeInv'
  <1> USE DEF TypeInv
  <1>0. StoreOK
    BY DEF TypeOK, StoreOK
  <1>1. CASE Crash
    BY <1>1 DEF Crash, Forget, TypeOK, ProcessOK, Step, store, world, history
  <1>2. CASE PowerLoss
    BY <1>0, <1>2 DEF PowerLoss, LoseUnsynced, Forget, TypeOK, StoreOK,
                      ProcessOK, Step, world, history
  <1>3. ASSUME NEW file \in {"Desired", "LastGood", "Activation"}, Damage(file)
        PROVE  TypeInv'
    <2>1. \A ns : IsNamespace(ns) => IsNamespace([ns EXCEPT ![file] = Damaged])
      BY DEF IsNamespace, Fits, StoreFile
    <2>2. StoreOK'
      BY <1>0, <1>3, <2>1 DEF Damage, StoreOK
    <2>3. damage' \in 0..MaxDamage
      BY <1>3, BoundAssumption DEF Damage, TypeOK
    <2> QED
      BY <1>3, <2>2, <2>3 DEF Damage, TypeOK, StoreOK, ProcessOK, memory,
                              history
  <1>4. ASSUME NEW record \in generations, DamageGeneration(record)
        PROVE  TypeInv'
    <2>1. damage' \in 0..MaxDamage
      BY <1>4, BoundAssumption DEF DamageGeneration, TypeOK
    <2> QED
      BY <1>4, <2>1 DEF DamageGeneration, TypeOK, ProcessOK, store, memory,
                        history
  <1>5. CASE UNCHANGED vars
    BY <1>5 DEF vars, store, world, memory, history, TypeOK, ProcessOK
  <1> QED
    BY <1>1, <1>2, <1>3, <1>4, <1>5

\* Every step of the authority keeps every variable in its type.
LEMMA NextTypeInv == TypeInv /\ [Next]_vars => TypeInv'
  <1> SUFFICES ASSUME TypeInv, [Next]_vars PROVE TypeInv'
    OBVIOUS
  <1>1. CASE Initialize \/ ReconcileNothing \/ ReconcileRefused
             \/ ReconcileCommitting \/ LoadRefused
    BY <1>1, StartupTypeInv DEF Outcome
  <1>2. CASE CommitVerify
    BY <1>2, CommitTypeInv DEF Outcome
  <1>3. ASSUME NEW outcome \in Outcome,
               Startup(outcome) \/ Call(outcome) \/ Commit(outcome)
        PROVE  TypeInv'
    BY <1>3, StartupTypeInv, CallTypeInv, CommitTypeInv
  <1> QED
    BY <1>1, <1>2, <1>3, EnvironmentTypeInv DEF Next

\* No call, start, fault or crash ever stores a record under another file's
\* name, passes the largest revision or leaves memory ill-formed.
THEOREM TypeCorrect == Spec => []TypeOK
  <1>1. TypeInv => TypeOK
    BY DEF TypeInv
  <1> QED
    BY <1>1, InitTypeInv, NextTypeInv, PTL DEF Spec

-----------------------------------------------------------------------------
(***************************************************************************)
(* A transaction whose caller was told that it was not committed is never  *)
(* applied: proved for every number of crashes, power losses and damages.  *)
(*                                                                         *)
(* RevokedNeverApplied alone is not inductive: an abort revokes the staged *)
(* transaction, and a start revokes whatever it does not serve, so the     *)
(* invariant also says what a serving authority holds (Undecided), what a  *)
(* commit in flight carries (CommittingUnrevoked), and that a start works  *)
(* from a synced directory and from nothing it remembers (StartsClean).    *)
(***************************************************************************)

Committing == {"commitVerify", "commitDesired", "commitLastGood",
               "commitActivation", "commitRemove"}
Rolling == {"rollDesired", "rollLastGood", "rollActivation", "rollRemove"}

\* A namespace names only transactions up to the n-th, and decides or applies
\* none of the revoked ones r.
NamesOnly(ns, n, r) ==
    /\ ns["Pending"] # Missing => ns["Pending"].after.nonce \in 1..n
    /\ Deciding(ns) => ns["Pending"].after.nonce \notin r
    /\ Parses(ns["Activation"]) =>
           /\ ns["Activation"].nonce \in 1..n
           /\ ns["Activation"].nonce \notin r

\* While the authority serves, no namespace holds a commit decision and none
\* applies the transaction it has prepared.
Undecided ==
    Available =>
        \A ns \in survivors :
            /\ ~Deciding(ns)
            /\ pending # None /\ Parses(ns["Activation"]) =>
                   ns["Activation"].nonce # pending.after.nonce

CommittingUnrevoked ==
    /\ pending # None => pending.after.nonce \in 1..nonce
    /\ process \in Committing => pending.after.nonce \notin revoked

StartsClean ==
    /\ process \in {"down", "reconcile", "load"} => pending = None
    /\ process \in {"reconcile", "load"} \cup Rolling => survivors = {disk}
    /\ process = "load" => disk["Pending"] = Missing
    /\ process \in Rolling => disk["Pending"] = pending /\ Deciding(disk)

RevocationInv ==
    /\ TypeInv
    /\ disk \in survivors
    /\ revoked \subseteq 1..nonce
    /\ \A ns \in survivors : NamesOnly(ns, nonce, revoked)
    /\ Undecided
    /\ CommittingUnrevoked
    /\ StartsClean

\* What may be written without applying or deciding a revoked transaction.
Harmless(file, bytes, n, r) ==
    /\ file = "Activation" /\ Parses(bytes) =>
           bytes.nonce \in 1..n /\ bytes.nonce \notin r
    /\ file = "Pending" /\ bytes # Missing =>
           /\ bytes.after.nonce \in 1..n
           /\ bytes.phase = "Committing" => bytes.after.nonce \notin r

\* One file replaced by harmless bytes leaves a namespace harmless.
LEMMA ReplacedNamesOnly ==
    ASSUME NEW ns, IsNamespace(ns), NEW file \in StoreFile, NEW bytes,
           NEW n, NEW r, NamesOnly(ns, n, r), Harmless(file, bytes, n, r)
    PROVE  NamesOnly([ns EXCEPT ![file] = bytes], n, r)
  <1> DEFINE new == [ns EXCEPT ![file] = bytes]
  <1>1. /\ new["Pending"] = IF file = "Pending" THEN bytes ELSE ns["Pending"]
        /\ new["Activation"] = IF file = "Activation" THEN bytes
                               ELSE ns["Activation"]
    BY DEF IsNamespace, StoreFile
  <1> HIDE DEF new
  <1>2. /\ new["Pending"] # Missing => new["Pending"].after.nonce \in 1..n
        /\ Deciding(new) => new["Pending"].after.nonce \notin r
    BY <1>1 DEF NamesOnly, Harmless, Deciding
  <1>3. Parses(new["Activation"]) =>
            new["Activation"].nonce \in 1..n /\ new["Activation"].nonce \notin r
    BY <1>1 DEF NamesOnly, Harmless
  <1>4. NamesOnly(new, n, r)
    BY <1>2, <1>3 DEF NamesOnly
  <1> QED
    BY <1>4 DEF new

\* PersistentStore::write of harmless bytes keeps every namespace harmless.
LEMMA WriteNamesOnly ==
    ASSUME StoreOK, disk \in survivors, NEW n, NEW r,
           \A ns \in survivors : NamesOnly(ns, n, r),
           NEW file \in StoreFile, NEW bytes, Harmless(file, bytes, n, r),
           NEW outcome \in Outcome, Write(file, bytes, outcome)
    PROVE  /\ disk' \in survivors'
           /\ \A ns \in survivors' : NamesOnly(ns, n, r)
  <1>1. disk' \in survivors'
    BY DEF Write, store, Outcome
  <1>2. \A ns \in survivors : NamesOnly([ns EXCEPT ![file] = bytes], n, r)
    BY ReplacedNamesOnly DEF StoreOK
  <1>3. NamesOnly(disk', n, r)
    BY <1>2, WriteEffect
  <1> QED
    BY <1>1, <1>2, <1>3, WriteEffect

\* Revoking one more transaction, which ns neither decides nor applies.
LEMMA RevokeNamesOnly ==
    ASSUME NEW ns, NEW n, NEW r, NEW x, NamesOnly(ns, n, r),
           Deciding(ns) => ns["Pending"].after.nonce # x,
           Parses(ns["Activation"]) => ns["Activation"].nonce # x
    PROVE  NamesOnly(ns, n, r \cup {x})
  BY DEF NamesOnly

\* The part of the invariant that concerns the namespaces.
NamespacesUnrevoked ==
    /\ disk \in survivors
    /\ revoked \subseteq 1..nonce
    /\ \A ns \in survivors : NamesOnly(ns, nonce, revoked)

\* Nothing was prepared, so nothing is revoked.
LEMMA InitRevocationInv == Init => RevocationInv
  <1> SUFFICES ASSUME Init PROVE RevocationInv
    OBVIOUS
  <1>1. TypeInv
    BY InitTypeInv
  <1>2. /\ survivors = {disk} /\ process = "down" /\ pending = None
        /\ revoked = {} /\ nonce = 0
    BY DEF Init
  <1>3. disk["Pending"] = Missing /\ disk["Activation"] = Missing
    BY DEF Init, StoreFile
  <1> QED
    BY <1>1, <1>2, <1>3 DEF RevocationInv, NamesOnly, Undecided, Available,
       CommittingUnrevoked, StartsClean, Committing, Rolling, Deciding, Parses

\* A start that gives up, and a crash, forget whatever memory held.
LEMMA StopsRevocationInv ==
    ASSUME TypeInv', NamespacesUnrevoked', process' = "down", pending' = None
    PROVE  RevocationInv'
  BY DEF RevocationInv, NamespacesUnrevoked, Undecided, Available,
         CommittingUnrevoked, StartsClean, Committing, Rolling

\* Startup steps decide, apply and revoke consistently.
LEMMA StartupRevocationInv ==
    ASSUME RevocationInv, TypeInv', NEW outcome \in Outcome,
           \/ Initialize \/ ReconcileNothing \/ ReconcileRefused
           \/ ReconcileCommitting \/ LoadRefused \/ Startup(outcome)
    PROVE  RevocationInv'
  <1>0. /\ StoreOK /\ disk \in survivors /\ revoked \subseteq 1..nonce
        /\ \A ns \in survivors : NamesOnly(ns, nonce, revoked)
        /\ NamesOnly(disk, nonce, revoked)
        /\ nonce \in Nat
    BY DEF RevocationInv, TypeInv, TypeOK, StoreOK
  <1>a. StoreFile = {"Desired", "LastGood", "Activation", "Pending"}
    BY DEF StoreFile
  <1>1. CASE Initialize
    BY <1>0, <1>1 DEF Initialize, SyncDirectory, RevocationInv, Undecided,
       Available, CommittingUnrevoked, StartsClean, Committing, Rolling,
       memory, history
  <1>2. CASE ReconcileNothing
    BY <1>0, <1>2 DEF ReconcileNothing, RevocationInv, Undecided,
       Available, CommittingUnrevoked, StartsClean, Committing, Rolling,
       store, world, memory, history
  <1>3. CASE ReconcileRefused \/ LoadRefused
    <2>1. NamespacesUnrevoked' /\ process' = "down" /\ pending' = None
      BY <1>0, <1>3 DEF ReconcileRefused, LoadRefused, StartupFails, Forget,
         NamespacesUnrevoked, store, world, history
    <2> QED
      BY <2>1, StopsRevocationInv
  <1>4. CASE ReconcileCommitting
    <2>1. Deciding(disk) /\ disk["Pending"] # Missing
      BY <1>4 DEF ReconcileCommitting, Deciding
    <2>2. survivors = {disk}
      BY <1>4 DEF ReconcileCommitting, RevocationInv, StartsClean
    <2> QED
      BY <1>0, <1>4, <2>1, <2>2 DEF ReconcileCommitting, RevocationInv,
         NamesOnly, Undecided, Available, CommittingUnrevoked, StartsClean,
         Committing, Rolling, store, world, history
  <1>5. CASE ReconcilePrepared(outcome)
    <2>1. Write("Pending", Missing, outcome)
      BY <1>5 DEF ReconcilePrepared, Remove
    <2>2. /\ nonce' = nonce /\ revoked' = revoked
          /\ disk' \in survivors'
          /\ \A ns \in survivors' : NamesOnly(ns, nonce, revoked)
      <3>1. Harmless("Pending", Missing, nonce, revoked)
        BY DEF Harmless
      <3> QED
        BY <1>0, <1>a, <1>5, <2>1, <3>1, WriteNamesOnly
        DEF ReconcilePrepared, StartupFails, world, history
    <2>3. NamespacesUnrevoked'
      BY <1>0, <2>2 DEF NamespacesUnrevoked
    <2>4. CASE outcome = "success"
      <3>1. survivors' = {disk'} /\ disk'["Pending"] = Missing
        BY <1>0, <1>a, <2>1, <2>4, WriteEffect DEF StoreOK, IsNamespace
      <3>2. process' = "load" /\ pending' = None
        BY <1>5, <2>4 DEF ReconcilePrepared, RevocationInv, StartsClean, memory
      <3> QED
        BY <2>3, <3>1, <3>2 DEF RevocationInv, NamespacesUnrevoked, Undecided,
           Available, CommittingUnrevoked, StartsClean, Committing, Rolling
    <2>5. CASE outcome # "success"
      BY <1>5, <2>3, <2>5, StopsRevocationInv
      DEF ReconcilePrepared, StartupFails, Forget
    <2> QED
      BY <2>4, <2>5
  <1>6. ASSUME NEW from \in Rolling, NEW file \in StoreFile, NEW bytes,
               NEW to \in Rolling \cup {"load"},
               process = from => Harmless(file, bytes, nonce, revoked),
               IF to = "load" THEN file = "Pending" /\ bytes = Missing
               ELSE file # "Pending",
               RollForward(from, file, bytes, to, outcome)
        PROVE  RevocationInv'
    <2>1. /\ process = from /\ Write(file, bytes, outcome)
          /\ Harmless(file, bytes, nonce, revoked)
      BY <1>6 DEF RollForward
    <2>2. /\ nonce' = nonce /\ revoked' = revoked
          /\ disk' \in survivors'
          /\ \A ns \in survivors' : NamesOnly(ns, nonce, revoked)
      BY <1>0, <1>6, <2>1, WriteNamesOnly
      DEF RollForward, StartupFails, world, history
    <2>3. NamespacesUnrevoked'
      BY <1>0, <2>2 DEF NamespacesUnrevoked
    <2>4. CASE outcome = "success"
      <3>1. survivors' = {disk'} /\ disk' = [disk EXCEPT ![file] = bytes]
        BY <2>1, <2>4, WriteEffect
      <3>2. process' = to /\ pending' = IF to = "load" THEN None ELSE pending
        BY <1>6, <2>4 DEF RollForward
      <3>3. disk["Pending"] = pending /\ Deciding(disk)
        BY <2>1 DEF RevocationInv, StartsClean
      <3>4. CASE to = "load"
        <4>1. disk'["Pending"] = Missing
          BY <1>0, <1>a, <1>6, <3>1, <3>4 DEF StoreOK, IsNamespace
        <4> QED
          BY <2>3, <3>1, <3>2, <3>4, <4>1 DEF RevocationInv, Undecided,
             NamespacesUnrevoked, Available, CommittingUnrevoked, StartsClean,
             Committing, Rolling
      <3>5. CASE to # "load"
        <4>1. disk'["Pending"] = pending
          BY <1>0, <1>a, <1>6, <3>1, <3>3, <3>5 DEF StoreOK, IsNamespace
        <4>2. Deciding(disk')
          BY <3>3, <4>1 DEF Deciding
        <4>3. pending # None => pending.after.nonce \in 1..nonce
          BY DEF RevocationInv, CommittingUnrevoked
        <4> QED
          BY <1>6, <2>2, <2>3, <3>1, <3>2, <3>5, <4>1, <4>2, <4>3
          DEF RevocationInv, Undecided, NamespacesUnrevoked, Available,
             CommittingUnrevoked, StartsClean, Committing, Rolling
      <3> QED
        BY <3>4, <3>5
    <2>5. CASE outcome # "success"
      BY <1>6, <2>3, <2>5, StopsRevocationInv
      DEF RollForward, StartupFails, Forget
    <2> QED
      BY <2>4, <2>5
  <1>7. process \in Rolling =>
            /\ pending.after.nonce \in 1..nonce
            /\ pending.after.nonce \notin revoked
    BY <1>0 DEF RevocationInv, StartsClean, NamesOnly, Deciding
  <1>8. CASE RollForwardDesired(outcome)
    BY <1>a, <1>6, <1>8 DEF RollForwardDesired, Rolling, Harmless
  <1>9. CASE RollForwardLastGood(outcome)
    BY <1>a, <1>6, <1>9 DEF RollForwardLastGood, Rolling, Harmless
  <1>10. CASE RollForwardActivation(outcome)
    BY <1>a, <1>6, <1>7, <1>10 DEF RollForwardActivation, Rolling, Harmless
  <1>11. CASE RollForwardRemove(outcome)
    BY <1>a, <1>6, <1>11 DEF RollForwardRemove, Rolling, Harmless
  <1>12. CASE LoadSnapshots(outcome)
    <2>1. /\ survivors = {disk} /\ disk["Pending"] = Missing
          /\ pending = None /\ process = "load"
      BY <1>12 DEF LoadSnapshots, RevocationInv, StartsClean
    <2>2. /\ disk' \in survivors'
          /\ \A ns \in survivors' :
                /\ NamesOnly(ns, nonce, revoked)
                /\ ns["Pending"] = Missing
                /\ ns["Activation"] = disk["Activation"]
      <3>1. CASE LoadedDesired # disk["Desired"]
        <4>1. Write("Desired", LoadedDesired, outcome)
          BY <1>12, <3>1 DEF LoadSnapshots
        <4>2. Harmless("Desired", LoadedDesired, nonce, revoked)
          BY DEF Harmless
        <4>3. /\ disk' \in survivors'
              /\ \A ns \in survivors' : NamesOnly(ns, nonce, revoked)
          BY <1>0, <1>a, <4>1, <4>2, WriteNamesOnly
        <4>4. \A ns \in survivors' :
                  ns = disk \/ ns = [disk EXCEPT !["Desired"] = LoadedDesired]
          BY <1>a, <2>1, <4>1, WriteEffect
        <4> QED
          BY <1>0, <1>a, <2>1, <4>3, <4>4 DEF StoreOK, IsNamespace
      <3>2. CASE LoadedDesired = disk["Desired"]
        BY <1>0, <1>12, <2>1, <3>2 DEF LoadSnapshots, store
      <3> QED
        BY <3>1, <3>2
    <2>3. CASE outcome = "success"
      <3> DEFINE record == IF disk["Activation"] = Missing THEN None
                           ELSE disk["Activation"]
      <3>1. /\ Serve(desired', record) /\ nonce' = nonce
            /\ pending' = None /\ process' = "ready"
        BY <1>12, <2>1, <2>3 DEF LoadSnapshots, world
      <3>2. disk["Activation"] = Missing \/ Parses(disk["Activation"])
        BY <1>12 DEF LoadSnapshots, Loadable
      <3>3. Parses(disk["Activation"]) =>
                disk["Activation"].nonce \notin revoked'
        <4>1. ASSUME Parses(disk["Activation"])
              PROVE  /\ record = disk["Activation"] /\ record # None
          <5>1. disk["Activation"] \in AppliedRecord
            BY <1>0, <1>a, <4>1 DEF StoreOK, IsNamespace, Fits, Parses
          <5>2. record = disk["Activation"]
            BY <4>1 DEF Parses
          <5> QED
            BY <5>1, <5>2, SentinelAssumption
        <4> QED
          BY <1>0, <3>1, <4>1 DEF Serve, NamesOnly
      <3>4. revoked' \subseteq 1..nonce'
        BY <1>0, <3>1 DEF Serve
      <3>5. \A ns \in survivors' : NamesOnly(ns, nonce', revoked')
        BY <2>2, <3>1, <3>3 DEF NamesOnly, Deciding
      <3>6. NamespacesUnrevoked'
        BY <2>2, <3>4, <3>5 DEF NamespacesUnrevoked
      <3>7. \A ns \in survivors' : ~Deciding(ns)
        BY <2>2 DEF Deciding
      <3> QED
        BY <3>1, <3>6, <3>7 DEF RevocationInv, Undecided,
           NamespacesUnrevoked, Available, CommittingUnrevoked, StartsClean,
           Committing, Rolling
    <2>4. CASE outcome # "success"
      <3>1. StartupFails
        BY <1>12, <2>4 DEF LoadSnapshots
      <3>2. NamespacesUnrevoked' /\ process' = "down" /\ pending' = None
        BY <1>0, <2>2, <3>1 DEF StartupFails, Forget, NamespacesUnrevoked,
                               world, history
      <3> QED
        BY <3>2, StopsRevocationInv
    <2> QED
      BY <2>3, <2>4
  <1> QED
    BY <1>1, <1>2, <1>3, <1>4, <1>5, <1>8, <1>9, <1>10, <1>11, <1>12
    DEF Startup

\* A call that stages a transaction holds its journal only if it is written.
LEMMA StageRevocationInv ==
    ASSUME RevocationInv, TypeInv', NEW outcome \in Outcome, Writable,
           NEW kind \in PendingKind, NEW candidate,
           StageCandidate(kind, candidate, outcome)
    PROVE  RevocationInv'
  <1> DEFINE after == [snapshot |-> candidate, nonce |-> nonce + 1]
             record == [kind |-> kind, phase |-> "Prepared",
                        beforeDesired |-> desired, after |-> after,
                        before |-> applied]
  <1>0. /\ StoreOK /\ disk \in survivors /\ revoked \subseteq 1..nonce
        /\ \A ns \in survivors : NamesOnly(ns, nonce, revoked)
        /\ nonce \in Nat /\ Available /\ pending = None
    BY DEF RevocationInv, TypeInv, TypeOK, StoreOK, Writable
  <1>a. StoreFile = {"Desired", "LastGood", "Activation", "Pending"}
    BY DEF StoreFile
  <1>1. /\ Write("Pending", record, outcome)
        /\ nonce' = nonce + 1 /\ process' = process
        /\ IF outcome = "success"
           THEN pending' = record /\ failed' = failed /\ revoked' = revoked
           ELSE /\ failed' = (outcome = "notDurable")
                /\ revoked' = revoked \cup {nonce + 1}
                /\ pending' = pending
    BY DEF StageCandidate
  <1>2. \A ns \in survivors : NamesOnly(ns, nonce + 1, revoked)
    BY <1>0 DEF NamesOnly
  <1>3. Harmless("Pending", record, nonce + 1, revoked)
    BY <1>0 DEF Harmless
  <1>4. /\ disk' \in survivors'
        /\ \A ns \in survivors' : NamesOnly(ns, nonce + 1, revoked)
    <2> HIDE DEF record
    <2> QED
      BY <1>0, <1>a, <1>1, <1>2, <1>3, WriteNamesOnly
  <1> DEFINE Unused(ns) ==
                 /\ ~Deciding(ns)
                 /\ Parses(ns["Activation"]) =>
                        ns["Activation"].nonce # nonce + 1
  <1>5. \A ns \in survivors' : Unused(ns)
    <2>1. \A ns \in survivors : Unused(ns)
      BY <1>0 DEF RevocationInv, Undecided, NamesOnly
    <2>2. \A ns \in survivors : Unused([ns EXCEPT !["Pending"] = record])
      <3>1. record.phase = "Prepared"
        OBVIOUS
      <3> HIDE DEF record
      <3> QED
        BY <1>0, <1>a, <2>1, <3>1 DEF StoreOK, IsNamespace, Deciding
    <2> HIDE DEF record, Unused
    <2> QED
      BY <1>0, <1>a, <1>1, <2>1, <2>2, WriteEffect
  <1>r. revoked' \in {revoked, revoked \cup {nonce + 1}}
    BY <1>1, Zenon
  <1>6. NamespacesUnrevoked'
    <2>1. revoked' \subseteq 1..nonce'
      BY <1>0, <1>1, <1>r
    <2>2. \A ns \in survivors' : NamesOnly(ns, nonce', revoked')
      BY <1>1, <1>4, <1>5, <1>r DEF NamesOnly
    <2> QED
      BY <1>4, <2>1, <2>2 DEF NamespacesUnrevoked
  <1>7. pending' # None => pending'.after.nonce = nonce + 1
    BY <1>0, <1>1
  <1>8. process' = "ready"
    BY <1>0, <1>1 DEF Available
  <1> QED
    BY <1>0, <1>1, <1>5, <1>6, <1>7, <1>8 DEF RevocationInv, NamespacesUnrevoked,
       Undecided, Available, CommittingUnrevoked, StartsClean, Committing,
       Rolling

\* Calls revoke only what no namespace decides or applies.
LEMMA CallRevocationInv ==
    ASSUME RevocationInv, TypeInv', NEW outcome \in Outcome, Call(outcome)
    PROVE  RevocationInv'
  <1>0. /\ StoreOK /\ disk \in survivors /\ revoked \subseteq 1..nonce
        /\ \A ns \in survivors : NamesOnly(ns, nonce, revoked)
        /\ nonce \in Nat
    BY DEF RevocationInv, TypeInv, TypeOK, StoreOK
  <1>a. StoreFile = {"Desired", "LastGood", "Activation", "Pending"}
    BY DEF StoreFile
  <1> DEFINE Undecides(ns) ==
                 /\ ~Deciding(ns)
                 /\ pending # None /\ Parses(ns["Activation"]) =>
                        ns["Activation"].nonce # pending.after.nonce
  <1>b. ASSUME Available PROVE \A ns \in survivors : Undecides(ns)
    BY <1>b DEF RevocationInv, Undecided
  <1>c. pending # None => pending.after.nonce \in 1..nonce
    BY DEF RevocationInv, CommittingUnrevoked
  <1>1. ASSUME NEW expected \in 0..MaxRevision, NEW content \in Content,
               ReplaceSnapshot(expected, content, outcome)
        PROVE  RevocationInv'
    <2> DEFINE next == [revision |-> expected + 1, content |-> content,
                        catalog |-> catalog]
    <2>1. /\ Write("Desired", next, outcome) /\ Available
          /\ UNCHANGED <<nonce, process, pending, revoked>>
      BY <1>1 DEF ReplaceSnapshot, world
    <2>2. /\ disk' \in survivors'
          /\ \A ns \in survivors' : NamesOnly(ns, nonce, revoked)
      <3>1. Harmless("Desired", next, nonce, revoked)
        BY DEF Harmless
      <3> QED
        BY <1>0, <1>a, <2>1, <3>1, WriteNamesOnly
    <2>3. \A ns \in survivors' : Undecides(ns)
      <3>1. \A ns \in survivors : Undecides([ns EXCEPT !["Desired"] = next])
        <4> HIDE DEF next
        <4> QED
          BY <1>0, <1>a, <1>b, <2>1 DEF StoreOK, IsNamespace, Deciding
      <3> HIDE DEF next, Undecides
      <3> QED
        BY <1>0, <1>a, <1>b, <2>1, <3>1, WriteEffect
    <2> QED
      BY <1>0, <1>c, <2>1, <2>2, <2>3 DEF RevocationInv, Undecided, Available,
         CommittingUnrevoked, StartsClean, Committing, Rolling
  <1>2. CASE PrepareApply(outcome)
    BY <1>2, StageRevocationInv DEF PrepareApply, PendingKind
  <1>3. CASE PrepareRecovery(outcome)
    BY <1>3, StageRevocationInv DEF PrepareRecovery, PendingKind
  <1>4. ASSUME NEW content \in Content, PrepareDisplayApply(content, outcome)
        PROVE  RevocationInv'
    BY <1>4, StageRevocationInv DEF PrepareDisplayApply, PendingKind
  <1>5. CASE CommitApply(outcome)
    <2> DEFINE committing == [pending EXCEPT !.phase = "Committing"]
    <2>1. /\ Available /\ pending # None /\ pending.after.nonce \notin revoked
          /\ pending \in PendingRecord /\ nonce' = nonce
      BY <1>5 DEF CommitApply, RevocationInv, TypeInv, TypeOK, world
    <2>2. CASE ~CrossCheckGeneration(pending.after)
      <3>1. /\ UNCHANGED <<store, process, failed, pending>>
            /\ revoked' = revoked \cup {pending.after.nonce}
        BY <1>5, <2>2 DEF CommitApply
      <3>2. \A ns \in survivors : NamesOnly(ns, nonce, revoked')
        <4> SUFFICES ASSUME NEW ns \in survivors
                     PROVE  NamesOnly(ns, nonce, revoked')
          OBVIOUS
        <4>1. Undecides(ns)
          BY <1>b, <2>1
        <4> QED
          BY <1>0, <2>1, <3>1, <4>1, RevokeNamesOnly
      <3> QED
        BY <1>0, <1>b, <1>c, <2>1, <3>1, <3>2 DEF RevocationInv, Undecided,
           Available, CommittingUnrevoked, StartsClean, Committing, Rolling,
           store
    <2>3. CASE CrossCheckGeneration(pending.after)
      <3>1. /\ Write("Pending", committing, outcome)
            /\ failed' = (outcome = "notDurable")
            /\ process' = IF outcome = "success" THEN "commitVerify"
                          ELSE process
            /\ pending' = IF outcome = "success" THEN committing ELSE pending
            /\ revoked' = IF outcome = "notPublished"
                          THEN revoked \cup {pending.after.nonce} ELSE revoked
        BY <1>5, <2>3 DEF CommitApply
      <3>2. committing.after = pending.after /\ committing.phase = "Committing"
        BY <2>1 DEF PendingRecord
      <3>3. /\ disk' \in survivors'
            /\ \A ns \in survivors' : NamesOnly(ns, nonce, revoked)
        <4> HIDE DEF committing
        <4>1. Harmless("Pending", committing, nonce, revoked)
          BY <1>c, <2>1, <3>2 DEF Harmless
        <4> QED
          BY <1>0, <1>a, <3>1, <4>1, WriteNamesOnly
      <3>4. CASE outcome = "success"
        BY <1>0, <1>c, <2>1, <3>1, <3>2, <3>3, <3>4 DEF RevocationInv, Undecided,
           Available, CommittingUnrevoked, StartsClean, Committing, Rolling
      <3>5. CASE outcome = "notPublished"
        <4>1. survivors' = survivors /\ disk' = disk
          BY <1>a, <3>1, <3>5, WriteEffect
        <4>2. \A ns \in survivors : NamesOnly(ns, nonce, revoked')
          <5> SUFFICES ASSUME NEW ns \in survivors
                       PROVE  NamesOnly(ns, nonce, revoked')
            OBVIOUS
          <5>1. Undecides(ns)
            BY <1>b, <2>1
          <5>2. revoked' = revoked \cup {pending.after.nonce}
            BY <3>1, <3>5
          <5> QED
            BY <1>0, <2>1, <5>1, <5>2, RevokeNamesOnly
        <4> QED
          BY <1>0, <1>b, <1>c, <2>1, <3>1, <3>5, <4>1, <4>2 DEF RevocationInv,
             Undecided, Available, CommittingUnrevoked, StartsClean,
             Committing, Rolling
      <3>6. CASE outcome = "notDurable"
        BY <1>0, <1>c, <2>1, <3>1, <3>3, <3>6 DEF RevocationInv, Undecided,
           Available, CommittingUnrevoked, StartsClean, Committing, Rolling
      <3> QED
        BY <3>4, <3>5, <3>6 DEF Outcome
    <2> QED
      BY <2>2, <2>3
  <1>6. CASE AbortApply(outcome)
    <2>1. /\ Available /\ pending # None
          /\ nonce' = nonce /\ process' = process
          /\ revoked' = revoked \cup {pending.after.nonce}
          /\ pending' \in {pending, None}
          /\ failed' = FALSE => outcome = "success" /\ pending' = None
      BY <1>6 DEF AbortApply, world
    <2>2. /\ disk' \in survivors'
          /\ \A ns \in survivors' : NamesOnly(ns, nonce, revoked)
          /\ \A ns \in survivors' : Undecides(ns)
      <3>1. CASE pending.phase = "Prepared" /\ PersistentStateMatchesBefore(pending)
        <4>1. Write("Pending", Missing, outcome)
          BY <1>6, <3>1 DEF AbortApply, Remove
        <4>2. /\ disk' \in survivors'
              /\ \A ns \in survivors' : NamesOnly(ns, nonce, revoked)
          <5>1. Harmless("Pending", Missing, nonce, revoked)
            BY DEF Harmless
          <5> QED
            BY <1>0, <1>a, <4>1, <5>1, WriteNamesOnly
        <4>3. \A ns \in survivors : Undecides([ns EXCEPT !["Pending"] = Missing])
          BY <1>0, <1>a, <1>b, <2>1 DEF StoreOK, IsNamespace, Deciding
        <4> HIDE DEF Undecides
        <4> QED
          BY <1>0, <1>a, <1>b, <2>1, <4>1, <4>2, <4>3, WriteEffect
      <3>2. CASE ~(/\ pending.phase = "Prepared"
                   /\ PersistentStateMatchesBefore(pending))
        <4>1. UNCHANGED store
          BY <1>6, <3>2 DEF AbortApply
        <4> QED
          BY <1>0, <1>b, <2>1, <4>1 DEF store
      <3> QED
        BY <3>1, <3>2
    <2>3. \A ns \in survivors' : NamesOnly(ns, nonce, revoked')
      <3> SUFFICES ASSUME NEW ns \in survivors'
                   PROVE  NamesOnly(ns, nonce, revoked')
        OBVIOUS
      <3>1. Undecides(ns)
        BY <2>2
      <3> QED
        BY <2>1, <2>2, <3>1, RevokeNamesOnly
    <2> QED
      BY <1>0, <1>c, <2>1, <2>2, <2>3 DEF RevocationInv, Undecided, Available,
         CommittingUnrevoked, StartsClean, Committing, Rolling
  <1> QED
    BY <1>1, <1>2, <1>3, <1>4, <1>5, <1>6 DEF Call

\* The mirror writes of a commit apply a transaction that is not revoked.
LEMMA CommitRevocationInv ==
    ASSUME RevocationInv, TypeInv', NEW outcome \in Outcome,
           CommitVerify \/ Commit(outcome)
    PROVE  RevocationInv'
  <1>0. /\ StoreOK /\ disk \in survivors /\ revoked \subseteq 1..nonce
        /\ \A ns \in survivors : NamesOnly(ns, nonce, revoked)
        /\ nonce \in Nat
        /\ pending # None => pending.after.nonce \in 1..nonce
        /\ process \in Committing => pending.after.nonce \notin revoked
    BY DEF RevocationInv, TypeInv, TypeOK, StoreOK, CommittingUnrevoked
  <1>a. StoreFile = {"Desired", "LastGood", "Activation", "Pending"}
    BY DEF StoreFile
  <1>1. ASSUME DurableFailure, NamespacesUnrevoked' PROVE RevocationInv'
    BY <1>0, <1>1 DEF DurableFailure, RevocationInv, NamespacesUnrevoked,
       Undecided, Available, CommittingUnrevoked, StartsClean, Committing,
       Rolling, world, history
  <1>2. process \in Committing => pending # None
    BY SentinelAssumption
    DEF Committing, RevocationInv, TypeInv, ProcessOK, PendingRecord
  <1>3. CASE CommitVerify
    <2>1. NamespacesUnrevoked'
      BY <1>0, <1>3 DEF CommitVerify, DurableFailure, NamespacesUnrevoked,
         store, world, history
    <2>2. CASE PersistentStateMatchesBefore(pending)
      BY <1>0, <1>3, <2>1, <2>2 DEF CommitVerify, RevocationInv,
         NamespacesUnrevoked, Undecided, Available, CommittingUnrevoked,
         StartsClean, Committing, Rolling, world, memory, history
    <2> QED
      BY <1>1, <1>3, <2>1, <2>2 DEF CommitVerify
  <1>4. ASSUME NEW from \in Committing, NEW file \in StoreFile, NEW bytes,
               process = from => Harmless(file, bytes, nonce, revoked),
               NEW to \in Committing,
               CommitWrite(from, file, bytes, to, outcome)
        PROVE  RevocationInv'
    <2>1. /\ process = from /\ Write(file, bytes, outcome)
          /\ Harmless(file, bytes, nonce, revoked)
          /\ nonce' = nonce /\ revoked' = revoked
      BY <1>4 DEF CommitWrite, DurableFailure, world, history
    <2>2. NamespacesUnrevoked'
      BY <1>0, <2>1, WriteNamesOnly DEF NamespacesUnrevoked
    <2>3. CASE outcome = "success"
      BY <1>0, <1>4, <2>1, <2>2, <2>3 DEF CommitWrite, RevocationInv,
         NamespacesUnrevoked, Undecided, Available, CommittingUnrevoked,
         StartsClean, Committing, Rolling, world, memory, history
    <2> QED
      BY <1>1, <1>4, <2>2, <2>3 DEF CommitWrite
  <1>5. CASE CommitDesired(outcome)
    BY <1>a, <1>4, <1>5 DEF CommitDesired, Committing, Harmless
  <1>6. CASE CommitLastGood(outcome)
    BY <1>a, <1>4, <1>6 DEF CommitLastGood, Committing, Harmless
  <1>7. CASE CommitActivation(outcome)
    BY <1>0, <1>2, <1>a, <1>4, <1>7 DEF CommitActivation, Committing, Harmless
  <1>8. CASE CommitRemove(outcome)
    <2>1. /\ Write("Pending", Missing, outcome)
          /\ nonce' = nonce /\ revoked' = revoked
      BY <1>8 DEF CommitRemove, Remove, DurableFailure, world, history
    <2>2. NamespacesUnrevoked'
      <3>1. Harmless("Pending", Missing, nonce, revoked)
        BY DEF Harmless
      <3> QED
        BY <1>0, <1>a, <2>1, <3>1, WriteNamesOnly DEF NamespacesUnrevoked
    <2>3. CASE outcome = "success"
      <3>1. survivors' = {disk'} /\ disk'["Pending"] = Missing
        BY <1>0, <1>a, <2>1, <2>3, WriteEffect DEF StoreOK, IsNamespace
      <3>2. process' = "ready" /\ pending' = None
        BY <1>8, <2>3 DEF CommitRemove
      <3> QED
        BY <2>2, <3>1, <3>2 DEF RevocationInv, NamespacesUnrevoked, Undecided,
           Available, CommittingUnrevoked, StartsClean, Committing, Rolling,
           Deciding
    <2> QED
      BY <1>1, <1>8, <2>2, <2>3 DEF CommitRemove
  <1> QED
    BY <1>3, <1>5, <1>6, <1>7, <1>8 DEF Commit

\* Crashes, power losses and damage decide and apply nothing.
LEMMA EnvironmentRevocationInv ==
    ASSUME RevocationInv, TypeInv',
           \/ Crash
           \/ PowerLoss
           \/ \E file \in {"Desired", "LastGood", "Activation"} : Damage(file)
           \/ \E record \in generations : DamageGeneration(record)
           \/ UNCHANGED vars
    PROVE  RevocationInv'
  <1>0. /\ StoreOK /\ disk \in survivors /\ revoked \subseteq 1..nonce
        /\ \A ns \in survivors : NamesOnly(ns, nonce, revoked)
    BY DEF RevocationInv, TypeInv, TypeOK, StoreOK
  <1>1. CASE Crash \/ PowerLoss
    <2>1. NamespacesUnrevoked' /\ process' = "down" /\ pending' = None
      BY <1>0, <1>1 DEF Crash, PowerLoss, LoseUnsynced, Forget,
         NamespacesUnrevoked, store, world, history
    <2> QED
      BY <2>1, StopsRevocationInv
  <1>2. ASSUME NEW file \in {"Desired", "LastGood", "Activation"}, Damage(file)
        PROVE  RevocationInv'
    <2>1. /\ disk' = [disk EXCEPT ![file] = Damaged]
          /\ survivors' = {[s EXCEPT ![file] = Damaged] : s \in survivors}
          /\ process \in {"down", "ready"}
          /\ UNCHANGED <<nonce, process, failed, pending, revoked>>
      BY <1>2 DEF Damage, memory, history
    <2>2. \A ns \in survivors : NamesOnly([ns EXCEPT ![file] = Damaged], nonce, revoked)
      <3>1. file \in StoreFile /\ Harmless(file, Damaged, nonce, revoked)
        BY DEF StoreFile, Harmless, Parses
      <3> QED
        BY <1>0, <3>1, ReplacedNamesOnly DEF StoreOK
    <2>3. \A ns \in survivors :
              LET new == [ns EXCEPT ![file] = Damaged] IN
              /\ new["Pending"] = ns["Pending"]
              /\ new["Activation"] \in {ns["Activation"], Damaged}
      BY <1>0 DEF StoreOK, IsNamespace, StoreFile
    <2>4. Undecided'
      <3> SUFFICES ASSUME Available, NEW ns \in survivors
                   PROVE  LET new == [ns EXCEPT ![file] = Damaged] IN
                          /\ ~Deciding(new)
                          /\ pending # None /\ Parses(new["Activation"]) =>
                                 new["Activation"].nonce # pending.after.nonce
        BY <2>1 DEF Undecided, Available
      <3> QED
        BY <2>3 DEF RevocationInv, Undecided, Deciding, Parses
    <2> QED
      BY <1>0, <2>1, <2>2, <2>4 DEF RevocationInv, CommittingUnrevoked,
         StartsClean, Committing, Rolling
  <1>3. ASSUME NEW record \in generations, DamageGeneration(record)
        PROVE  RevocationInv'
    BY <1>0, <1>3 DEF DamageGeneration, RevocationInv, Undecided, Available,
       CommittingUnrevoked, StartsClean, Committing, Rolling, store, memory,
       history
  <1>4. CASE UNCHANGED vars
    BY <1>0, <1>4 DEF vars, store, world, memory, history, RevocationInv,
       Undecided, Available, CommittingUnrevoked, StartsClean, Committing,
       Rolling
  <1> QED
    BY <1>1, <1>2, <1>3, <1>4

\* Every step of the authority keeps the invariant.
LEMMA NextRevocationInv == RevocationInv /\ [Next]_vars => RevocationInv'
  <1> SUFFICES ASSUME RevocationInv, [Next]_vars PROVE RevocationInv'
    OBVIOUS
  <1>0. TypeInv'
    BY NextTypeInv DEF RevocationInv
  <1>1. CASE Initialize \/ ReconcileNothing \/ ReconcileRefused
             \/ ReconcileCommitting \/ LoadRefused
    BY <1>0, <1>1, StartupRevocationInv DEF Outcome
  <1>2. CASE CommitVerify
    BY <1>0, <1>2, CommitRevocationInv DEF Outcome
  <1>3. ASSUME NEW outcome \in Outcome,
               Startup(outcome) \/ Call(outcome) \/ Commit(outcome)
        PROVE  RevocationInv'
    BY <1>0, <1>3, StartupRevocationInv, CallRevocationInv, CommitRevocationInv
  <1> QED
    BY <1>0, <1>1, <1>2, <1>3, EnvironmentRevocationInv DEF Next

\* commitApply and abortApply never let a transaction be applied, by a commit,
\* a roll-forward or what a power loss leaves, after its caller was told that
\* it was not.
THEOREM RevocationSafe == Spec => []RevokedNeverApplied
  <1>1. RevocationInv => RevokedNeverApplied
    BY DEF RevocationInv, RevokedNeverApplied, NamesOnly
  <1> QED
    BY <1>1, InitRevocationInv, NextRevocationInv, PTL DEF Spec

-----------------------------------------------------------------------------
(***************************************************************************)
(* The journal protocol of the compositor configuration authority: a       *)
(* durable commit decision leaves the store only when every mirror holds   *)
(* the transaction.  Proved for every number of crashes, power losses,     *)
(* failing store operations and damages.                                   *)
(*                                                                         *)
(* The property says nothing of a single state, so it needs an invariant   *)
(* that ties the place where a call or a start stands to the files it has  *)
(* already written (MirrorsInOrder), the journal in memory to the one on   *)
(* disk (JournalInMemory), and every journal to what its author was able   *)
(* to write (JournalSound).                                                *)
(***************************************************************************)

\* The authority serves clients, or is inside a commit on their behalf.
Serving == Available \/ process \in Committing

\* No step works from a directory that was not synced.
Synced ==
    /\ Serving => survivors = {disk}
    /\ process # "ready" => failed = FALSE

\* The transaction in memory is the one on disk, prepared from what memory
\* holds, and undecided until its commit runs.
JournalInMemory ==
    /\ Available =>
           disk["Pending"] = IF pending = None THEN Missing ELSE pending
    /\ Available /\ pending # None => pending.phase = "Prepared"
    /\ process \in Committing =>
           disk["Pending"] = pending /\ pending.phase = "Committing"
    /\ Serving /\ pending # None =>
           pending.beforeDesired = desired /\ pending.before = applied

\* Where a roll-forward or a commit stands says which mirrors it has written.
MirrorsInOrder ==
    /\ process \in {"rollLastGood", "rollActivation", "rollRemove",
                    "commitLastGood", "commitActivation", "commitRemove"} =>
           disk["Desired"] = pending.after.snapshot
    /\ process \in {"rollActivation", "rollRemove",
                    "commitActivation", "commitRemove"} =>
           disk["LastGood"] = pending.after.snapshot
    /\ process \in {"rollRemove", "commitRemove"} =>
           disk["Activation"] = pending.after

\* A journal publishes content this release may activate, moves the revision
\* by at most one, and is later than what it replaces.
JournalSound(p) ==
    /\ ~ReadOnly(p.after.snapshot)
    /\ IF p.kind = "Apply" THEN p.after.snapshot = p.beforeDesired
       ELSE p.after.snapshot.revision = p.beforeDesired.revision + 1
    /\ p.before # None => p.before.nonce < p.after.nonce

JournalsSound(ns) == ns["Pending"] # Missing => JournalSound(ns["Pending"])

\* What memory says is applied could be activated, and was prepared.
AppliedSound ==
    applied # None => ~ReadOnly(applied.snapshot) /\ applied.nonce <= nonce

ProtocolInv ==
    /\ RevocationInv
    /\ Synced
    /\ JournalInMemory
    /\ MirrorsInOrder
    /\ \A ns \in survivors : JournalsSound(ns)
    /\ AppliedSound

-----------------------------------------------------------------------------
(* Lemmas about the store *)

\* One file replaced leaves the others as they were.
LEMMA ReplacedFile ==
    ASSUME NEW ns, IsNamespace(ns), NEW file \in StoreFile, NEW bytes
    PROVE  /\ [ns EXCEPT ![file] = bytes][file] = bytes
           /\ \A other \in StoreFile \ {file} :
                  [ns EXCEPT ![file] = bytes][other] = ns[other]
  BY DEF IsNamespace

\* PersistentStore::write into a synced directory: the namespace before it and
\* the one after it are all a power loss may leave.
LEMMA SyncedWrite ==
    ASSUME survivors = {disk}, NEW file \in StoreFile, NEW bytes,
           NEW outcome \in Outcome, Write(file, bytes, outcome)
    PROVE  LET new == [disk EXCEPT ![file] = bytes] IN
           /\ outcome = "success" => disk' = new /\ survivors' = {new}
           /\ outcome = "notPublished" => disk' = disk /\ survivors' = {disk}
           /\ outcome = "notDurable" => disk' = new /\ survivors' = {disk, new}
  <1>1. CASE outcome = "success"
    BY <1>1 DEF Write
  <1>2. CASE outcome = "notPublished"
    BY <1>2 DEF Write, store
  <1>3. CASE outcome = "notDurable"
    BY <1>3 DEF Write
  <1> QED
    BY <1>1, <1>2, <1>3 DEF Outcome

\* PersistentStore::write of sound bytes leaves only sound journals behind.
LEMMA WriteJournalsSound ==
    ASSUME StoreOK, disk \in survivors, \A ns \in survivors : JournalsSound(ns),
           NEW file \in StoreFile, NEW bytes,
           file = "Pending" /\ bytes # Missing => JournalSound(bytes),
           NEW outcome \in Outcome, Write(file, bytes, outcome)
    PROVE  \A ns \in survivors' : JournalsSound(ns)
  <1>1. ASSUME NEW ns \in survivors
        PROVE  JournalsSound([ns EXCEPT ![file] = bytes])
    <2>1. IsNamespace(ns) /\ JournalsSound(ns)
      BY DEF StoreOK
    <2> DEFINE new == [ns EXCEPT ![file] = bytes]
    <2>2. new["Pending"] = IF file = "Pending" THEN bytes ELSE ns["Pending"]
      BY <2>1, ReplacedFile DEF StoreFile
    <2> HIDE DEF new
    <2>3. JournalsSound(new)
      BY <2>1, <2>2 DEF JournalsSound
    <2> QED
      BY <2>3 DEF new
  <1>2. JournalsSound(disk')
    BY <1>1, WriteEffect
  <1> QED
    BY <1>1, <1>2, WriteEffect

-----------------------------------------------------------------------------
(* The invariant *)

\* Nothing is stored but a desired snapshot.
LEMMA InitProtocolInv == Init => ProtocolInv
  <1> SUFFICES ASSUME Init PROVE ProtocolInv
    OBVIOUS
  <1>1. RevocationInv
    BY InitRevocationInv
  <1>2. /\ survivors = {disk} /\ process = "down" /\ failed = FALSE
        /\ pending = None /\ applied = None
    BY DEF Init
  <1>3. disk["Pending"] = Missing
    BY DEF Init, StoreFile
  <1> QED
    BY <1>1, <1>2, <1>3 DEF ProtocolInv, Synced, JournalInMemory,
       MirrorsInOrder, JournalsSound, AppliedSound, Serving, Available,
       Committing

\* A process that ended or withdrew from service leaves sound journals.
LEMMA StopsProtocolInv ==
    ASSUME RevocationInv', \A ns \in survivors' : JournalsSound(ns),
           AppliedSound',
           \/ process' = "down" /\ failed' = FALSE
           \/ process' = "ready" /\ failed' = TRUE
    PROVE  ProtocolInv'
  BY DEF ProtocolInv, Synced, JournalInMemory, MirrorsInOrder, Serving,
         Available, Committing

\* A start rolls forward in the order of the mirrors, and serves what it read.
LEMMA StartupProtocolInv ==
    ASSUME ProtocolInv, RevocationInv', NEW outcome \in Outcome,
           \/ Initialize \/ ReconcileNothing \/ ReconcileRefused
           \/ ReconcileCommitting \/ LoadRefused \/ Startup(outcome)
    PROVE  ProtocolInv'
  <1>0. /\ StoreOK /\ disk \in survivors
        /\ \A ns \in survivors : JournalsSound(ns)
        /\ \A ns \in survivors : NamesOnly(ns, nonce, revoked)
        /\ JournalsSound(disk)
        /\ nonce \in Nat
    BY DEF ProtocolInv, RevocationInv, TypeInv, TypeOK, StoreOK
  <1>a. StoreFile = {"Desired", "LastGood", "Activation", "Pending"}
    BY DEF StoreFile
  <1>b. AppliedSound
    BY DEF ProtocolInv
  <1>c. process # "ready" => failed = FALSE
    BY DEF ProtocolInv, Synced
  <1>1. CASE Initialize
    BY <1>0, <1>1 DEF Initialize, SyncDirectory, ProtocolInv, Synced,
       JournalInMemory, MirrorsInOrder, AppliedSound, Serving, Available,
       Committing, memory, history
  <1>2. CASE ReconcileNothing
    BY <1>0, <1>2 DEF ReconcileNothing, ProtocolInv, Synced, JournalInMemory,
       MirrorsInOrder, AppliedSound, Serving, Available, Committing, store,
       world, memory, history
  <1>3. ASSUME StartupFails, \A ns \in survivors' : JournalsSound(ns)
        PROVE  ProtocolInv'
    BY <1>3, StopsProtocolInv DEF StartupFails, Forget, AppliedSound
  <1>4. CASE ReconcileRefused \/ LoadRefused
    BY <1>0, <1>3, <1>4 DEF ReconcileRefused, LoadRefused, store
  <1>5. CASE ReconcileCommitting
    BY <1>0, <1>5 DEF ReconcileCommitting, ProtocolInv, Synced,
       JournalInMemory, MirrorsInOrder, AppliedSound, Serving, Available,
       Committing, store, world, history
  <1>6. CASE ReconcilePrepared(outcome)
    <2>1. /\ process = "reconcile" /\ Write("Pending", Missing, outcome)
      BY <1>6 DEF ReconcilePrepared, Remove
    <2>2. \A ns \in survivors' : JournalsSound(ns)
      BY <1>0, <1>a, <2>1, WriteJournalsSound
    <2>3. CASE outcome = "success"
      <3>1. process' = "load" /\ UNCHANGED <<world, memory>>
        BY <1>6, <2>3 DEF ReconcilePrepared
      <3> QED
        BY <1>b, <1>c, <2>1, <2>2, <3>1 DEF ProtocolInv, Synced,
           JournalInMemory, MirrorsInOrder, AppliedSound, Serving, Available,
           Committing, world, memory
    <2> QED
      BY <1>3, <1>6, <2>2, <2>3 DEF ReconcilePrepared
  <1>7. process \in Rolling => survivors = {disk}
    BY DEF ProtocolInv, RevocationInv, StartsClean
  <1>8. ASSUME RollForwardDesired(outcome) \/ RollForwardLastGood(outcome)
                   \/ RollForwardActivation(outcome)
        PROVE  ProtocolInv'
    <2>1. PICK file \in {"Desired", "LastGood", "Activation"},
               bytes \in {pending.after.snapshot, pending.after},
               from \in Rolling,
               to \in {"rollLastGood", "rollActivation", "rollRemove"} :
            /\ RollForward(from, file, bytes, to, outcome)
            /\ \/ /\ file = "Desired" /\ bytes = pending.after.snapshot
                  /\ from = "rollDesired" /\ to = "rollLastGood"
               \/ /\ file = "LastGood" /\ bytes = pending.after.snapshot
                  /\ from = "rollLastGood" /\ to = "rollActivation"
               \/ /\ file = "Activation" /\ bytes = pending.after
                  /\ from = "rollActivation" /\ to = "rollRemove"
      BY <1>8 DEF RollForwardDesired, RollForwardLastGood,
                  RollForwardActivation, Rolling
    <2>2. /\ process = from /\ Write(file, bytes, outcome)
          /\ file \in StoreFile \ {"Pending"}
      BY <1>a, <2>1 DEF RollForward
    <2>3. \A ns \in survivors' : JournalsSound(ns)
      BY <1>0, <2>2, WriteJournalsSound
    <2>4. CASE outcome = "success"
      <3>1. /\ process' = to /\ pending' = pending
            /\ UNCHANGED <<world, failed, desired, applied>>
        BY <2>1, <2>4 DEF RollForward
      <3>2. disk' = [disk EXCEPT ![file] = bytes]
        BY <2>2, <2>4, WriteEffect
      <3>3. /\ disk'[file] = bytes
            /\ \A other \in StoreFile \ {file} : disk'[other] = disk[other]
        BY <1>0, <2>2, <3>2, ReplacedFile DEF StoreOK
      <3>4. MirrorsInOrder'
        BY <1>a, <2>1, <2>2, <3>1, <3>3 DEF ProtocolInv, MirrorsInOrder
      <3> QED
        BY <1>b, <1>c, <2>1, <2>2, <2>3, <3>1, <3>4 DEF ProtocolInv, Synced,
           JournalInMemory, AppliedSound, Serving, Available, Committing,
           Rolling, world
    <2> QED
      BY <1>3, <2>1, <2>3, <2>4 DEF RollForward
  <1>9. CASE RollForwardRemove(outcome)
    <2>1. process = "rollRemove" /\ Write("Pending", Missing, outcome)
      BY <1>9 DEF RollForwardRemove, RollForward
    <2>2. \A ns \in survivors' : JournalsSound(ns)
      BY <1>0, <1>a, <2>1, WriteJournalsSound
    <2>3. CASE outcome = "success"
      <3>1. process' = "load" /\ UNCHANGED <<world, failed, applied>>
        BY <1>9, <2>3 DEF RollForwardRemove, RollForward
      <3> QED
        BY <1>b, <1>c, <2>1, <2>2, <3>1 DEF ProtocolInv, Synced,
           JournalInMemory, MirrorsInOrder, AppliedSound, Serving, Available,
           Committing, world
    <2> QED
      BY <1>3, <1>9, <2>2, <2>3 DEF RollForwardRemove, RollForward
  <1>10. CASE LoadSnapshots(outcome)
    <2>1. /\ process = "load" /\ survivors = {disk}
          /\ disk["Pending"] = Missing /\ pending = None
      BY <1>10 DEF LoadSnapshots, ProtocolInv, RevocationInv, StartsClean
    <2>2. \A ns \in survivors' : JournalsSound(ns)
      <3>1. CASE LoadedDesired # disk["Desired"]
        BY <1>0, <1>a, <1>10, <3>1, WriteJournalsSound DEF LoadSnapshots
      <3>2. CASE LoadedDesired = disk["Desired"]
        BY <1>0, <1>10, <3>2 DEF LoadSnapshots, store
      <3> QED
        BY <3>1, <3>2
    <2>3. CASE outcome = "success"
      <3>1. /\ process' = "ready" /\ UNCHANGED <<world, failed, pending>>
            /\ applied' = IF disk["Activation"] = Missing THEN None
                          ELSE disk["Activation"]
        BY <1>10, <2>3 DEF LoadSnapshots
      <3>2. survivors' = {disk'} /\ disk'["Pending"] = Missing
        <4>1. CASE LoadedDesired # disk["Desired"]
          <5>1. /\ survivors' = {disk'}
                /\ disk' = [disk EXCEPT !["Desired"] = LoadedDesired]
            BY <1>a, <1>10, <2>3, <4>1, WriteEffect DEF LoadSnapshots
          <5> QED
            BY <1>0, <1>a, <2>1, <5>1, ReplacedFile DEF StoreOK
        <4>2. CASE LoadedDesired = disk["Desired"]
          BY <1>10, <2>1, <4>2 DEF LoadSnapshots, store
        <4> QED
          BY <4>1, <4>2
      <3>3. AppliedSound'
        <4>1. /\ nonce' = nonce
              /\ disk["Activation"] # Missing =>
                     /\ Parses(disk["Activation"])
                     /\ ~ReadOnly(disk["Activation"].snapshot)
          BY <1>10, <3>1 DEF LoadSnapshots, Loadable, world
        <4>2. Parses(disk["Activation"]) => disk["Activation"].nonce <= nonce
          BY <1>0 DEF NamesOnly
        <4> QED
          BY <3>1, <4>1, <4>2 DEF AppliedSound
      <3> QED
        BY <1>c, <2>1, <2>2, <3>1, <3>2, <3>3 DEF ProtocolInv, Synced,
           JournalInMemory, MirrorsInOrder, Serving, Available, Committing
    <2> QED
      BY <1>3, <1>10, <2>2, <2>3 DEF LoadSnapshots
  <1> QED
    BY <1>1, <1>2, <1>4, <1>5, <1>6, <1>8, <1>9, <1>10 DEF Startup

\* Staging a candidate: the journal of a sound transaction, prepared from what
\* the authority holds.
LEMMA StageProtocolInv ==
    ASSUME ProtocolInv, RevocationInv', Writable, NEW outcome \in Outcome,
           NEW kind \in PendingKind, NEW candidate \in Snapshot,
           ~ReadOnly(candidate),
           IF kind = "Apply" THEN candidate = desired
           ELSE candidate.revision = desired.revision + 1,
           StageCandidate(kind, candidate, outcome)
    PROVE  ProtocolInv'
  <1> DEFINE after == [snapshot |-> candidate, nonce |-> nonce + 1]
             record == [kind |-> kind, phase |-> "Prepared",
                        beforeDesired |-> desired, after |-> after,
                        before |-> applied]
  <1>1. /\ Write("Pending", record, outcome)
        /\ nonce' = nonce + 1
        /\ failed' = (outcome = "notDurable")
        /\ pending' = IF outcome = "success" THEN record ELSE pending
        /\ UNCHANGED <<process, desired, applied>>
    <2>1. failed = FALSE
      BY DEF Writable, Available, ProtocolInv, RevocationInv, TypeInv, TypeOK
    <2> QED
      BY <2>1 DEF StageCandidate
  <1>2. /\ StoreOK /\ disk \in survivors /\ survivors = {disk}
        /\ \A ns \in survivors : JournalsSound(ns)
        /\ process = "ready" /\ failed = FALSE /\ pending = None
        /\ disk["Pending"] = Missing
        /\ nonce \in Nat /\ AppliedSound
    BY DEF ProtocolInv, RevocationInv, TypeInv, TypeOK, StoreOK, Synced,
           Serving, Available, Writable, JournalInMemory
  <1>3. applied # None => applied \in AppliedRecord
    BY DEF ProtocolInv, RevocationInv, TypeInv, TypeOK
  <1>4. JournalSound(record)
    <2>1. applied # None => applied.nonce < nonce + 1
      BY <1>2, <1>3 DEF AppliedSound, AppliedRecord, Nonce
    <2> QED
      BY <2>1 DEF JournalSound
  <1>5. AppliedSound'
    BY <1>1, <1>2, <1>3 DEF AppliedSound, AppliedRecord, Nonce
  <1>6. "Pending" \in StoreFile
    BY DEF StoreFile
  <1>7. record.phase = "Prepared" /\ record.beforeDesired = desired
            /\ record.before = applied
    OBVIOUS
  <1>12. record \in PendingRecord
    <2>1. desired \in Snapshot /\ nonce < MaxNonce
      BY DEF ProtocolInv, RevocationInv, TypeInv, ProcessOK, Writable,
             Available, StageCandidate
    <2> QED
      BY <2>1, StagedRecordType DEF ProtocolInv, RevocationInv
  <1> HIDE DEF record
  <1>8. \A ns \in survivors' : JournalsSound(ns)
    BY <1>1, <1>2, <1>4, <1>6, WriteJournalsSound
  <1>9. CASE outcome = "success"
    <2>1. survivors' = {disk'} /\ disk' = [disk EXCEPT !["Pending"] = record]
      BY <1>1, <1>6, <1>9, WriteEffect
    <2>2. disk'["Pending"] = record
      BY <1>2, <1>6, <2>1, ReplacedFile DEF StoreOK
    <2>3. record # None
      BY <1>12, SentinelAssumption
    <2> QED
      BY <1>1, <1>2, <1>5, <1>7, <1>8, <1>9, <2>1, <2>2, <2>3 DEF ProtocolInv,
         Synced, JournalInMemory, MirrorsInOrder, Serving, Available,
         Committing
  <1>10. CASE outcome = "notPublished"
    <2>1. disk' = disk /\ survivors' = {disk'}
      BY <1>1, <1>2, <1>6, <1>10, SyncedWrite
    <2> QED
      BY <1>1, <1>2, <1>5, <1>8, <1>10, <2>1 DEF ProtocolInv, Synced,
         JournalInMemory, MirrorsInOrder, Serving, Available, Committing
  <1>11. CASE outcome = "notDurable"
    BY <1>1, <1>2, <1>5, <1>8, <1>11, StopsProtocolInv
  <1> QED
    BY <1>9, <1>10, <1>11 DEF Outcome

\* Calls of the service keep the journal in memory and on disk together.
LEMMA CallProtocolInv ==
    ASSUME ProtocolInv, RevocationInv', NEW outcome \in Outcome, Call(outcome)
    PROVE  ProtocolInv'
  <1>0. /\ StoreOK /\ disk \in survivors
        /\ \A ns \in survivors : JournalsSound(ns)
        /\ AppliedSound /\ nonce \in Nat
        /\ pending # None => pending \in PendingRecord
        /\ applied # None => applied \in AppliedRecord
    BY DEF ProtocolInv, RevocationInv, TypeInv, TypeOK, StoreOK
  <1>a. StoreFile = {"Desired", "LastGood", "Activation", "Pending"}
    BY DEF StoreFile
  <1>b. Available => /\ process = "ready" /\ failed = FALSE
                     /\ survivors = {disk}
                     /\ disk["Pending"] = IF pending = None THEN Missing
                                          ELSE pending
    BY DEF ProtocolInv, RevocationInv, TypeInv, TypeOK, Synced, Serving,
           Available, JournalInMemory
  <1>c. Available => desired \in Snapshot
    BY DEF ProtocolInv, RevocationInv, TypeInv, ProcessOK, Available
  <1>1. ASSUME NEW expected \in 0..MaxRevision, NEW content \in Content,
               ReplaceSnapshot(expected, content, outcome)
        PROVE  ProtocolInv'
    <2> DEFINE next == [revision |-> expected + 1, content |-> content,
                        catalog |-> catalog]
    <2>1. /\ Write("Desired", next, outcome) /\ Available
          /\ failed' = (outcome = "notDurable")
          /\ UNCHANGED <<nonce, process, applied, pending>>
      BY <1>1, <1>b DEF ReplaceSnapshot, world, Outcome
    <2>2. pending = None
      <3>1. ReplaceOutcome(expected, content) = "Store"
        BY <1>1 DEF ReplaceSnapshot
      <3> QED
        BY <3>1 DEF ReplaceOutcome
    <2> HIDE DEF next
    <2>3. \A ns \in survivors' : JournalsSound(ns)
      BY <1>0, <1>a, <2>1, WriteJournalsSound
    <2>4. AppliedSound'
      BY <1>0, <2>1 DEF AppliedSound
    <2>5. CASE outcome = "notDurable"
      BY <1>b, <2>1, <2>3, <2>4, <2>5, StopsProtocolInv
    <2>6. CASE outcome # "notDurable"
      <3>1. disk'["Pending"] = disk["Pending"] /\ survivors' = {disk'}
        BY <1>0, <1>a, <1>b, <2>1, <2>6, SyncedWrite, ReplacedFile
        DEF Outcome, StoreOK
      <3> QED
        BY <1>b, <2>1, <2>2, <2>3, <2>4, <3>1 DEF ProtocolInv, Synced,
           JournalInMemory, MirrorsInOrder, Serving, Available, Committing
    <2> QED
      BY <2>5, <2>6
  <1>2. CASE PrepareApply(outcome)
    BY <1>2, <1>c, StageProtocolInv DEF PrepareApply, PendingKind, Writable
  <1>3. CASE PrepareRecovery(outcome)
    <2> DEFINE candidate ==
                   [AppliedState EXCEPT !.revision = desired.revision + 1]
    <2>1. applied \in AppliedRecord /\ ~ReadOnly(applied.snapshot)
      BY <1>0, <1>3 DEF PrepareRecovery, AppliedSound
    <2>2. AppliedState \in Snapshot
      BY <2>1 DEF AppliedState, Migrated, AppliedRecord, Snapshot,
                  ProtocolInv, RevocationInv, TypeInv, TypeOK
    <2>3. /\ candidate.revision = desired.revision + 1
          /\ candidate.content = applied.snapshot.content
      BY <2>1, <2>2 DEF AppliedState, Migrated, AppliedRecord, Snapshot
    <2>4. ~ReadOnly(candidate)
      BY <2>1, <2>3 DEF ReadOnly
    <2>6. candidate \in Snapshot
      BY <1>3, <1>c, <2>2, BoundAssumption
      DEF PrepareRecovery, Writable, Snapshot
    <2>5. /\ Writable /\ "Recovery" \in PendingKind /\ "Recovery" # "Apply"
          /\ StageCandidate("Recovery", candidate, outcome)
      BY <1>3 DEF PrepareRecovery, PendingKind
    <2> HIDE DEF candidate
    <2> QED
      BY <2>3, <2>4, <2>5, <2>6, StageProtocolInv
  <1>4. ASSUME NEW content \in Content, PrepareDisplayApply(content, outcome)
        PROVE  ProtocolInv'
    <2> DEFINE candidate ==
                   [revision |-> desired.revision + 1, content |-> content,
                    catalog |-> desired.catalog]
    <2>1. /\ Writable /\ "DisplayPreview" \in PendingKind
          /\ StageCandidate("DisplayPreview", candidate, outcome)
          /\ ~ReadOnly(candidate)
          /\ candidate.revision = desired.revision + 1
      BY <1>4 DEF PrepareDisplayApply, PendingKind, ReadOnly
    <2>2. /\ desired.catalog \in Catalog /\ desired.revision \in 0..MaxRevision
          /\ desired.revision < MaxRevision
      BY <1>4, <1>c DEF PrepareDisplayApply, Writable, Snapshot
    <2>3. desired.revision + 1 \in 0..MaxRevision
      BY <2>2, BoundAssumption
    <2>4. candidate \in Snapshot
      BY <2>2, <2>3 DEF Snapshot
    <2> HIDE DEF candidate
    <2> QED
      BY <2>1, <2>4, StageProtocolInv
  <1>5. CASE CommitApply(outcome)
    <2> DEFINE committing == [pending EXCEPT !.phase = "Committing"]
    <2>1. /\ Available /\ pending # None /\ pending.phase = "Prepared"
          /\ pending \in PendingRecord /\ nonce' = nonce
          /\ UNCHANGED <<desired, applied>>
          /\ pending.beforeDesired = desired /\ pending.before = applied
      BY <1>0, <1>5 DEF CommitApply, world, ProtocolInv, JournalInMemory,
         Serving
    <2>2. AppliedSound'
      BY <1>0, <2>1 DEF AppliedSound
    <2>3. JournalSound(pending)
      BY <1>0, <1>b, <2>1, SentinelAssumption DEF JournalsSound
    <2>4. CASE ~CrossCheckGeneration(pending.after)
      <3>1. UNCHANGED <<store, process, failed, pending>>
        BY <1>5, <2>4 DEF CommitApply
      <3> QED
        BY <1>0, <1>b, <2>1, <2>2, <3>1 DEF ProtocolInv, Synced,
           JournalInMemory, MirrorsInOrder, Serving, Available, Committing,
           store
    <2>5. CASE CrossCheckGeneration(pending.after)
      <3>1. /\ Write("Pending", committing, outcome)
            /\ failed' = (outcome = "notDurable")
            /\ process' = IF outcome = "success" THEN "commitVerify"
                          ELSE process
            /\ pending' = IF outcome = "success" THEN committing ELSE pending
        BY <1>5, <2>5 DEF CommitApply
      <3>2. /\ committing.after = pending.after
            /\ committing.kind = pending.kind
            /\ committing.beforeDesired = pending.beforeDesired
            /\ committing.before = pending.before
            /\ committing.phase = "Committing"
        BY <2>1 DEF PendingRecord
      <3> HIDE DEF committing
      <3>3. JournalSound(committing)
        BY <2>3, <3>2 DEF JournalSound
      <3>4. \A ns \in survivors' : JournalsSound(ns)
        BY <1>0, <1>a, <3>1, <3>3, WriteJournalsSound
      <3>5. CASE outcome = "success"
        <4>1. disk'["Pending"] = committing /\ survivors' = {disk'}
          BY <1>0, <1>a, <3>1, <3>5, WriteEffect, ReplacedFile DEF StoreOK
        <4> QED
          BY <1>b, <2>1, <2>2, <3>1, <3>2, <3>4, <3>5, <4>1 DEF ProtocolInv,
             Synced, JournalInMemory, MirrorsInOrder, Serving, Available,
             Committing
      <3>6. CASE outcome = "notPublished"
        <4>1. disk' = disk /\ survivors' = {disk'}
          BY <1>a, <1>b, <2>1, <3>1, <3>6, SyncedWrite
        <4> QED
          BY <1>b, <2>1, <2>2, <3>1, <3>4, <3>6, <4>1 DEF ProtocolInv, Synced,
             JournalInMemory, MirrorsInOrder, Serving, Available, Committing
      <3>7. CASE outcome = "notDurable"
        BY <1>b, <2>1, <2>2, <3>1, <3>4, <3>7, StopsProtocolInv
      <3> QED
        BY <3>5, <3>6, <3>7 DEF Outcome
    <2> QED
      BY <2>4, <2>5
  <1>6. CASE AbortApply(outcome)
    <2>1. /\ Available /\ pending # None
          /\ UNCHANGED <<nonce, process, applied, desired>>
      BY <1>6 DEF AbortApply, world
    <2>2. AppliedSound'
      BY <1>0, <2>1 DEF AppliedSound
    <2>3. CASE pending.phase = "Prepared" /\ PersistentStateMatchesBefore(pending)
      <3>1. /\ Write("Pending", Missing, outcome)
            /\ pending' = IF outcome = "success" THEN None ELSE pending
            /\ failed' = (outcome # "success")
        BY <1>6, <2>3 DEF AbortApply, Remove
      <3>2. \A ns \in survivors' : JournalsSound(ns)
        BY <1>0, <1>a, <3>1, WriteJournalsSound
      <3>3. CASE outcome = "success"
        <4>1. disk'["Pending"] = Missing /\ survivors' = {disk'}
          BY SMTT(60), <1>0, <1>a, <3>1, <3>3, WriteEffect, ReplacedFile DEF StoreOK
        <4> QED
          BY <1>b, <2>1, <2>2, <3>1, <3>2, <3>3, <4>1 DEF ProtocolInv, Synced,
             JournalInMemory, MirrorsInOrder, Serving, Available, Committing
      <3>4. CASE outcome # "success"
        BY <1>b, <2>1, <2>2, <3>1, <3>2, <3>4, StopsProtocolInv
      <3> QED
        BY <3>3, <3>4
    <2>4. CASE ~(pending.phase = "Prepared" /\ PersistentStateMatchesBefore(pending))
      <3>1. UNCHANGED store /\ failed' = TRUE
        BY <1>6, <2>4 DEF AbortApply
      <3> QED
        BY <1>0, <1>b, <2>1, <2>2, <3>1, StopsProtocolInv DEF store
    <2> QED
      BY <2>3, <2>4
  <1> QED
    BY <1>1, <1>2, <1>3, <1>4, <1>5, <1>6 DEF Call

\* A commit writes the mirrors in order and removes its journal last.
LEMMA CommitProtocolInv ==
    ASSUME ProtocolInv, RevocationInv', NEW outcome \in Outcome,
           CommitVerify \/ Commit(outcome)
    PROVE  ProtocolInv'
  <1>0. /\ StoreOK /\ disk \in survivors
        /\ \A ns \in survivors : JournalsSound(ns)
        /\ AppliedSound /\ nonce \in Nat
    BY DEF ProtocolInv, RevocationInv, TypeInv, TypeOK, StoreOK
  <1>a. StoreFile = {"Desired", "LastGood", "Activation", "Pending"}
    BY DEF StoreFile
  <1>b. process \in Committing =>
            /\ survivors = {disk} /\ failed = FALSE
            /\ pending \in PendingRecord /\ pending # None
            /\ pending # Missing
            /\ disk["Pending"] = pending /\ pending.phase = "Committing"
            /\ pending.beforeDesired = desired /\ pending.before = applied
            /\ JournalSound(pending)
    <2> HAVE process \in Committing
    <2>1. pending \in PendingRecord
      BY DEF ProtocolInv, RevocationInv, TypeInv, ProcessOK, Committing
    <2>2. pending # None /\ pending # Missing
      BY <2>1, SentinelAssumption
    <2>3. Serving /\ process # "ready"
      BY DEF Serving, Committing
    <2> QED
      BY <1>0, <2>1, <2>2, <2>3 DEF ProtocolInv, Synced, JournalInMemory,
         JournalsSound
  <1>1. ASSUME DurableFailure, \A ns \in survivors' : JournalsSound(ns)
        PROVE  ProtocolInv'
    BY <1>0, <1>1, StopsProtocolInv DEF DurableFailure, AppliedSound, world
  <1>2. CASE CommitVerify
    <2>1. process = "commitVerify" /\ UNCHANGED store
      BY <1>2 DEF CommitVerify
    <2>2. CASE PersistentStateMatchesBefore(pending)
      <3>1. /\ process' = IF PublishesDesired(pending) THEN "commitDesired"
                          ELSE "commitLastGood"
            /\ UNCHANGED <<world, memory>>
        BY <1>2, <2>2 DEF CommitVerify
      <3>2. ~PublishesDesired(pending) => disk["Desired"] = pending.after.snapshot
        <4>1. pending.kind \in PendingKind
          BY <1>b, <2>1 DEF PendingRecord, Committing
        <4> QED
          BY <1>b, <2>1, <2>2, <4>1 DEF PublishesDesired, PendingKind,
             Committing, JournalSound, PersistentStateMatchesBefore,
             DesiredIsBefore
      <3> QED
        BY <1>0, <1>b, <2>1, <3>1, <3>2 DEF ProtocolInv, Synced,
           JournalInMemory, MirrorsInOrder, AppliedSound, Serving, Available,
           Committing, store, world, memory
    <2> QED
      BY <1>0, <1>1, <1>2, <2>1, <2>2 DEF CommitVerify, store
  <1>3. ASSUME CommitDesired(outcome) \/ CommitLastGood(outcome)
                   \/ CommitActivation(outcome)
        PROVE  ProtocolInv'
    <2>1. PICK file \in {"Desired", "LastGood", "Activation"},
               bytes \in {pending.after.snapshot, pending.after},
               from \in Committing,
               to \in {"commitLastGood", "commitActivation", "commitRemove"} :
            /\ CommitWrite(from, file, bytes, to, outcome)
            /\ \/ /\ file = "Desired" /\ bytes = pending.after.snapshot
                  /\ from = "commitDesired" /\ to = "commitLastGood"
               \/ /\ file = "LastGood" /\ bytes = pending.after.snapshot
                  /\ from = "commitLastGood" /\ to = "commitActivation"
               \/ /\ file = "Activation" /\ bytes = pending.after
                  /\ from = "commitActivation" /\ to = "commitRemove"
      BY <1>3 DEF CommitDesired, CommitLastGood, CommitActivation, Committing
    <2>2. /\ process = from /\ Write(file, bytes, outcome)
          /\ file \in StoreFile \ {"Pending"}
      BY <1>a, <2>1 DEF CommitWrite
    <2>3. \A ns \in survivors' : JournalsSound(ns)
      BY <1>0, <2>2, WriteJournalsSound
    <2>4. CASE outcome = "success"
      <3>1. process' = to /\ UNCHANGED <<world, memory>>
        BY <2>1, <2>4 DEF CommitWrite
      <3>2. disk' = [disk EXCEPT ![file] = bytes] /\ survivors' = {disk'}
        BY <2>2, <2>4, WriteEffect
      <3>3. /\ disk'[file] = bytes
            /\ \A other \in StoreFile \ {file} : disk'[other] = disk[other]
        BY <1>0, <2>2, <3>2, ReplacedFile DEF StoreOK
      <3>4. MirrorsInOrder'
        BY <1>a, <2>1, <2>2, <3>1, <3>3 DEF ProtocolInv, MirrorsInOrder, memory
      <3> QED
        BY <1>0, <1>a, <1>b, <2>1, <2>2, <2>3, <3>1, <3>2, <3>3, <3>4
        DEF ProtocolInv, Synced, JournalInMemory, AppliedSound, Serving,
            Available, Committing, world, memory
    <2> QED
      BY <1>1, <2>1, <2>3, <2>4 DEF CommitWrite
  <1>4. CASE CommitRemove(outcome)
    <2>1. process = "commitRemove" /\ Write("Pending", Missing, outcome)
      BY <1>4 DEF CommitRemove, Remove
    <2>2. \A ns \in survivors' : JournalsSound(ns)
      BY <1>0, <1>a, <2>1, WriteJournalsSound
    <2>3. CASE outcome = "success"
      <3>1. /\ process' = "ready" /\ pending' = None
            /\ applied' = pending.after /\ UNCHANGED <<nonce, failed>>
        BY <1>4, <2>3 DEF CommitRemove, world
      <3>2. disk'["Pending"] = Missing /\ survivors' = {disk'}
        BY <1>0, <1>a, <2>1, <2>3, WriteEffect, ReplacedFile DEF StoreOK
      <3>3. AppliedSound'
        <4>1. pending.after.nonce <= nonce
          BY <1>0, <1>b, <2>1 DEF Committing, ProtocolInv, RevocationInv,
             CommittingUnrevoked
        <4> QED
          BY <1>b, <2>1, <3>1, <4>1 DEF AppliedSound, JournalSound, Committing
      <3> QED
        BY <1>b, <2>1, <2>2, <3>1, <3>2, <3>3 DEF ProtocolInv, Synced,
           JournalInMemory, MirrorsInOrder, Serving, Available, Committing
    <2> QED
      BY <1>1, <1>4, <2>2, <2>3 DEF CommitRemove
  <1> QED
    BY <1>2, <1>3, <1>4 DEF Commit

\* Crashes, power losses and damage touch no journal and no call in flight.
LEMMA EnvironmentProtocolInv ==
    ASSUME ProtocolInv, RevocationInv',
           \/ Crash
           \/ PowerLoss
           \/ \E file \in {"Desired", "LastGood", "Activation"} : Damage(file)
           \/ \E record \in generations : DamageGeneration(record)
           \/ UNCHANGED vars
    PROVE  ProtocolInv'
  <1>0. /\ StoreOK /\ disk \in survivors
        /\ \A ns \in survivors : JournalsSound(ns)
    BY DEF ProtocolInv, RevocationInv, TypeInv, TypeOK, StoreOK
  <1>1. CASE Crash \/ PowerLoss
    <2>1. /\ \A ns \in survivors' : JournalsSound(ns)
          /\ process' = "down" /\ failed' = FALSE /\ applied' = None
      BY <1>0, <1>1 DEF Crash, PowerLoss, LoseUnsynced, Forget, store
    <2> QED
      BY <2>1, StopsProtocolInv DEF AppliedSound
  <1>2. ASSUME NEW file \in {"Desired", "LastGood", "Activation"}, Damage(file)
        PROVE  ProtocolInv'
    <2>1. /\ disk' = [disk EXCEPT ![file] = Damaged]
          /\ survivors' = {[s EXCEPT ![file] = Damaged] : s \in survivors}
          /\ process \in {"down", "ready"}
          /\ UNCHANGED <<nonce, process, memory>>
      BY <1>2 DEF Damage
    <2>2. \A ns \in survivors : [ns EXCEPT ![file] = Damaged]["Pending"]
                                    = ns["Pending"]
      BY <1>0 DEF StoreOK, IsNamespace, StoreFile
    <2>3. \A ns \in survivors' : JournalsSound(ns)
      BY <1>0, <2>1, <2>2 DEF JournalsSound
    <2>4. Synced' /\ JournalInMemory'
      BY <1>0, <2>1, <2>2 DEF ProtocolInv, Synced, JournalInMemory, Serving,
         Available, Committing, memory
    <2> QED
      BY <2>1, <2>3, <2>4 DEF ProtocolInv, MirrorsInOrder, AppliedSound, memory
  <1>3. ASSUME NEW record \in generations, DamageGeneration(record)
        PROVE  ProtocolInv'
    BY <1>0, <1>3 DEF DamageGeneration, ProtocolInv, Synced, JournalInMemory,
       MirrorsInOrder, AppliedSound, Serving, Available, store, memory
  <1>4. CASE UNCHANGED vars
    BY <1>0, <1>4 DEF vars, store, world, memory, ProtocolInv, Synced,
       JournalInMemory, MirrorsInOrder, AppliedSound, Serving, Available
  <1> QED
    BY <1>1, <1>2, <1>3, <1>4

\* Every step of the authority keeps the invariant.
LEMMA NextProtocolInv == ProtocolInv /\ [Next]_vars => ProtocolInv'
  <1> SUFFICES ASSUME ProtocolInv, [Next]_vars PROVE ProtocolInv'
    OBVIOUS
  <1>0. RevocationInv'
    BY NextRevocationInv DEF ProtocolInv
  <1>1. CASE Initialize \/ ReconcileNothing \/ ReconcileRefused
             \/ ReconcileCommitting \/ LoadRefused
    BY <1>0, <1>1, StartupProtocolInv DEF Outcome
  <1>2. CASE CommitVerify
    BY <1>0, <1>2, CommitProtocolInv DEF Outcome
  <1>3. ASSUME NEW outcome \in Outcome,
               Startup(outcome) \/ Call(outcome) \/ Commit(outcome)
        PROVE  ProtocolInv'
    BY <1>0, <1>3, StartupProtocolInv, CallProtocolInv, CommitProtocolInv
  <1> QED
    BY <1>0, <1>1, <1>2, <1>3, EnvironmentProtocolInv DEF Next

-----------------------------------------------------------------------------
(* What the protocol gives *)

\* Only a roll-forward or a commit that has written every mirror removes a
\* decision from the namespace the processes see.
LEMMA DecisionRetired ==
    ASSUME ProtocolInv, Next, \A ns \in survivors : Deciding(ns),
           ~Deciding(disk')
    PROVE  /\ process \in {"rollRemove", "commitRemove"}
           /\ disk["Pending"] = pending
           /\ \A file \in StoreFile \ {"Pending"} : disk'[file] = disk[file]
  <1>0. /\ StoreOK /\ disk \in survivors /\ Deciding(disk) /\ ~Available
    BY DEF ProtocolInv, RevocationInv, TypeInv, TypeOK, StoreOK, Undecided
  <1>a. StoreFile = {"Desired", "LastGood", "Activation", "Pending"}
    BY DEF StoreFile
  <1>b. process \in Rolling \cup Committing => disk["Pending"] = pending
    BY DEF ProtocolInv, JournalInMemory, RevocationInv, StartsClean
  <1>1. disk'["Pending"] # disk["Pending"]
    BY <1>0 DEF Deciding
  <1>2. ASSUME NEW file \in StoreFile \ {"Pending"}, NEW bytes,
               NEW outcome \in Outcome, Write(file, bytes, outcome)
        PROVE  FALSE
    <2>1. disk' = disk \/ disk' = [disk EXCEPT ![file] = bytes]
      BY <1>2, WriteEffect
    <2> QED
      BY <1>0, <1>1, <1>2, <1>a, <2>1, ReplacedFile DEF StoreOK
  <1>3. ASSUME NEW outcome \in Outcome, Write("Pending", Missing, outcome)
        PROVE  \A file \in StoreFile \ {"Pending"} : disk'[file] = disk[file]
    <2>1. disk' = disk \/ disk' = [disk EXCEPT !["Pending"] = Missing]
      BY <1>3, <1>a, WriteEffect
    <2> QED
      BY <1>0, <1>a, <2>1, ReplacedFile DEF StoreOK
  <1>4. ASSUME \/ Initialize \/ ReconcileNothing \/ ReconcileRefused
               \/ ReconcileCommitting \/ LoadRefused \/ CommitVerify \/ Crash
               \/ \E record \in generations : DamageGeneration(record)
        PROVE  FALSE
    BY <1>1, <1>4 DEF Initialize, SyncDirectory, ReconcileNothing,
       ReconcileRefused, ReconcileCommitting, LoadRefused, CommitVerify, Crash,
       DamageGeneration, store
  <1>5. ASSUME PowerLoss PROVE FALSE
    BY <1>5 DEF PowerLoss, LoseUnsynced
  <1>6. ASSUME NEW file \in {"Desired", "LastGood", "Activation"}, Damage(file)
        PROVE  FALSE
    BY <1>0, <1>1, <1>6, <1>a, ReplacedFile DEF Damage, StoreOK
  <1>7. ASSUME NEW outcome \in Outcome, Startup(outcome)
        PROVE  process = "rollRemove" /\ Write("Pending", Missing, outcome)
    <2>1. CASE ReconcilePrepared(outcome)
      BY <1>0, <2>1 DEF ReconcilePrepared, Deciding
    <2>2. CASE RollForwardDesired(outcome) \/ RollForwardLastGood(outcome)
               \/ RollForwardActivation(outcome)
      BY <1>2, <1>a, <2>2 DEF RollForwardDesired, RollForwardLastGood,
         RollForwardActivation, RollForward
    <2>3. CASE RollForwardRemove(outcome)
      BY <2>3 DEF RollForwardRemove, RollForward
    <2>4. CASE LoadSnapshots(outcome)
      BY <1>1, <1>2, <1>a, <2>4 DEF LoadSnapshots, store
    <2> QED
      BY <1>7, <2>1, <2>2, <2>3, <2>4 DEF Startup
  <1>8. ASSUME NEW outcome \in Outcome, Call(outcome) PROVE FALSE
    BY <1>0, <1>8 DEF Call, ReplaceSnapshot, PrepareApply, PrepareRecovery,
       PrepareDisplayApply, CommitApply, AbortApply, Writable
  <1>9. ASSUME NEW outcome \in Outcome, Commit(outcome)
        PROVE  process = "commitRemove" /\ Write("Pending", Missing, outcome)
    <2>1. CASE CommitDesired(outcome) \/ CommitLastGood(outcome)
               \/ CommitActivation(outcome)
      BY <1>2, <1>a, <2>1 DEF CommitDesired, CommitLastGood, CommitActivation,
         CommitWrite
    <2>2. CASE CommitRemove(outcome)
      BY <2>2 DEF CommitRemove, Remove
    <2> QED
      BY <1>9, <2>1, <2>2 DEF Commit
  <1>10. PICK outcome \in Outcome :
             Startup(outcome) \/ Call(outcome) \/ Commit(outcome)
    BY <1>4, <1>5, <1>6 DEF Next
  <1>11. /\ process \in {"rollRemove", "commitRemove"}
         /\ Write("Pending", Missing, outcome)
    BY <1>7, <1>8, <1>9, <1>10
  <1> QED
    BY <1>3, <1>11, <1>b DEF Rolling, Committing

\* What a step must do that removes a decision which no power loss can bring
\* back.
Retires == (\A ns \in survivors : Deciding(ns)) /\ ~Deciding(disk')

\* reconcilePending and commitApply remove the journal of a durable decision
\* only when Desired, LastGood and Activation all hold its transaction, in
\* spite of crashes, power losses, failing stores and damage.
THEOREM DecisionRetirement == Spec => DecisionRetiredOnlyWhenMirrored
  <1> DEFINE Mirrored ==
                 /\ DesiredIsAfter(disk', disk["Pending"])
                 /\ LastGoodIsAfter(disk', disk["Pending"])
                 /\ ActivationIsAfter(disk', disk["Pending"])
  <1>1. ASSUME ProtocolInv, Next, Retires PROVE Mirrored
    <2>1. /\ process \in {"rollRemove", "commitRemove"}
          /\ disk["Pending"] = pending
          /\ \A file \in StoreFile \ {"Pending"} : disk'[file] = disk[file]
      BY <1>1, DecisionRetired DEF Retires
    <2>2. /\ disk["Desired"] = pending.after.snapshot
          /\ disk["LastGood"] = pending.after.snapshot
          /\ disk["Activation"] = pending.after
      BY <1>1, <2>1 DEF ProtocolInv, MirrorsInOrder
    <2>3. ~ReadOnly(pending.after.snapshot)
      <3>1. disk \in survivors /\ Deciding(disk)
        BY <1>1 DEF ProtocolInv, RevocationInv, Retires
      <3> QED
        BY <1>1, <2>1, <3>1 DEF ProtocolInv, JournalsSound, JournalSound,
                                Deciding
    <2> QED
      BY <2>1, <2>2, <2>3 DEF DesiredIsAfter, LastGoodIsAfter,
                              ActivationIsAfter, StoreFile
  <1>2. ProtocolInv /\ [Next]_vars => [Retires => Mirrored]_vars
    BY <1>1
  <1> QED
    BY <1>2, InitProtocolInv, NextProtocolInv, PTL
    DEF Spec, DecisionRetiredOnlyWhenMirrored, Retires

=============================================================================
