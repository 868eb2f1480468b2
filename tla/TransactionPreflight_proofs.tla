-------------------- MODULE TransactionPreflight_proofs -------------------
(***************************************************************************)
(* Every namespace a crash or a power loss of the authority can leave is   *)
(* taken for what it is by both of its other readers: the preflight of a   *)
(* migration (reachable_v1_preflight.cpp) and the version 2 startup        *)
(* (settled_v2_startup_facts.cpp), each of which checks rules of the       *)
(* journal that no reader of version 1 checks.  The invariant below is     *)
(* what those rules need of the journal's authors.                         *)
(***************************************************************************)
EXTENDS ConfigurationTransaction_durability_proofs, TransactionPreflight,
        FiniteSetTheorems

\* What a journal of each kind says of what it replaces, and that what it
\* replaces still has its generation.
JournalConsistent(p) ==
    /\ p.kind # "Apply" => p.beforeDesired.revision < MaxRevision
    /\ p.kind = "Recovery" =>
           /\ p.before # None
           /\ p.after.snapshot.content = p.before.snapshot.content
    /\ p.kind = "DisplayPreview" =>
           /\ p.before # None
           /\ p.before.snapshot.revision = p.beforeDesired.revision
           /\ p.after.snapshot.catalog = p.beforeDesired.catalog
    /\ p.before # None =>
           /\ p.before \in generations
           /\ (p.before.snapshot.revision = p.beforeDesired.revision =>
                   p.before.snapshot.content = p.beforeDesired.content)

\* What is applied is what is desired, where it has the same revision.
AppliedConsistent(ns) ==
    (/\ ~Deciding(ns)
     /\ ns["Activation"] # Missing
     /\ ns["Activation"].snapshot.revision = ns["Desired"].revision) =>
        ns["Activation"].snapshot.content = ns["Desired"].content

Consistent(ns) ==
    /\ ns["Pending"] # Missing => JournalConsistent(ns["Pending"])
    /\ AppliedConsistent(ns)

ConsistencyInv ==
    DurabilityInv /\ (damage = 0 => \A ns \in survivors : Consistent(ns))

-----------------------------------------------------------------------------
(* One namespace *)

\* Growing the generations spoils no namespace.
LEMMA ConsistentStable ==
    ASSUME NEW ns, Consistent(ns), generations \subseteq generations'
    PROVE  Consistent(ns)'
  BY DEF Consistent, JournalConsistent, AppliedConsistent, Deciding

\* A mirror written while the decision stands: the journal says it all.
LEMMA MirrorConsistent ==
    ASSUME NEW ns, IsNamespace(ns), Consistent(ns), Deciding(ns),
           NEW file \in {"Desired", "LastGood", "Activation"}, NEW bytes
    PROVE  Consistent([ns EXCEPT ![file] = bytes])
  <1> DEFINE new == [ns EXCEPT ![file] = bytes]
  <1>1. new["Pending"] = ns["Pending"]
    BY ReplacedFile DEF StoreFile
  <1> HIDE DEF new
  <1>2. Consistent(new)
    BY <1>1 DEF Consistent, AppliedConsistent, Deciding
  <1> QED
    BY <1>2 DEF new

\* The journal removed, of a decision whose mirrors are written or of a
\* transaction that was not decided.
LEMMA RemovedConsistent ==
    ASSUME NEW ns, IsNamespace(ns), Consistent(ns),
           Deciding(ns) => /\ ns["Desired"] = ns["Pending"].after.snapshot
                           /\ ns["Activation"] = ns["Pending"].after
    PROVE  Consistent([ns EXCEPT !["Pending"] = Missing])
  <1> DEFINE new == [ns EXCEPT !["Pending"] = Missing]
  <1>1. /\ new["Pending"] = Missing
        /\ new["Desired"] = ns["Desired"]
        /\ new["Activation"] = ns["Activation"]
    BY ReplacedFile DEF StoreFile
  <1> HIDE DEF new
  <1>2. Consistent(new)
    BY <1>1 DEF Consistent, AppliedConsistent
  <1> QED
    BY <1>2 DEF new

\* PersistentStore::write into a synced directory, when the bytes it writes
\* leave a consistent namespace.
LEMMA WriteConsistent ==
    ASSUME survivors = {disk}, Consistent(disk),
           NEW file \in StoreFile, NEW bytes,
           Consistent([disk EXCEPT ![file] = bytes]),
           NEW outcome \in Outcome, Write(file, bytes, outcome)
    PROVE  \A ns \in survivors' : Consistent(ns)
  <1> DEFINE new == [disk EXCEPT ![file] = bytes]
  <1>1. Consistent(new)
    OBVIOUS
  <1>2. \A ns \in survivors' : ns = disk \/ ns = new
    BY SyncedWrite DEF Outcome
  <1> HIDE DEF new
  <1> QED
    BY <1>1, <1>2

-----------------------------------------------------------------------------
(* The invariant *)

\* A fresh store has neither a journal nor an activation.
LEMMA InitConsistencyInv == Init => ConsistencyInv
  <1> SUFFICES ASSUME Init PROVE ConsistencyInv
    OBVIOUS
  <1>1. DurabilityInv
    BY InitDurabilityInv
  <1>2. /\ survivors = {disk}
        /\ disk["Activation"] = Missing /\ disk["Pending"] = Missing
    BY DEF Init, StoreFile
  <1> QED
    BY <1>1, <1>2 DEF ConsistencyInv, Consistent, AppliedConsistent

\* A start rewrites the desired snapshot under the installed catalog at most.
LEMMA StartupConsistent ==
    ASSUME ProtocolInv, Durable, \A ns \in survivors : Consistent(ns),
           NEW outcome \in Outcome,
           \/ Initialize \/ ReconcileNothing \/ ReconcileRefused
           \/ ReconcileCommitting \/ LoadRefused \/ Startup(outcome)
    PROVE  \A ns \in survivors' : Consistent(ns)'
  <1>0. /\ disk \in survivors /\ IsNamespace(disk) /\ Consistent(disk)
        /\ TypeInv
    BY DEF ProtocolInv, RevocationInv, TypeInv, TypeOK
  <1>a. StoreFile = {"Desired", "LastGood", "Activation", "Pending"}
    BY DEF StoreFile
  <1>b. process \in {"reconcile", "load"} \cup Rolling => survivors = {disk}
    BY DEF ProtocolInv, RevocationInv, StartsClean
  <1>1. ASSUME \A ns \in survivors' : Consistent(ns),
               generations' = generations
        PROVE  \A ns \in survivors' : Consistent(ns)'
    BY <1>1, ConsistentStable
  <1>2. CASE Initialize \/ ReconcileNothing \/ ReconcileRefused
             \/ ReconcileCommitting \/ LoadRefused
    <2>1. /\ \A ns \in survivors' : ns \in survivors
          /\ generations' = generations
      BY <1>0, <1>2 DEF Initialize, SyncDirectory, ReconcileNothing,
         ReconcileRefused, ReconcileCommitting, LoadRefused, StartupFails,
         store, world
    <2> QED
      BY <1>1, <2>1
  <1>3. CASE ReconcilePrepared(outcome)
    <2>1. /\ process = "reconcile" /\ Write("Pending", Missing, outcome)
          /\ ~Deciding(disk) /\ generations' = generations
      BY <1>3 DEF ReconcilePrepared, Remove, StartupFails, Deciding, world
    <2>2. Consistent([disk EXCEPT !["Pending"] = Missing])
      BY <1>0, <2>1, RemovedConsistent
    <2>3. \A ns \in survivors' : Consistent(ns)
      BY <1>0, <1>a, <1>b, <2>1, <2>2, WriteConsistent
    <2> QED
      BY <1>1, <2>1, <2>3
  <1>4. process \in Rolling => disk["Pending"] = pending /\ Deciding(disk)
    BY DEF ProtocolInv, RevocationInv, StartsClean
  <1>5. ASSUME RollForwardDesired(outcome) \/ RollForwardLastGood(outcome)
                   \/ RollForwardActivation(outcome)
        PROVE  \A ns \in survivors' : Consistent(ns)'
    <2>1. PICK file \in {"Desired", "LastGood", "Activation"},
               bytes \in {pending.after.snapshot, pending.after} :
            /\ Write(file, bytes, outcome) /\ process \in Rolling
            /\ generations' = generations
      BY <1>5 DEF RollForwardDesired, RollForwardLastGood,
         RollForwardActivation, RollForward, Rolling, StartupFails, world
    <2>2. Consistent([disk EXCEPT ![file] = bytes])
      BY <1>0, <1>4, <2>1, MirrorConsistent
    <2>3. \A ns \in survivors' : Consistent(ns)
      BY <1>0, <1>a, <1>b, <2>1, <2>2, WriteConsistent
    <2> QED
      BY <1>1, <2>1, <2>3
  <1>6. CASE RollForwardRemove(outcome)
    <2>1. /\ Write("Pending", Missing, outcome) /\ process = "rollRemove"
          /\ generations' = generations
      BY <1>6 DEF RollForwardRemove, RollForward, StartupFails, world
    <2>2. Consistent([disk EXCEPT !["Pending"] = Missing])
      BY <1>0, <1>4, <2>1, RemovedConsistent
      DEF ProtocolInv, MirrorsInOrder, Rolling
    <2>3. \A ns \in survivors' : Consistent(ns)
      BY <1>0, <1>a, <1>b, <2>1, <2>2, WriteConsistent DEF Rolling
    <2> QED
      BY <1>1, <2>1, <2>3
  <1>7. CASE LoadSnapshots(outcome)
    <2> DEFINE new == [disk EXCEPT !["Desired"] = LoadedDesired]
    <2>1. /\ process = "load" /\ Loadable(disk) /\ disk["Pending"] = Missing
          /\ generations' = generations
      BY <1>7 DEF LoadSnapshots, world, StartupFails, ProtocolInv,
         RevocationInv, StartsClean
    <2>2. /\ new["Desired"] = LoadedDesired
          /\ new["Pending"] = Missing
          /\ new["Activation"] = disk["Activation"]
      BY <1>0, <2>1, ReplacedFile DEF StoreFile
    <2> HIDE DEF new
    <2>3. Consistent(new)
      <3>1. disk["Activation"] # Missing => disk["Desired"] # Missing
        BY <2>1 DEF Loadable, Parses
      <3>2. disk["Desired"] # Missing =>
                /\ LoadedDesired.revision = disk["Desired"].revision
                /\ LoadedDesired.content = disk["Desired"].content
        BY <1>0, <2>1, LoadedDesiredType
      <3> QED
        BY <1>0, <2>1, <2>2, <3>1, <3>2
        DEF Consistent, AppliedConsistent, Deciding
    <2>4. \A ns \in survivors' : Consistent(ns)
      <3>1. CASE LoadedDesired # disk["Desired"]
        BY <1>0, <1>7, <1>a, <1>b, <2>1, <2>3, <3>1, WriteConsistent
        DEF LoadSnapshots, new
      <3>2. CASE LoadedDesired = disk["Desired"]
        BY <1>7, <3>2 DEF LoadSnapshots, store
      <3> QED
        BY <3>1, <3>2
    <2> QED
      BY <1>1, <2>1, <2>4
  <1> QED
    BY <1>2, <1>3, <1>5, <1>6, <1>7 DEF Startup

\* Staging a candidate, when the journal it writes is consistent.
LEMMA StageConsistent ==
    ASSUME ProtocolInv, Durable, \A ns \in survivors : Consistent(ns),
           Writable, NEW outcome \in Outcome,
           NEW kind \in PendingKind, NEW candidate,
           StageCandidate(kind, candidate, outcome),
           kind # "Apply" => desired.revision < MaxRevision,
           kind = "Recovery" =>
               applied # None /\ candidate.content = applied.snapshot.content,
           kind = "DisplayPreview" =>
               /\ applied # None
               /\ applied.snapshot.revision = desired.revision
               /\ candidate.catalog = desired.catalog
    PROVE  \A ns \in survivors' : Consistent(ns)'
  <1> DEFINE after == [snapshot |-> candidate, nonce |-> nonce + 1]
             record == [kind |-> kind, phase |-> "Prepared",
                        beforeDesired |-> desired, after |-> after,
                        before |-> applied]
             new == [disk EXCEPT !["Pending"] = record]
  <1>1. /\ Write("Pending", record, outcome)
        /\ generations' = generations \cup {after}
    BY DEF StageCandidate
  <1>2. Available /\ pending = None
    BY DEF Writable
  <1>3. /\ IsNamespace(disk) /\ survivors = {disk} /\ Consistent(disk)
        /\ ~Deciding(disk) /\ Loadable(disk)
        /\ disk["Desired"] = desired
        /\ disk["Activation"] = IF applied = None THEN Missing ELSE applied
        /\ applied # None => applied # Missing
    BY <1>2, ServingFacts, SentinelAssumption
  <1>4. /\ record.kind = kind /\ record.phase = "Prepared"
        /\ record.after.snapshot = candidate
        /\ record.beforeDesired = desired /\ record.before = applied
    OBVIOUS
  <1> HIDE DEF record
  <1>5. /\ new["Pending"] = record
        /\ new["Desired"] = disk["Desired"]
        /\ new["Activation"] = disk["Activation"]
    BY <1>3, ReplacedFile DEF StoreFile
  <1> HIDE DEF new
  <1>6. applied # None => applied \in generations
    BY <1>3 DEF Loadable, CrossCheckGeneration
  <1>7. /\ applied # None
        /\ applied.snapshot.revision = desired.revision
        => applied.snapshot.content = desired.content
    BY <1>3 DEF Consistent, AppliedConsistent
  <1>8. JournalConsistent(record)
    BY <1>4, <1>6, <1>7 DEF JournalConsistent
  <1>9. Consistent(new)
    BY <1>3, <1>4, <1>5, <1>8
    DEF Consistent, AppliedConsistent, Deciding
  <1>10. \A ns \in survivors' : Consistent(ns)
    BY <1>1, <1>3, <1>9, WriteConsistent DEF StoreFile, new
  <1> QED
    BY <1>1, <1>10, ConsistentStable

\* replaceSnapshot moves the desired revision past every applied one.
LEMMA ReplaceConsistent ==
    ASSUME ProtocolInv, Durable, \A ns \in survivors : Consistent(ns),
           NEW outcome \in Outcome,
           NEW expected \in 0..MaxRevision, NEW content \in Content,
           ReplaceSnapshot(expected, content, outcome)
    PROVE  \A ns \in survivors' : Consistent(ns)'
  <1> DEFINE next == [revision |-> expected + 1, content |-> content,
                      catalog |-> catalog]
             new == [disk EXCEPT !["Desired"] = next]
  <1>1. /\ Available /\ Write("Desired", next, outcome)
        /\ generations' = generations
    BY DEF ReplaceSnapshot, world
  <1>2. expected = desired.revision /\ pending = None
    <2>1. desired.revision \in Nat
      BY <1>1, ServingFacts, BoundAssumption DEF Snapshot
    <2> QED
      BY <2>1 DEF ReplaceSnapshot, ReplaceOutcome
  <1>3. /\ IsNamespace(disk) /\ survivors = {disk} /\ Consistent(disk)
        /\ Intact(disk) /\ ~Deciding(disk) /\ disk["Pending"] = Missing
        /\ disk["Desired"] = desired /\ desired \in Snapshot
        /\ disk["Activation"] = IF applied = None THEN Missing ELSE applied
        /\ applied # None => applied \in AppliedRecord
    BY <1>1, <1>2, ServingFacts
  <1>4. next.revision = expected + 1
    OBVIOUS
  <1> HIDE DEF next
  <1>5. /\ new["Pending"] = Missing
        /\ new["Desired"] = next
        /\ new["Activation"] = disk["Activation"]
    BY <1>3, ReplacedFile DEF StoreFile
  <1> HIDE DEF new
  <1>6. new["Activation"] # Missing =>
            new["Activation"].snapshot.revision # new["Desired"].revision
    <2>1. disk["Activation"] # Missing =>
              /\ disk["Activation"].snapshot.revision \in Nat
              /\ disk["Activation"].snapshot.revision <= desired.revision
      BY <1>3, BoundAssumption DEF Intact, NotAhead, AppliedRecord, Snapshot
    <2> QED
      BY <1>2, <1>4, <1>5, <2>1
  <1>7. Consistent(new)
    BY <1>5, <1>6 DEF Consistent, AppliedConsistent
  <1>8. \A ns \in survivors' : Consistent(ns)
    BY <1>1, <1>3, <1>7, WriteConsistent DEF StoreFile, new
  <1> QED
    BY <1>1, <1>8, ConsistentStable

\* The commit decision changes nothing of the journal but its phase.
LEMMA DecideConsistent ==
    ASSUME ProtocolInv, Durable, \A ns \in survivors : Consistent(ns),
           NEW outcome \in Outcome, CommitApply(outcome)
    PROVE  \A ns \in survivors' : Consistent(ns)'
  <1> DEFINE committing == [pending EXCEPT !.phase = "Committing"]
             new == [disk EXCEPT !["Pending"] = committing]
  <1>1. /\ Available /\ pending # None /\ generations' = generations
        /\ UNCHANGED store \/ Write("Pending", committing, outcome)
    BY DEF CommitApply, world
  <1>2. /\ IsNamespace(disk) /\ survivors = {disk} /\ Consistent(disk)
        /\ disk["Pending"] = pending /\ pending # Missing
        /\ pending \in PendingRecord
    BY <1>1, ServingFacts
  <1>3. /\ committing.after = pending.after
        /\ committing.kind = pending.kind
        /\ committing.phase = "Committing"
        /\ committing.beforeDesired = pending.beforeDesired
        /\ committing.before = pending.before
    BY <1>2 DEF PendingRecord
  <1>4. committing # Missing
    <2>1. committing \in PendingRecord
      BY <1>2 DEF PendingRecord, PendingPhase
    <2> QED
      BY <2>1, SentinelAssumption
  <1> HIDE DEF committing
  <1>5. new["Pending"] = committing
    BY <1>2, ReplacedFile DEF StoreFile
  <1> HIDE DEF new
  <1>6. JournalConsistent(committing)
    BY <1>2, <1>3 DEF Consistent, JournalConsistent
  <1>7. Consistent(new)
    BY <1>3, <1>4, <1>5, <1>6 DEF Consistent, AppliedConsistent, Deciding
  <1>8. \A ns \in survivors' : Consistent(ns)
    BY <1>1, <1>2, <1>7, WriteConsistent DEF StoreFile, store, new
  <1> QED
    BY <1>1, <1>8, ConsistentStable

\* abortApply removes a journal that was not decided.
LEMMA AbortConsistent ==
    ASSUME ProtocolInv, Durable, \A ns \in survivors : Consistent(ns),
           NEW outcome \in Outcome, AbortApply(outcome)
    PROVE  \A ns \in survivors' : Consistent(ns)'
  <1>1. /\ Available /\ generations' = generations
        /\ UNCHANGED store \/ Write("Pending", Missing, outcome)
    BY DEF AbortApply, Remove, world
  <1>2. /\ IsNamespace(disk) /\ survivors = {disk} /\ Consistent(disk)
        /\ ~Deciding(disk)
    BY <1>1, ServingFacts
  <1>3. Consistent([disk EXCEPT !["Pending"] = Missing])
    BY <1>2, RemovedConsistent
  <1>4. \A ns \in survivors' : Consistent(ns)
    BY <1>1, <1>2, <1>3, WriteConsistent DEF store, StoreFile
  <1> QED
    BY <1>1, <1>4, ConsistentStable

\* Calls of the service.
LEMMA CallConsistent ==
    ASSUME ProtocolInv, Durable, \A ns \in survivors : Consistent(ns),
           NEW outcome \in Outcome, Call(outcome)
    PROVE  \A ns \in survivors' : Consistent(ns)'
  <1>1. CASE PrepareApply(outcome)
    BY <1>1, StageConsistent DEF PrepareApply, PendingKind
  <1>2. CASE PrepareRecovery(outcome)
    <2> DEFINE candidate ==
                   [AppliedState EXCEPT !.revision = desired.revision + 1]
    <2>1. /\ Writable /\ applied # None /\ desired.revision < MaxRevision
          /\ StageCandidate("Recovery", candidate, outcome)
      BY <1>2 DEF PrepareRecovery
    <2>2. applied \in AppliedRecord
      BY <2>1, ServingFacts DEF Writable
    <2>3. candidate.content = applied.snapshot.content
      BY <2>2 DEF AppliedState, Migrated, AppliedRecord, Snapshot
    <2> HIDE DEF candidate
    <2> QED
      BY <2>1, <2>3, StageConsistent DEF PendingKind
  <1>3. ASSUME NEW content \in Content, PrepareDisplayApply(content, outcome)
        PROVE  \A ns \in survivors' : Consistent(ns)'
    <2> DEFINE candidate == [revision |-> desired.revision + 1,
                             content |-> content,
                             catalog |-> desired.catalog]
    <2>1. /\ Writable /\ ExactAppliedBaseline
          /\ desired.revision < MaxRevision
          /\ StageCandidate("DisplayPreview", candidate, outcome)
      BY <1>3 DEF PrepareDisplayApply
    <2>2. candidate.catalog = desired.catalog
      OBVIOUS
    <2> HIDE DEF candidate
    <2> QED
      BY <2>1, <2>2, StageConsistent DEF PendingKind, ExactAppliedBaseline
  <1> QED
    BY <1>1, <1>2, <1>3, ReplaceConsistent, DecideConsistent, AbortConsistent
    DEF Call

\* The mirrors of a decided transaction, written one by one.
LEMMA CommitConsistent ==
    ASSUME ProtocolInv, Durable, \A ns \in survivors : Consistent(ns),
           NEW outcome \in Outcome, CommitVerify \/ Commit(outcome)
    PROVE  \A ns \in survivors' : Consistent(ns)'
  <1>a. StoreFile = {"Desired", "LastGood", "Activation", "Pending"}
    BY DEF StoreFile
  <1>0. process \in Committing
    BY DEF CommitVerify, Commit, CommitDesired, CommitLastGood,
           CommitActivation, CommitWrite, CommitRemove, Committing
  <1>1. pending \in PendingRecord /\ pending # Missing
    <2>1. pending \in PendingRecord
      BY <1>0 DEF ProtocolInv, RevocationInv, TypeInv, ProcessOK, Committing
    <2> QED
      BY <2>1, SentinelAssumption
  <1>2. /\ survivors = {disk} /\ Consistent(disk) /\ IsNamespace(disk)
        /\ disk["Pending"] = pending /\ Deciding(disk)
    BY <1>0, <1>1 DEF ProtocolInv, Synced, JournalInMemory, Serving, Deciding,
       RevocationInv, TypeInv, TypeOK
  <1>3. ASSUME \A ns \in survivors' : Consistent(ns),
               generations' = generations
        PROVE  \A ns \in survivors' : Consistent(ns)'
    BY <1>3, ConsistentStable
  <1>4. CASE CommitVerify
    <2>1. UNCHANGED store /\ generations' = generations
      BY <1>4 DEF CommitVerify, DurableFailure, world
    <2> QED
      BY <1>2, <1>3, <2>1 DEF store
  <1>5. ASSUME CommitDesired(outcome) \/ CommitLastGood(outcome)
                   \/ CommitActivation(outcome)
        PROVE  \A ns \in survivors' : Consistent(ns)'
    <2>1. PICK file \in {"Desired", "LastGood", "Activation"},
               bytes \in {pending.after.snapshot, pending.after} :
            Write(file, bytes, outcome) /\ generations' = generations
      BY <1>5 DEF CommitDesired, CommitLastGood, CommitActivation,
         CommitWrite, DurableFailure, world
    <2>2. Consistent([disk EXCEPT ![file] = bytes])
      BY <1>2, <2>1, MirrorConsistent
    <2>3. \A ns \in survivors' : Consistent(ns)
      BY <1>2, <1>a, <2>1, <2>2, WriteConsistent
    <2> QED
      BY <1>3, <2>1, <2>3
  <1>6. CASE CommitRemove(outcome)
    <2>1. /\ Write("Pending", Missing, outcome) /\ process = "commitRemove"
          /\ generations' = generations
      BY <1>6 DEF CommitRemove, Remove, DurableFailure, world
    <2>2. Consistent([disk EXCEPT !["Pending"] = Missing])
      BY <1>2, <2>1, RemovedConsistent DEF ProtocolInv, MirrorsInOrder
    <2>3. \A ns \in survivors' : Consistent(ns)
      BY <1>2, <1>a, <2>1, <2>2, WriteConsistent
    <2> QED
      BY <1>3, <2>1, <2>3
  <1> QED
    BY <1>4, <1>5, <1>6 DEF Commit

\* Every step keeps the invariant; after the first damage it promises nothing.
LEMMA NextConsistencyInv == ConsistencyInv /\ [Next]_vars => ConsistencyInv'
  <1> SUFFICES ASSUME ConsistencyInv, [Next]_vars PROVE ConsistencyInv'
    OBVIOUS
  <1>0. DurabilityInv'
    BY NextDurabilityInv DEF ConsistencyInv
  <1>1. SUFFICES ASSUME damage' = 0
                 PROVE  \A ns \in survivors' : Consistent(ns)'
    BY <1>0 DEF ConsistencyInv
  <1>2. ProtocolInv /\ damage \in Nat
    BY DEF ConsistencyInv, DurabilityInv, ProtocolInv, RevocationInv, TypeInv,
           TypeOK
  <1>3. CASE \/ \E file \in {"Desired", "LastGood", "Activation"} : Damage(file)
             \/ \E record \in generations : DamageGeneration(record)
    BY <1>1, <1>2, <1>3 DEF Damage, DamageGeneration
  <1>4. ASSUME damage = 0
        PROVE  Durable /\ \A ns \in survivors : Consistent(ns)
    BY <1>4 DEF ConsistencyInv, DurabilityInv
  <1>5. CASE Initialize \/ ReconcileNothing \/ ReconcileRefused
             \/ ReconcileCommitting \/ LoadRefused
    <2>1. damage' = damage
      BY <1>5 DEF Initialize, ReconcileNothing, ReconcileRefused,
         ReconcileCommitting, LoadRefused, StartupFails, world
    <2> QED
      BY <1>1, <1>2, <1>4, <1>5, <2>1, StartupConsistent DEF Outcome
  <1>6. CASE CommitVerify
    <2>1. damage' = damage
      BY <1>6 DEF CommitVerify, DurableFailure, world
    <2> QED
      BY <1>1, <1>2, <1>4, <1>6, <2>1, CommitConsistent DEF Outcome
  <1>7. ASSUME NEW outcome \in Outcome,
               Startup(outcome) \/ Call(outcome) \/ Commit(outcome)
        PROVE  \A ns \in survivors' : Consistent(ns)'
    <2>1. CASE Startup(outcome)
      <3>1. damage' = damage
        BY <2>1 DEF Startup, ReconcilePrepared, RollForwardDesired,
           RollForwardLastGood, RollForwardActivation, RollForwardRemove,
           RollForward, LoadSnapshots, StartupFails, world
      <3> QED
        BY <1>1, <1>2, <1>4, <2>1, <3>1, StartupConsistent
    <2>2. CASE Call(outcome)
      <3>1. damage' = damage
        BY <2>2 DEF Call, ReplaceSnapshot, PrepareApply, PrepareRecovery,
           PrepareDisplayApply, StageCandidate, CommitApply, AbortApply, world
      <3> QED
        BY <1>1, <1>2, <1>4, <2>2, <3>1, CallConsistent
    <2>3. CASE Commit(outcome)
      <3>1. damage' = damage
        BY <2>3 DEF Commit, CommitDesired, CommitLastGood, CommitActivation,
           CommitWrite, CommitRemove, DurableFailure, world
      <3> QED
        BY <1>1, <1>2, <1>4, <2>3, <3>1, CommitConsistent
    <2> QED
      BY <1>7, <2>1, <2>2, <2>3
  <1>8. CASE Crash \/ PowerLoss \/ UNCHANGED vars
    <2>1. /\ damage' = damage /\ generations' = generations
          /\ \A ns \in survivors' : ns \in survivors
      BY <1>2, <1>8 DEF Crash, PowerLoss, LoseUnsynced, vars, store, world,
         ProtocolInv, RevocationInv
    <2> QED
      BY <1>1, <1>4, <2>1, ConsistentStable
  <1> QED
    BY <1>3, <1>5, <1>6, <1>7, <1>8 DEF Next

-----------------------------------------------------------------------------
(* What the invariant says of one namespace *)

Sound(ns) ==
    /\ IsNamespace(ns) /\ ns["Desired"] # Missing
    /\ Recoverable(ns) /\ NotAhead(ns)
    /\ JournalsSound(ns) /\ Consistent(ns)

\* The activation and the last good snapshot of a transaction, none before the
\* first.
ActivationOf(record) == IF record = None THEN Missing ELSE record
LastGoodOf(record) == IF record = None THEN Missing ELSE record.snapshot

\* Two documents of one revision are the same document, catalogs aside.
SameWhereEqual(d, e) == d.revision = e.revision => d.content = e.content

\* Without a journal, the two applied mirrors are one transaction or nothing,
\* and no later than what is desired.
LEMMA SettledNamespace ==
    ASSUME NEW ns, Sound(ns), ns["Pending"] = Missing
    PROVE  /\ ns["Desired"] \in Snapshot
           /\ \/ ns["LastGood"] = Missing /\ ns["Activation"] = Missing
              \/ /\ ns["Activation"] \in AppliedRecord
                 /\ ns["Activation"] \in generations
                 /\ ns["Activation"].snapshot \in Snapshot
                 /\ ns["LastGood"] = ns["Activation"].snapshot
                 /\ ns["LastGood"].revision <= ns["Desired"].revision
                 /\ SameWhereEqual(ns["LastGood"], ns["Desired"])
  <1>1. Loadable(ns) /\ ~Deciding(ns)
    BY DEF Sound, Recoverable, Deciding
  <1>2. /\ Fits("Desired", ns["Desired"]) /\ Fits("LastGood", ns["LastGood"])
        /\ Fits("Activation", ns["Activation"])
    BY DEF Sound, IsNamespace, StoreFile
  <1>3. ns["Desired"] \in Snapshot
    BY <1>1, <1>2 DEF Sound, Loadable, Parses, Fits
  <1>4. CASE ns["LastGood"] = Missing
    BY <1>1, <1>3, <1>4 DEF Loadable, Parses
  <1>5. CASE ns["LastGood"] # Missing
    <2>1. /\ ns["Activation"] \in AppliedRecord
          /\ ns["Activation"] # Missing
          /\ ns["Activation"] \in generations
          /\ ns["LastGood"] = ns["Activation"].snapshot
      BY <1>1, <1>2, <1>5 DEF Loadable, Parses, Fits, CrossCheckGeneration
    <2>2. ns["Activation"].snapshot \in Snapshot
      BY <2>1 DEF AppliedRecord
    <2>3. /\ ns["LastGood"].revision <= ns["Desired"].revision
          /\ SameWhereEqual(ns["LastGood"], ns["Desired"])
      BY <1>1, <2>1
      DEF Sound, NotAhead, Consistent, AppliedConsistent, SameWhereEqual
    <2> QED
      BY <1>3, <2>1, <2>2, <2>3
  <1> QED
    BY <1>4, <1>5

\* With a journal p, every mirror is on one side of p, and both sides have
\* their generations.
LEMMA JournalledNamespace ==
    ASSUME NEW ns, Sound(ns), ns["Pending"] # Missing
    PROVE  LET p == ns["Pending"] IN
           /\ p \in PendingRecord
           /\ p.phase \in PendingPhase /\ p.kind \in PendingKind
           /\ p.beforeDesired \in Snapshot
           /\ p.after \in AppliedRecord /\ p.after \in generations
           /\ p.after.snapshot \in Snapshot
           /\ p.before # None =>
                  /\ p.before \in AppliedRecord /\ p.before \in generations
                  /\ p.before.snapshot \in Snapshot
                  /\ p.before.nonce # p.after.nonce
                  /\ p.before.snapshot.revision <= p.beforeDesired.revision
                  /\ SameWhereEqual(p.before.snapshot, p.beforeDesired)
                  /\ SameWhereEqual(p.before.snapshot, p.after.snapshot)
           /\ SameWhereEqual(p.beforeDesired, p.after.snapshot)
           /\ IF p.kind = "Apply" THEN p.after.snapshot = p.beforeDesired
              ELSE /\ p.beforeDesired.revision # MaxRevision
                   /\ p.after.snapshot.revision = p.beforeDesired.revision + 1
           /\ ns["Desired"] \in {p.beforeDesired, p.after.snapshot}
           /\ ns["LastGood"] \in {LastGoodOf(p.before), p.after.snapshot}
           /\ ns["Activation"] \in {ActivationOf(p.before), p.after}
           /\ p.phase = "Prepared" =>
                  /\ ns["Desired"] = p.beforeDesired
                  /\ ns["LastGood"] = LastGoodOf(p.before)
                  /\ ns["Activation"] = ActivationOf(p.before)
           /\ p.phase = "Committing" =>
                  /\ ns["Activation"] = p.after =>
                         /\ ns["Desired"] = p.after.snapshot
                         /\ ns["LastGood"] = p.after.snapshot
                  /\ ns["LastGood"] = p.after.snapshot =>
                         ns["Desired"] = p.after.snapshot
  <1> DEFINE p == ns["Pending"]
  <1>1. /\ p \in PendingRecord
        /\ p.phase \in PendingPhase /\ p.kind \in PendingKind
        /\ p.beforeDesired \in Snapshot
        /\ p.after \in AppliedRecord /\ p.after.nonce \in Nonce
        /\ p.after.snapshot \in Snapshot
        /\ p.before # None => /\ p.before \in AppliedRecord
                              /\ p.before.snapshot \in Snapshot
                              /\ p.before.nonce \in Nonce
    <2>1. p \in PendingRecord
      BY JournalType DEF Sound
    <2> QED
      BY <2>1, JournalType DEF Sound, PendingRecord, AppliedRecord
  <1>2. MirrorsAllowReconciliation(ns, p) /\ JournalSound(p)
    BY DEF Sound, Recoverable, JournalsSound
  <1>3. JournalConsistent(p)
    BY DEF Sound, Consistent
  <1>4. p.after \in generations
    BY <1>2 DEF MirrorsAllowReconciliation, CrossCheckGeneration
  <1>5. IF p.kind = "Apply" THEN p.after.snapshot = p.beforeDesired
        ELSE /\ p.beforeDesired.revision # MaxRevision
             /\ p.after.snapshot.revision = p.beforeDesired.revision + 1
    BY <1>1, <1>2, <1>3, BoundAssumption
    DEF JournalSound, JournalConsistent, Snapshot
  <1>6. p.before # None =>
            /\ p.before \in generations
            /\ p.before.snapshot.revision <= p.beforeDesired.revision
            /\ SameWhereEqual(p.before.snapshot, p.beforeDesired)
    BY <1>3 DEF Sound, NotAhead, JournalConsistent, SameWhereEqual
  <1>7. p.before # None => p.before.nonce # p.after.nonce
    BY <1>1, <1>2 DEF JournalSound, Nonce
  <1>8. /\ SameWhereEqual(p.beforeDesired, p.after.snapshot)
        /\ p.before # None =>
               SameWhereEqual(p.before.snapshot, p.after.snapshot)
    BY <1>1, <1>5, <1>6, BoundAssumption DEF Snapshot, SameWhereEqual
  <1>9. /\ ns["Desired"] \in {p.beforeDesired, p.after.snapshot}
        /\ ns["LastGood"] \in {LastGoodOf(p.before), p.after.snapshot}
        /\ ns["Activation"] \in {ActivationOf(p.before), p.after}
        /\ p.phase = "Prepared" =>
               /\ ns["Desired"] = p.beforeDesired
               /\ ns["LastGood"] = LastGoodOf(p.before)
               /\ ns["Activation"] = ActivationOf(p.before)
    BY <1>2 DEF MirrorsAllowReconciliation, DesiredIsBefore, DesiredIsAfter,
       ActivationIsBefore, ActivationIsAfter, LastGoodIsBefore,
       LastGoodIsAfter, ActivationOf, LastGoodOf
  <1>10. p.phase = "Committing" =>
            /\ ns["Activation"] = p.after =>
                   /\ ns["Desired"] = p.after.snapshot
                   /\ ns["LastGood"] = p.after.snapshot
            /\ ns["LastGood"] = p.after.snapshot =>
                   ns["Desired"] = p.after.snapshot
    BY <1>2 DEF MirrorsAllowReconciliation, JournalSound, DesiredIsAfter,
       ActivationIsAfter, LastGoodIsAfter
  <1> HIDE DEF p
  <1>11. /\ p \in PendingRecord
         /\ p.phase \in PendingPhase /\ p.kind \in PendingKind
         /\ p.beforeDesired \in Snapshot
         /\ p.after \in AppliedRecord /\ p.after \in generations
         /\ p.after.snapshot \in Snapshot
         /\ p.before # None =>
                /\ p.before \in AppliedRecord /\ p.before \in generations
                /\ p.before.snapshot \in Snapshot
                /\ p.before.nonce # p.after.nonce
                /\ p.before.snapshot.revision <= p.beforeDesired.revision
                /\ SameWhereEqual(p.before.snapshot, p.beforeDesired)
                /\ SameWhereEqual(p.before.snapshot, p.after.snapshot)
    BY <1>1, <1>4, <1>6, <1>7, <1>8
  <1> QED
    BY <1>5, <1>8, <1>9, <1>10, <1>11 DEF p

-----------------------------------------------------------------------------
(* Version 1: the preflight *)

\* The reads the preflight is given.
LEMMA CapturedReads ==
    ASSUME NEW ns
    PROVE  LET i == Captured(ns) IN
           /\ i.desired = ns["Desired"] /\ i.lastGood = ns["LastGood"]
           /\ i.applied = ns["Activation"] /\ i.pending = ns["Pending"]
           /\ i.ownership = Missing /\ i.bridge = Missing
           /\ i.verified = generations
           /\ i.evidence = PreflightV1!AppliedReferences(i)
  BY DEF Captured, PreflightV1!AppliedReferences, PreflightV1!HasPending,
         PreflightV1!Present

\* The transactions the records refer to: the one applied, or both sides of
\* the journal.
LEMMA ReferredTo ==
    ASSUME NEW ns, Sound(ns)
    PROVE  PreflightV1!AppliedReferences(Captured(ns)) =
               IF ns["Pending"] = Missing
               THEN {ns["Activation"]} \ {Missing}
               ELSE {ns["Pending"].after, ns["Pending"].before} \ {None}
  <1> DEFINE i == Captured(ns)
  <1>1. i.applied = ns["Activation"] /\ i.pending = ns["Pending"]
    BY CapturedReads
  <1> HIDE DEF i
  <1>2. CASE ns["Pending"] = Missing
    BY <1>1, <1>2 DEF PreflightV1!AppliedReferences, PreflightV1!HasPending,
       PreflightV1!Present, i
  <1>3. CASE ns["Pending"] # Missing
    <2> DEFINE p == ns["Pending"]
    <2>1. /\ p.after \in AppliedRecord
          /\ ns["Activation"] \in {ActivationOf(p.before), p.after}
      BY <1>3, JournalledNamespace
    <2>2. p.after # None
      BY <2>1, SentinelAssumption
    <2> HIDE DEF p
    <2>3. PreflightV1!AppliedReferences(i) =
              (IF ns["Activation"] # Missing THEN {ns["Activation"]} ELSE {})
                  \cup ({p.after, p.before} \ {None})
      BY <1>1, <1>3 DEF PreflightV1!AppliedReferences,
         PreflightV1!HasPending, PreflightV1!Present, p
    <2>4. ns["Activation"] # Missing =>
              ns["Activation"] \in {p.after, p.before} \ {None}
      BY <2>1, <2>2 DEF ActivationOf
    <2>5. PreflightV1!AppliedReferences(i) = {p.after, p.before} \ {None}
      BY <2>3, <2>4
    <2> QED
      BY <1>3, <2>5 DEF p, i
  <1> QED
    BY <1>2, <1>3

\* Both readers count with the library's Cardinality.
LEMMA SameCardinality ==
    ASSUME NEW S
    PROVE  /\ PreflightV1!Cardinality(S) = Cardinality(S)
           /\ StartupV2!Cardinality(S) = Cardinality(S)
  BY DEF PreflightV1!Cardinality, StartupV2!Cardinality, Cardinality

\* A set of at most two elements has at most two.
LEMMA AtMostTwo ==
    ASSUME NEW a, NEW b
    PROVE  /\ IsFiniteSet({a, b})
           /\ Cardinality({a, b}) = IF a = b THEN 1 ELSE 2
  <1>1. IsFiniteSet({a}) /\ Cardinality({a}) = 1
    BY FS_Singleton
  <1>2. {a, b} = {a} \cup {b}
    OBVIOUS
  <1>3. /\ IsFiniteSet({a} \cup {b})
        /\ Cardinality({a} \cup {b}) =
               IF b \in {a} THEN Cardinality({a}) ELSE Cardinality({a}) + 1
    BY <1>1, FS_AddElement
  <1> QED
    BY <1>1, <1>2, <1>3

\* The generations the records refer to are there, verify, and are at most two
\* with identities of their own.
LEMMA GenerationsRecognized ==
    ASSUME NEW ns, Sound(ns)
    PROVE  PreflightV1!GenerationsBound(Captured(ns))
  <1> DEFINE i == Captured(ns)
             referred == PreflightV1!AppliedReferences(i)
  <1>1. /\ i.ownership = Missing /\ i.bridge = Missing
        /\ i.verified = generations /\ i.evidence = referred
    BY CapturedReads
  <1>2. referred = IF ns["Pending"] = Missing
                   THEN {ns["Activation"]} \ {Missing}
                   ELSE {ns["Pending"].after, ns["Pending"].before} \ {None}
    BY ReferredTo
  <1> HIDE DEF i, referred
  <1> DEFINE Bounded ==
                 /\ Cardinality(referred) <= 2
                 /\ \A g, h \in referred : g.nonce = h.nonce => g = h
                 /\ referred \subseteq generations
  <1>3. ASSUME NEW a \in generations, NEW b \in generations,
               referred = {a, b}, a = b \/ a.nonce # b.nonce
        PROVE  Bounded
    <2>1. Cardinality({a, b}) = 1 \/ Cardinality({a, b}) = 2
      BY AtMostTwo, Zenon
    <2>2. Cardinality({a, b}) <= 2
      BY <2>1
    <2> QED
      BY <1>3, <2>2
  <1>4. Bounded
    <2>1. CASE referred = {}
      BY <2>1, FS_EmptySet
    <2>2. CASE ns["Pending"] = Missing /\ referred # {}
      <3>1. ns["Activation"] \in generations
        BY <1>2, <2>2, SettledNamespace
      <3>2. referred = {ns["Activation"], ns["Activation"]}
        BY <1>2, <2>2
      <3> QED
        BY <1>3, <3>1, <3>2
    <2>3. CASE ns["Pending"] # Missing
      <3> DEFINE p == ns["Pending"]
      <3>1. /\ p.after \in generations /\ p.after \in AppliedRecord
            /\ p.before # None => /\ p.before \in generations
                                  /\ p.before.nonce # p.after.nonce
        BY <2>3, JournalledNamespace
      <3>2. referred = {p.after, p.before} \ {None} /\ p.after # None
        BY <1>2, <2>3, <3>1, SentinelAssumption
      <3> HIDE DEF p, Bounded
      <3>3. CASE p.before = None
        <4>1. referred = {p.after, p.after}
          BY <3>2, <3>3
        <4> QED
          BY <1>3, <3>1, <4>1
      <3>4. CASE p.before # None
        <4>1. referred = {p.after, p.before}
          BY <3>2, <3>4
        <4> QED
          BY <1>3, <3>1, <3>4, <4>1
      <3> QED
        BY <3>3, <3>4
    <2> QED
      BY <2>1, <2>2, <2>3
  <1>5. PreflightV1!DistinctGenerations(i)
    BY <1>1, <1>4, SameCardinality
    DEF PreflightV1!DistinctGenerations, PreflightV1!MaxGenerations
  <1>6. PreflightV1!ExactlyReferenced(i)
    BY <1>1 DEF PreflightV1!ExactlyReferenced, PreflightV1!Identities,
                PreflightV1!Present, PreflightV1!HasBridge, referred
  <1>7. PreflightV1!ReferencesBound(i)
    BY <1>1, <1>4 DEF PreflightV1!ReferencesBound, referred
  <1>8. PreflightV1!GenerationsBound(i)
    BY <1>5, <1>6, <1>7 DEF PreflightV1!GenerationsBound
  <1> QED
    BY <1>8 DEF i

\* A snapshot is its revision, its content and its catalog.
LEMMA SameSnapshot ==
    ASSUME NEW d \in Snapshot, NEW e \in Snapshot,
           d.revision = e.revision, d.content = e.content,
           d.catalog = e.catalog
    PROVE  d = e
  BY DEF Snapshot

\* The documents the preflight compares are those of the settled records, or
\* those of both sides of the journal.
LEMMA DocumentsOf ==
    ASSUME NEW ns, Sound(ns)
    PROVE  LET documents == PreflightV1!Documents(Captured(ns))
               p == ns["Pending"]
           IN  /\ ns["Desired"] \in documents
               /\ p = Missing =>
                      documents = {ns["Desired"], ns["LastGood"]} \ {Missing}
               /\ p # Missing =>
                      documents = {ns["Desired"], p.after.snapshot}
                          \cup (IF p.before = None THEN {}
                                ELSE {p.before.snapshot})
  <1> DEFINE i == Captured(ns)
             p == ns["Pending"]
             referred == PreflightV1!AppliedReferences(i)
             documents == PreflightV1!Documents(i)
  <1>1. /\ i.desired = ns["Desired"] /\ i.lastGood = ns["LastGood"]
        /\ i.pending = p /\ i.evidence = referred
    BY CapturedReads
  <1>2. referred = IF p = Missing THEN {ns["Activation"]} \ {Missing}
                   ELSE {p.after, p.before} \ {None}
    BY ReferredTo
  <1> HIDE DEF i, referred
  <1>3. documents = {ns["Desired"]} \cup ({ns["LastGood"]} \ {Missing})
                        \cup (IF p # Missing THEN {p.after.snapshot} ELSE {})
                        \cup {g.snapshot : g \in referred}
    BY <1>1 DEF PreflightV1!Documents, PreflightV1!HasPending,
       PreflightV1!Present
  <1> HIDE DEF documents
  <1>4. CASE p = Missing
    <2>1. /\ ns["Desired"] \in Snapshot
          /\ \/ ns["LastGood"] = Missing /\ ns["Activation"] = Missing
             \/ /\ ns["Activation"] \in AppliedRecord
                /\ ns["LastGood"] = ns["Activation"].snapshot
                /\ ns["LastGood"] \in Snapshot
      BY <1>4, SettledNamespace
    <2>2. ns["Desired"] # Missing
      BY DEF Sound
    <2>3. CASE ns["LastGood"] = Missing /\ ns["Activation"] = Missing
      BY <1>2, <1>3, <1>4, <2>2, <2>3 DEF i, documents
    <2>4. CASE /\ ns["Activation"] \in AppliedRecord
               /\ ns["LastGood"] = ns["Activation"].snapshot
               /\ ns["LastGood"] \in Snapshot
      <3>1. ns["Activation"] # Missing /\ ns["LastGood"] # Missing
        BY <2>4, SentinelAssumption
      <3>2. referred = {ns["Activation"]}
        BY <1>2, <1>4, <3>1
      <3>3. {g.snapshot : g \in referred} = {ns["LastGood"]}
        BY <2>4, <3>2
      <3>4. documents = {ns["Desired"], ns["LastGood"]} \ {Missing}
        BY <1>3, <1>4, <2>2, <3>1, <3>3
      <3> QED
        BY <1>4, <2>2, <3>4 DEF documents, i, p
    <2> QED
      BY <2>1, <2>3, <2>4
  <1>5. CASE p # Missing
    <2>1. /\ p.after \in AppliedRecord /\ p.after.snapshot \in Snapshot
          /\ p.before # None => p.before.snapshot \in Snapshot
          /\ ns["LastGood"] \in {LastGoodOf(p.before), p.after.snapshot}
      BY <1>5, JournalledNamespace
    <2>2. p.after # None
      BY <2>1, SentinelAssumption
    <2> HIDE DEF p
    <2>3. {g.snapshot : g \in referred} =
              {p.after.snapshot} \cup (IF p.before = None THEN {}
                                       ELSE {p.before.snapshot})
      <3>1. CASE p.before = None
        <4>1. referred = {p.after}
          BY <1>2, <1>5, <2>2, <3>1
        <4> QED
          BY <3>1, <4>1
      <3>2. CASE p.before # None
        <4>1. referred = {p.after, p.before}
          BY <1>2, <1>5, <2>2, <3>2
        <4> QED
          BY <3>2, <4>1
      <3> QED
        BY <3>1, <3>2
    <2>4. {ns["LastGood"]} \ {Missing} \subseteq
              {p.after.snapshot} \cup (IF p.before = None THEN {}
                                       ELSE {p.before.snapshot})
      BY <2>1 DEF LastGoodOf
    <2>5. documents = {ns["Desired"], p.after.snapshot}
                          \cup (IF p.before = None THEN {}
                                ELSE {p.before.snapshot})
      BY <1>3, <1>5, <2>3, <2>4
    <2> QED
      BY <1>5, <2>5 DEF p, i, documents
  <1> QED
    BY <1>4, <1>5

\* Documents of one lineage and one revision are the same document.
LEMMA DocumentsRecognized ==
    ASSUME NEW ns, Sound(ns), OfOneLineage(ns)
    PROVE  PreflightV1!SameRevisionSameBytes(Captured(ns))
  <1> DEFINE documents == PreflightV1!Documents(Captured(ns))
             p == ns["Pending"]
  <1>1. \A d, e \in documents : d.catalog = e.catalog
    BY DEF OfOneLineage, PreflightV1!OneLineage
  <1>2. \A d \in documents :
            d \in Snapshot /\ \A e \in documents : SameWhereEqual(d, e)
    <2>1. CASE p = Missing
      <3>1. documents = {ns["Desired"], ns["LastGood"]} \ {Missing}
        BY <2>1, DocumentsOf
      <3>2. /\ ns["Desired"] \in Snapshot
            /\ \/ ns["LastGood"] = Missing
               \/ /\ ns["LastGood"] \in Snapshot
                  /\ SameWhereEqual(ns["LastGood"], ns["Desired"])
        BY <2>1, SettledNamespace
      <3> HIDE DEF documents
      <3> QED
        BY <3>1, <3>2 DEF SameWhereEqual
    <2>2. CASE p # Missing
      <3>1. documents = {ns["Desired"], p.after.snapshot}
                            \cup (IF p.before = None THEN {}
                                  ELSE {p.before.snapshot})
        BY <2>2, DocumentsOf
      <3>2. /\ p.beforeDesired \in Snapshot /\ p.after.snapshot \in Snapshot
            /\ ns["Desired"] \in {p.beforeDesired, p.after.snapshot}
            /\ SameWhereEqual(p.beforeDesired, p.after.snapshot)
            /\ p.before # None =>
                   /\ p.before.snapshot \in Snapshot
                   /\ SameWhereEqual(p.before.snapshot, p.beforeDesired)
                   /\ SameWhereEqual(p.before.snapshot, p.after.snapshot)
        BY <2>2, JournalledNamespace
      <3> HIDE DEF documents, p
      <3>3. CASE p.before = None
        BY <3>1, <3>2, <3>3 DEF SameWhereEqual
      <3>4. CASE p.before # None
        BY <3>1, <3>2, <3>4 DEF SameWhereEqual
      <3> QED
        BY <3>3, <3>4
    <2> QED
      BY <2>1, <2>2
  <1>3. \A d, e \in documents : d.revision = e.revision => d = e
    BY <1>1, <1>2, SameSnapshot DEF SameWhereEqual
  <1> QED
    BY <1>3 DEF PreflightV1!SameRevisionSameBytes

\* The journal is of its kind, as the preflight restates the kinds.
LEMMA KindRecognized ==
    ASSUME NEW ns, Sound(ns), OfOneLineage(ns), ns["Pending"] # Missing
    PROVE  /\ PreflightV1!PendingParses(ns["Pending"])
           /\ PreflightV1!PendingKindHolds(Captured(ns))
  <1> DEFINE i == Captured(ns)
             p == ns["Pending"]
             documents == PreflightV1!Documents(i)
  <1>1. i.pending = p /\ i.desired = ns["Desired"]
    BY CapturedReads
  <1>2. /\ p.kind \in PendingKind
        /\ p.beforeDesired \in Snapshot /\ p.after.snapshot \in Snapshot
        /\ p.before # None =>
               /\ p.before.snapshot \in Snapshot
               /\ p.before.nonce # p.after.nonce
               /\ p.before.snapshot.revision <= p.beforeDesired.revision
               /\ SameWhereEqual(p.before.snapshot, p.beforeDesired)
        /\ IF p.kind = "Apply" THEN p.after.snapshot = p.beforeDesired
           ELSE /\ p.beforeDesired.revision # MaxRevision
                /\ p.after.snapshot.revision = p.beforeDesired.revision + 1
        /\ ns["Desired"] \in {p.beforeDesired, p.after.snapshot}
    BY JournalledNamespace
  <1>3. JournalConsistent(p)
    BY DEF Sound, Consistent
  <1>4. p.before # None => p.before.snapshot.catalog = p.after.snapshot.catalog
    <2>1. documents = {ns["Desired"], p.after.snapshot}
                          \cup (IF p.before = None THEN {}
                                ELSE {p.before.snapshot})
      BY DocumentsOf
    <2>2. \A d, e \in documents : d.catalog = e.catalog
      BY DEF OfOneLineage, PreflightV1!OneLineage
    <2> HIDE DEF documents, p
    <2> QED
      BY <2>1, <2>2
  <1>5. PreflightV1!PendingParses(p)
    BY <1>2 DEF PreflightV1!PendingParses
  <1> HIDE DEF i, p
  <1>6. p.before # None =>
            /\ p.before.snapshot.revision <= p.beforeDesired.revision
            /\ p.before.nonce # p.after.nonce
    BY <1>2
  <1>7. CASE p.kind = "Apply"
    <2>1. p.after.snapshot = i.desired
      BY <1>1, <1>2, <1>7
    <2> QED
      BY <1>1, <1>5, <1>6, <1>7, <2>1 DEF PreflightV1!PendingKindHolds, i, p
  <1>8. CASE p.kind = "Recovery"
    <2>1. /\ p.before # None
          /\ p.after.snapshot.content = p.before.snapshot.content
      BY <1>3, <1>8 DEF JournalConsistent
    <2>2. [p.after.snapshot EXCEPT !.revision = p.before.snapshot.revision]
              = p.before.snapshot
      BY <1>2, <1>4, <2>1 DEF Snapshot
    <2> QED
      BY <1>1, <1>5, <1>6, <1>8, <2>1, <2>2
      DEF PreflightV1!PendingKindHolds, i, p
  <1>9. CASE p.kind = "DisplayPreview"
    <2>1. /\ p.before # None
          /\ p.before.snapshot.revision = p.beforeDesired.revision
          /\ p.after.snapshot.catalog = p.beforeDesired.catalog
      BY <1>3, <1>9 DEF JournalConsistent
    <2>2. p.before.snapshot = p.beforeDesired
      BY <1>2, <1>4, <2>1, SameSnapshot DEF SameWhereEqual
    <2> QED
      BY <1>1, <1>5, <1>6, <1>9, <2>1, <2>2
      DEF PreflightV1!PendingKindHolds, i, p
  <1> QED
    BY <1>2, <1>7, <1>8, <1>9 DEF PendingKind

\* The mirrors are where the phase of the journal lets them be.
LEMMA MirrorsRecognized ==
    ASSUME NEW ns, Sound(ns), ns["Pending"] # Missing
    PROVE  PreflightV1!Classification(ns["Pending"].phase,
                                      PreflightV1!Mirrors(Captured(ns)))
               \in {"CoherentPrepared", "CoherentCommitting"}
  <1> DEFINE i == Captured(ns)
             p == ns["Pending"]
             mirrors == PreflightV1!Mirrors(i)
  <1>1. /\ i.pending = p /\ i.desired = ns["Desired"]
        /\ i.lastGood = ns["LastGood"] /\ i.applied = ns["Activation"]
    BY CapturedReads
  <1>2. /\ p.phase \in PendingPhase
        /\ ns["Desired"] \in {p.beforeDesired, p.after.snapshot}
        /\ ns["LastGood"] \in {LastGoodOf(p.before), p.after.snapshot}
        /\ ns["Activation"] \in {ActivationOf(p.before), p.after}
        /\ p.phase = "Prepared" =>
               /\ ns["Desired"] = p.beforeDesired
               /\ ns["LastGood"] = LastGoodOf(p.before)
               /\ ns["Activation"] = ActivationOf(p.before)
        /\ p.phase = "Committing" =>
               /\ ns["Activation"] = p.after =>
                      /\ ns["Desired"] = p.after.snapshot
                      /\ ns["LastGood"] = p.after.snapshot
               /\ ns["LastGood"] = p.after.snapshot =>
                      ns["Desired"] = p.after.snapshot
    BY JournalledNamespace
  <1> HIDE DEF i, p
  <1>3. /\ mirrors.desired =
               PreflightV1!Relation(ns["Desired"], p.beforeDesired,
                                    p.after.snapshot)
        /\ mirrors.lastGood =
               PreflightV1!Relation(ns["LastGood"], LastGoodOf(p.before),
                                    p.after.snapshot)
        /\ mirrors.activation =
               PreflightV1!Relation(ns["Activation"], ActivationOf(p.before),
                                    p.after)
    BY <1>1 DEF PreflightV1!Mirrors, LastGoodOf, ActivationOf
  <1> HIDE DEF mirrors
  <1>4. ASSUME NEW mirror, NEW before, NEW after
        PROVE  LET relation == PreflightV1!Relation(mirror, before, after) IN
               /\ "before" \in relation <=> mirror = before
               /\ "after" \in relation <=> mirror = after
               /\ relation = {} => mirror # before /\ mirror # after
    BY DEF PreflightV1!Relation
  <1>5. /\ "before" \in mirrors.desired <=> ns["Desired"] = p.beforeDesired
        /\ "before" \in mirrors.lastGood <=>
               ns["LastGood"] = LastGoodOf(p.before)
        /\ "before" \in mirrors.activation <=>
               ns["Activation"] = ActivationOf(p.before)
        /\ "after" \in mirrors.desired <=> ns["Desired"] = p.after.snapshot
        /\ "after" \in mirrors.lastGood <=> ns["LastGood"] = p.after.snapshot
        /\ "after" \in mirrors.activation <=> ns["Activation"] = p.after
    BY <1>3, <1>4
  <1>6. /\ mirrors.desired # {} /\ mirrors.lastGood # {}
        /\ mirrors.activation # {}
    BY <1>2, <1>3, <1>4
  <1>7. ~\E file \in {"desired", "lastGood", "activation"} :
            mirrors[file] = {}
    BY <1>6
  <1>8. CASE p.phase = "Prepared"
    <2>1. \A file \in {"desired", "lastGood", "activation"} :
              "before" \in mirrors[file]
      BY <1>2, <1>5, <1>8
    <2>2. PreflightV1!Classification(p.phase, mirrors) = "CoherentPrepared"
      BY <1>7, <1>8, <2>1 DEF PreflightV1!Classification
    <2> QED
      BY <2>2 DEF i, p, mirrors
  <1>9. CASE p.phase = "Committing"
    <2>1. PreflightV1!InWriteOrder(mirrors)
      BY <1>2, <1>5, <1>9 DEF PreflightV1!InWriteOrder
    <2>2. PreflightV1!Classification(p.phase, mirrors) = "CoherentCommitting"
      BY <1>7, <1>9, <2>1 DEF PreflightV1!Classification
    <2> QED
      BY <2>2 DEF i, p, mirrors
  <1> QED
    BY <1>2, <1>8, <1>9 DEF PendingPhase

\* What is left once the journal is resolved is a settled namespace, and what
\* the next start serves.
LEMMA ResolutionRecognized ==
    ASSUME NEW ns, Sound(ns), OfOneLineage(ns)
    PROVE  LET i == Captured(ns)
               r == PreflightV1!Resolved(i)
           IN  /\ PreflightV1!SettledCoherent(i)
               /\ r.desired = EffectiveDesired(ns)
               /\ r.applied = EffectiveApplied(ns)
  <1> DEFINE i == Captured(ns)
             p == ns["Pending"]
             r == PreflightV1!Resolved(i)
  <1>1. /\ i.pending = p /\ i.desired = ns["Desired"]
        /\ i.lastGood = ns["LastGood"] /\ i.applied = ns["Activation"]
    BY CapturedReads
  <1>2. PreflightV1!Committing(i) <=> Deciding(ns)
    BY <1>1 DEF PreflightV1!Committing, PreflightV1!HasPending,
       PreflightV1!Present, Deciding
  <1>3. ns["Desired"] # Missing
    BY DEF Sound
  <1> HIDE DEF i, p, r
  <1>4. CASE Deciding(ns)
    <2>1. /\ r.desired = p.after.snapshot
          /\ r.lastGood = p.after.snapshot
          /\ r.applied = p.after
      BY <1>1, <1>2, <1>4 DEF PreflightV1!Resolved, r
    <2>2. /\ p.after \in AppliedRecord /\ p.after.snapshot \in Snapshot
      BY <1>4, JournalledNamespace DEF Deciding, p
    <2>3. /\ p.after # Missing /\ p.after.snapshot # Missing
          /\ p.after.snapshot.revision <= p.after.snapshot.revision
      BY <2>2, SentinelAssumption, BoundAssumption DEF Snapshot
    <2>4. PreflightV1!SettledCoherent(i)
      BY <2>1, <2>3 DEF PreflightV1!SettledCoherent, PreflightV1!Present, r
    <2> QED
      BY <1>4, <2>1, <2>4 DEF EffectiveDesired, EffectiveApplied, p, r, i
  <1>5. CASE ~Deciding(ns)
    <2>1. /\ r.desired = ns["Desired"]
          /\ r.lastGood = ns["LastGood"]
          /\ r.applied = ns["Activation"]
      BY <1>1, <1>2, <1>5 DEF PreflightV1!Resolved, r
    <2>2. /\ ns["Desired"] \in Snapshot
          /\ \/ ns["LastGood"] = Missing /\ ns["Activation"] = Missing
             \/ /\ ns["Activation"] \in AppliedRecord
                /\ ns["LastGood"] \in Snapshot
                /\ ns["LastGood"] = ns["Activation"].snapshot
                /\ ns["LastGood"].revision <= ns["Desired"].revision
                /\ SameWhereEqual(ns["LastGood"], ns["Desired"])
      <3>1. CASE p = Missing
        BY <3>1, SettledNamespace DEF p
      <3>2. CASE p # Missing
        <4>1. p.phase = "Prepared"
          BY <1>5, <3>2, JournalledNamespace DEF Deciding, PendingPhase, p
        <4>2. /\ p.beforeDesired \in Snapshot
              /\ ns["Desired"] = p.beforeDesired
              /\ ns["LastGood"] = LastGoodOf(p.before)
              /\ ns["Activation"] = ActivationOf(p.before)
              /\ p.before # None =>
                     /\ p.before \in AppliedRecord
                     /\ p.before.snapshot \in Snapshot
                     /\ p.before.snapshot.revision <= p.beforeDesired.revision
                     /\ SameWhereEqual(p.before.snapshot, p.beforeDesired)
          BY <3>2, <4>1, JournalledNamespace DEF p
        <4> QED
          BY <4>2 DEF LastGoodOf, ActivationOf
      <3> QED
        BY <3>1, <3>2
    <2>3. CASE ns["LastGood"] = Missing /\ ns["Activation"] = Missing
      <3>1. PreflightV1!SettledCoherent(i)
        BY <2>1, <2>3 DEF PreflightV1!SettledCoherent, PreflightV1!Present, r
      <3> QED
        BY <1>5, <2>1, <3>1 DEF EffectiveDesired, EffectiveApplied, r, i
    <2>4. CASE /\ ns["Activation"] \in AppliedRecord
               /\ ns["LastGood"] \in Snapshot
               /\ ns["LastGood"] = ns["Activation"].snapshot
               /\ ns["LastGood"].revision <= ns["Desired"].revision
               /\ SameWhereEqual(ns["LastGood"], ns["Desired"])
      <3>1. ns["Activation"] # Missing /\ ns["LastGood"] # Missing
        BY <2>4, SentinelAssumption
      <3>2. ns["LastGood"] \in PreflightV1!Documents(i)
        BY <1>1, <3>1 DEF PreflightV1!Documents, PreflightV1!HasPending,
           PreflightV1!Present
      <3>3. ns["Desired"] \in PreflightV1!Documents(i)
        BY DocumentsOf DEF i
      <3>4. ns["LastGood"].revision = ns["Desired"].revision =>
                ns["Desired"] = ns["LastGood"]
        BY <3>2, <3>3, DocumentsRecognized
        DEF PreflightV1!SameRevisionSameBytes, i
      <3>5. ns["Desired"].revision >= ns["LastGood"].revision
        BY <2>2, <2>4, BoundAssumption DEF Snapshot
      <3>6. PreflightV1!SettledCoherent(i)
        BY <2>1, <2>4, <3>1, <3>4, <3>5
        DEF PreflightV1!SettledCoherent, PreflightV1!Present, r
      <3> QED
        BY <1>5, <2>1, <3>6 DEF EffectiveDesired, EffectiveApplied, r, i
    <2> QED
      BY <2>2, <2>3, <2>4
  <1> QED
    BY <1>4, <1>5

\* Every record of the namespace parses.
LEMMA ParsingRecognized ==
    ASSUME NEW ns, Sound(ns), OfOneLineage(ns)
    PROVE  PreflightV1!Parsed(Captured(ns))
  <1> DEFINE i == Captured(ns)
             p == ns["Pending"]
  <1>1. /\ i.desired = ns["Desired"] /\ i.lastGood = ns["LastGood"]
        /\ i.applied = ns["Activation"] /\ i.pending = p
        /\ i.ownership = Missing /\ i.bridge = Missing
    BY CapturedReads
  <1>2. ns["Desired"] # Missing
    BY DEF Sound
  <1>3. /\ ns["Desired"] \in Snapshot
        /\ ns["LastGood"] \in Snapshot \cup {Missing}
        /\ ns["Activation"] \in AppliedRecord \cup {Missing}
        /\ p \in PendingRecord \cup {Missing}
    <2>1. CASE p = Missing
      BY <2>1, SettledNamespace
    <2>2. CASE p # Missing
      BY <2>2, JournalledNamespace DEF LastGoodOf, ActivationOf
    <2> QED
      BY <2>1, <2>2
  <1>4. p # Missing => PreflightV1!PendingParses(p)
    BY KindRecognized
  <1> HIDE DEF i, p
  <1>5. \A read \in PreflightV1!Reads(i) : read # Damaged
    BY <1>1, <1>3, SentinelAssumption, VersionedAssumption
    DEF PreflightV1!Reads
  <1>6. PreflightV1!Parsed(i)
    BY <1>1, <1>2, <1>4, <1>5
    DEF PreflightV1!Parsed, PreflightV1!Present, PreflightV1!Readable,
        PreflightV1!HasPending, PreflightV1!HasBridge
  <1> QED
    BY <1>6 DEF i

\* The preflight of a migration recognizes what a fault leaves.
LEMMA PreflightRecognizes ==
    ASSUME NEW ns, Sound(ns), OfOneLineage(ns)
    PROVE  RecognizedV1(ns)
  <1> DEFINE i == Captured(ns)
  <1>1. i.pending = ns["Pending"]
    BY CapturedReads
  <1>2. PreflightV1!OneLineage(i)
    BY DEF OfOneLineage
  <1>3. PreflightV1!PendingCoherent(i)
    <2>1. ns["Pending"] # Missing =>
              /\ PreflightV1!PendingKindHolds(i)
              /\ PreflightV1!Classification(ns["Pending"].phase,
                                            PreflightV1!Mirrors(i))
                     \in {"CoherentPrepared", "CoherentCommitting"}
      BY KindRecognized, MirrorsRecognized
    <2> HIDE DEF i
    <2> QED
      BY <1>1, <2>1 DEF PreflightV1!PendingCoherent, PreflightV1!HasPending,
                        PreflightV1!Present
  <1>4. PreflightV1!AuthorityCoherent(i)
    BY <1>2, <1>3, ParsingRecognized, GenerationsRecognized,
       ResolutionRecognized, DocumentsRecognized
    DEF PreflightV1!AuthorityCoherent
  <1> QED
    BY <1>4, ResolutionRecognized DEF RecognizedV1

-----------------------------------------------------------------------------
(* Version 2: the records *)

\* An activation tuple in version 2, wherever it stands.
Versioned(record) ==
    [authority |-> Epoch, snapshot |-> DocumentV2(record.snapshot),
     nonce |-> record.nonce]

\* What the captured generation of a transaction is evidence of.
EvidenceOf(record) ==
    [nonce |-> record.nonce, document |-> DocumentV2(record.snapshot)]

\* A document of version 2 is its revision and its content.
LEMMA VersionedDocuments ==
    ASSUME NEW d \in Snapshot
    PROVE  /\ DocumentV2(d) \in VersionedDocument
           /\ DocumentV2(d).authority = Epoch
           /\ DocumentV2(d).revision = d.revision
           /\ DocumentV2(d).content = d.content
           /\ StartupV2!Exact(DocumentV2(d))
           /\ DocumentV2(d) # None /\ DocumentV2(d) # Missing
  <1>1. DocumentV2(d) = [authority |-> Epoch, revision |-> d.revision,
                         content |-> d.content]
    BY SentinelAssumption DEF DocumentV2
  <1>2. DocumentV2(d) \in VersionedDocument
    BY <1>1 DEF VersionedDocument, Snapshot
  <1> QED
    BY <1>1, <1>2, VersionedAssumption DEF StartupV2!Exact

\* Two documents of version 2 that have the same revision are the same.
LEMMA SameDocument ==
    ASSUME NEW d \in Snapshot, NEW e \in Snapshot, SameWhereEqual(d, e),
           DocumentV2(d).revision = DocumentV2(e).revision
    PROVE  DocumentV2(d) = DocumentV2(e)
  BY VersionedDocuments, SentinelAssumption DEF DocumentV2, SameWhereEqual

\* A transaction has the same tuple wherever it stands.
LEMMA VersionedRecords ==
    ASSUME NEW record \in AppliedRecord
    PROVE  /\ AppliedV2(record, None) = Versioned(record)
           /\ AppliedV2(record, Missing) = Versioned(record)
           /\ Versioned(record) \in VersionedApplied
           /\ Versioned(record).authority = Epoch
           /\ Versioned(record).snapshot = DocumentV2(record.snapshot)
           /\ Versioned(record).nonce = record.nonce
           /\ StartupV2!Exact(Versioned(record))
           /\ Versioned(record) # None /\ Versioned(record) # Missing
           /\ record.snapshot \in Snapshot
  <1>1. record.snapshot \in Snapshot /\ record.nonce \in Nonce
    BY DEF AppliedRecord
  <1>2. record # None /\ record # Missing
    BY SentinelAssumption
  <1>3. Versioned(record) \in VersionedApplied
    BY <1>1, VersionedDocuments DEF Versioned, VersionedApplied
  <1>4. StartupV2!Exact(Versioned(record)) /\ Versioned(record) # None
        /\ Versioned(record) # Missing
    BY <1>3, VersionedAssumption DEF StartupV2!Exact
  <1> QED
    BY <1>1, <1>2, <1>3, <1>4 DEF AppliedV2, Versioned

\* Both sides of one or two transactions pair up with their evidence.
LEMMA EvidencePairs ==
    ASSUME NEW a \in AppliedRecord, NEW b \in AppliedRecord,
           a = b \/ a.nonce # b.nonce
    PROVE  LET references == {Versioned(a), Versioned(b)}
               evidence == {EvidenceOf(a), EvidenceOf(b)}
           IN  /\ StartupV2!ReferencesDistinct(references)
               /\ StartupV2!EvidenceBinds(references, evidence)
               /\ ~(StartupV2!Cardinality(evidence) > StartupV2!MaxEvidence)
  <1> DEFINE references == {Versioned(a), Versioned(b)}
             evidence == {EvidenceOf(a), EvidenceOf(b)}
  <1>1. /\ Versioned(a).nonce = a.nonce /\ Versioned(b).nonce = b.nonce
        /\ EvidenceOf(a).nonce = a.nonce /\ EvidenceOf(b).nonce = b.nonce
        /\ EvidenceOf(a).document = Versioned(a).snapshot
        /\ EvidenceOf(b).document = Versioned(b).snapshot
    BY DEF Versioned, EvidenceOf
  <1>2. /\ Versioned(a) = Versioned(b) <=> a = b
        /\ EvidenceOf(a) = EvidenceOf(b) <=> a = b
    BY <1>1
  <1>3. /\ Cardinality(references) = IF a = b THEN 1 ELSE 2
        /\ Cardinality(evidence) = IF a = b THEN 1 ELSE 2
    BY <1>2, AtMostTwo, Zenon
  <1> HIDE DEF references, evidence
  <1>4. /\ Cardinality(references) = Cardinality(evidence)
        /\ Cardinality(references) = 1 \/ Cardinality(references) = 2
    BY <1>3
  <1>5. /\ Cardinality(references) <= 2 /\ ~(Cardinality(evidence) > 2)
    <2>1. CASE Cardinality(references) = 1
      BY <1>4, <2>1
    <2>2. CASE Cardinality(references) = 2
      BY <1>4, <2>2
    <2> QED
      BY <1>4, <2>1, <2>2
  <1>6. StartupV2!ReferencesDistinct(references)
    <2>1. \A r, s \in references : r.nonce = s.nonce => r = s
      BY <1>1, <1>2 DEF references
    <2> QED
      BY <1>5, <2>1, SameCardinality
      DEF StartupV2!ReferencesDistinct, StartupV2!MaxEvidence
  <1>7. StartupV2!EvidenceBinds(references, evidence)
    <2>1. /\ \A e \in evidence : \E r \in references :
                 e.nonce = r.nonce /\ e.document = r.snapshot
          /\ \A r \in references : \E e \in evidence : e.nonce = r.nonce
      BY <1>1 DEF references, evidence
    <2> QED
      BY <1>4, <2>1, SameCardinality DEF StartupV2!EvidenceBinds
  <1> QED
    BY <1>5, <1>6, <1>7, SameCardinality
    DEF StartupV2!MaxEvidence, references, evidence

-----------------------------------------------------------------------------
(* Version 2: the startup *)

Established ==
    [lease |-> TRUE, contracts |-> TRUE, settled |-> TRUE, verified |-> TRUE]

\* The evidence for what the records refer to is that of the captured
\* generations, and all of it verifies.
LEMMA EvidenceGiven ==
    ASSUME NEW ns, Sound(ns)
    PROVE  LET referred == PreflightV1!AppliedReferences(Captured(ns)) IN
           /\ EvidenceV2(referred) = {EvidenceOf(r) : r \in referred}
           /\ EvidenceV2(referred) \subseteq EvidenceV2(generations)
  <1> DEFINE referred == PreflightV1!AppliedReferences(Captured(ns))
  <1>1. referred \subseteq generations
    BY CapturedReads, GenerationsRecognized
    DEF PreflightV1!GenerationsBound, PreflightV1!ReferencesBound
  <1> HIDE DEF referred
  <1>2. /\ EvidenceV2(referred) = {EvidenceOf(r) : r \in referred}
        /\ EvidenceV2(referred) \subseteq EvidenceV2(generations)
    BY <1>1 DEF EvidenceV2, EvidenceOf
  <1> QED
    BY <1>2 DEF referred

\* Without a journal the version 2 startup is ready too.
LEMMA SettledStartup ==
    ASSUME NEW ns, Sound(ns), ns["Pending"] = Missing
    PROVE  RecognizedV2(ns)
  <1> DEFINE c == RecordsV2(ns)
             referred == PreflightV1!AppliedReferences(Captured(ns))
             evidence == EvidenceV2(referred)
             verifies == EvidenceV2(generations)
             desiredV2 == DocumentV2(ns["Desired"])
  <1>1. /\ ns["Desired"] \in Snapshot
        /\ \/ ns["LastGood"] = Missing /\ ns["Activation"] = Missing
           \/ /\ ns["Activation"] \in AppliedRecord
              /\ ns["Activation"].snapshot \in Snapshot
              /\ ns["LastGood"] = ns["Activation"].snapshot
              /\ ns["LastGood"].revision <= ns["Desired"].revision
              /\ SameWhereEqual(ns["LastGood"], ns["Desired"])
    BY SettledNamespace
  <1>2. /\ c.authority = Epoch
        /\ c.desired = desiredV2
        /\ c.lastGood = DocumentV2(ns["LastGood"])
        /\ c.applied = AppliedV2(ns["Activation"], Missing)
        /\ c.pending = Missing
    BY DEF RecordsV2, PendingV2
  <1>3. /\ referred = {ns["Activation"]} \ {Missing}
        /\ evidence = {EvidenceOf(r) : r \in referred}
        /\ evidence \subseteq verifies
    BY ReferredTo, EvidenceGiven
  <1>4. /\ StartupV2!Exact(Epoch)
        /\ StartupV2!Exact(desiredV2) /\ desiredV2.authority = Epoch
        /\ desiredV2 # Missing
    BY <1>1, VersionedAssumption, VersionedDocuments DEF StartupV2!Exact
  <1> HIDE DEF c, referred, evidence, verifies, desiredV2
  <1>5. StartupV2!CurrentAuthorityCoherent(c)
    BY <1>2, <1>4 DEF StartupV2!CurrentAuthorityCoherent
  <1>6. CASE ns["LastGood"] = Missing /\ ns["Activation"] = Missing
    <2>1. c.lastGood = Missing /\ c.applied = Missing
      BY <1>2, <1>6 DEF DocumentV2, AppliedV2
    <2>2. StartupV2!SettledDecision(c, Established) = "Ready"
      BY <1>2, <1>5, <2>1 DEF StartupV2!SettledDecision,
         StartupV2!ReduceNoPending, StartupV2!NoMirrors, Established
    <2>3. evidence = {} /\ StartupV2!References(c) = {}
      BY <1>2, <1>3, <1>6, <2>1 DEF StartupV2!References
    <2>4. /\ StartupV2!Cardinality({}) = 0
          /\ ~(StartupV2!Cardinality({}) > StartupV2!MaxEvidence)
          /\ StartupV2!Cardinality({}) <= StartupV2!MaxEvidence
      BY SameCardinality, FS_EmptySet DEF StartupV2!MaxEvidence
    <2>5. /\ StartupV2!ReferencesDistinct({})
          /\ StartupV2!EvidenceBinds({}, {})
      BY <2>4 DEF StartupV2!ReferencesDistinct, StartupV2!EvidenceBinds
    <2>6. StartupV2!GraphDocuments(c, evidence) = {desiredV2}
      BY <1>2, <2>1, <2>3 DEF StartupV2!GraphDocuments
    <2>7. StartupV2!SameRevisionUnique(
              {<<<<d.authority, d.revision>>, d>> :
                   d \in StartupV2!GraphDocuments(c, evidence)})
      BY <2>6 DEF StartupV2!SameRevisionUnique
    <2>8. StartupV2!ByteGraph(c, evidence, verifies)
              = "GenerationContentByteCoherent"
      BY <1>2, <1>3, <2>2, <2>3, <2>4, <2>5, <2>7
      DEF StartupV2!ByteGraph, StartupV2!Accepted, Established
    <2> QED
      BY <2>2, <2>8 DEF RecognizedV2, Reconciliation, Established, c,
         referred, evidence, verifies
  <1>7. CASE /\ ns["Activation"] \in AppliedRecord
             /\ ns["Activation"].snapshot \in Snapshot
             /\ ns["LastGood"] = ns["Activation"].snapshot
             /\ ns["LastGood"].revision <= ns["Desired"].revision
             /\ SameWhereEqual(ns["LastGood"], ns["Desired"])
    <2> DEFINE a == ns["Activation"]
               lastGoodV2 == DocumentV2(ns["LastGood"])
    <2>1. /\ c.applied = Versioned(a) /\ c.applied # Missing
          /\ StartupV2!Exact(c.applied)
          /\ c.applied.authority = Epoch
          /\ c.applied.snapshot = lastGoodV2
      BY <1>2, <1>7, VersionedRecords
    <2>2. /\ c.lastGood = lastGoodV2 /\ StartupV2!Exact(lastGoodV2)
          /\ lastGoodV2.authority = Epoch
          /\ lastGoodV2.revision = ns["LastGood"].revision
          /\ lastGoodV2 # Missing
      BY <1>2, <1>7, VersionedDocuments
    <2>3. desiredV2.revision = ns["Desired"].revision
      BY <1>1, VersionedDocuments DEF desiredV2
    <2>4. lastGoodV2.revision = desiredV2.revision => lastGoodV2 = desiredV2
      BY <1>1, <1>7, SameDocument DEF desiredV2
    <2> HIDE DEF lastGoodV2, a
    <2>5. StartupV2!PairCoherent(c)
      BY <1>2, <1>7, <2>1, <2>2, <2>3, <2>4 DEF StartupV2!PairCoherent
    <2>6. StartupV2!SettledDecision(c, Established) = "Ready"
      BY <1>2, <1>5, <2>5 DEF StartupV2!SettledDecision,
         StartupV2!ReduceNoPending, Established
    <2>7. a \in AppliedRecord /\ a # Missing
      BY <1>7, SentinelAssumption DEF a
    <2>8. /\ evidence = {EvidenceOf(a), EvidenceOf(a)}
          /\ StartupV2!References(c) = {Versioned(a), Versioned(a)}
      <3>1. referred = {a}
        BY <1>3, <2>7 DEF a
      <3>2. StartupV2!References(c) = {Versioned(a)}
        BY <1>2, <2>1 DEF StartupV2!References
      <3> QED
        BY <1>3, <3>1, <3>2
    <2>9. /\ StartupV2!ReferencesDistinct(StartupV2!References(c))
          /\ StartupV2!EvidenceBinds(StartupV2!References(c), evidence)
          /\ ~(StartupV2!Cardinality(evidence) > StartupV2!MaxEvidence)
      BY <2>7, <2>8, EvidencePairs
    <2>10. EvidenceOf(a).document = lastGoodV2
      BY <2>1 DEF EvidenceOf, Versioned
    <2>11. StartupV2!GraphDocuments(c, evidence) = {desiredV2, lastGoodV2}
      <3>1. {e.document : e \in evidence} = {lastGoodV2}
        BY <2>8, <2>10
      <3> QED
        BY <1>2, <2>2, <3>1 DEF StartupV2!GraphDocuments
    <2>12. StartupV2!SameRevisionUnique(
               {<<<<d.authority, d.revision>>, d>> :
                    d \in StartupV2!GraphDocuments(c, evidence)})
      BY <2>4, <2>11 DEF StartupV2!SameRevisionUnique
    <2>13. StartupV2!ByteGraph(c, evidence, verifies)
               = "GenerationContentByteCoherent"
      BY <1>2, <1>3, <2>6, <2>9, <2>12
      DEF StartupV2!ByteGraph, StartupV2!Accepted, Established
    <2> QED
      BY <2>6, <2>13 DEF RecognizedV2, Reconciliation, Established, c,
         referred, evidence, verifies
  <1> QED
    BY <1>1, <1>6, <1>7

\* The journal of version 2 says of its documents what that of version 1 says.
LEMMA VersionedJournal ==
    ASSUME NEW ns, Sound(ns), ns["Pending"] # Missing
    PROVE  LET p == ns["Pending"]
               q == PendingV2(p)
           IN  /\ q.authority = Epoch /\ q.kind = p.kind /\ q.phase = p.phase
               /\ q.expected = p.beforeDesired.revision
               /\ q.beforeDigest = DocumentV2(p.beforeDesired)
               /\ q.candidate = DocumentV2(p.after.snapshot)
               /\ q.after = Versioned(p.after)
               /\ p.before = None => q.before = None /\ q.beforeDesired = None
               /\ p.before # None =>
                      /\ q.before = Versioned(p.before)
                      /\ q.before # None
                      /\ q.beforeDesired = DocumentV2(p.before.snapshot)
                      /\ q.beforeDesired # None
               /\ q # Missing /\ StartupV2!Exact(q)
  <1> DEFINE p == ns["Pending"]
             q == PendingV2(p)
             beforeDesiredV2 == IF p.before = None THEN None
                                ELSE DocumentV2(p.before.snapshot)
  <1>1. /\ p \in PendingRecord
        /\ p.phase \in PendingPhase /\ p.kind \in PendingKind
        /\ p.beforeDesired \in Snapshot
        /\ p.after \in AppliedRecord /\ p.after.snapshot \in Snapshot
        /\ p.before # None => /\ p.before \in AppliedRecord
                              /\ p.before.snapshot \in Snapshot
    BY JournalledNamespace
  <1>2. p # Missing
    OBVIOUS
  <1> HIDE DEF p
  <1>3. /\ AppliedV2(p.after, None) = Versioned(p.after)
        /\ Versioned(p.after) \in VersionedApplied
        /\ DocumentV2(p.beforeDesired) \in VersionedDocument
        /\ DocumentV2(p.after.snapshot) \in VersionedDocument
        /\ p.beforeDesired.revision \in 0..MaxRevision
    BY <1>1, VersionedRecords, VersionedDocuments DEF Snapshot
  <1>4. p.before # None =>
            /\ AppliedV2(p.before, None) = Versioned(p.before)
            /\ Versioned(p.before) \in VersionedApplied
            /\ Versioned(p.before) # None
            /\ DocumentV2(p.before.snapshot) \in VersionedDocument
            /\ DocumentV2(p.before.snapshot) # None
    BY <1>1, VersionedRecords, VersionedDocuments
  <1>5. p.before = None => AppliedV2(p.before, None) = None
    BY DEF AppliedV2
  <1>6. q = [authority |-> Epoch, kind |-> p.kind, phase |-> p.phase,
             expected |-> p.beforeDesired.revision,
             beforeDigest |-> DocumentV2(p.beforeDesired),
             beforeDesired |-> beforeDesiredV2,
             candidate |-> DocumentV2(p.after.snapshot),
             after |-> Versioned(p.after),
             before |-> AppliedV2(p.before, None)]
    BY <1>2, <1>3 DEF PendingV2
  <1>7. /\ beforeDesiredV2 \in VersionedDocument \cup {None}
        /\ AppliedV2(p.before, None) \in VersionedApplied \cup {None}
    BY <1>4, <1>5
  <1>8. /\ p.before = None => beforeDesiredV2 = None
        /\ p.before # None => beforeDesiredV2 = DocumentV2(p.before.snapshot)
    OBVIOUS
  <1> HIDE DEF q, beforeDesiredV2
  <1>9. q \in VersionedPending
    BY <1>1, <1>3, <1>6, <1>7 DEF VersionedPending
  <1>10. q # Missing /\ StartupV2!Exact(q)
    BY <1>9, VersionedAssumption DEF StartupV2!Exact
  <1> QED
    BY <1>4, <1>5, <1>6, <1>8, <1>10 DEF p, q

\* The parser of version 2 accepts it as an ordinary journal.
LEMMA OrdinaryJournal ==
    ASSUME NEW ns, Sound(ns), ns["Pending"] # Missing
    PROVE  StartupV2!ExactOrdinaryPending(PendingV2(ns["Pending"]))
  <1> DEFINE p == ns["Pending"]
             q == PendingV2(p)
  <1>1. /\ q.authority = Epoch /\ q.kind = p.kind
        /\ q.expected = p.beforeDesired.revision
        /\ q.beforeDigest = DocumentV2(p.beforeDesired)
        /\ q.candidate = DocumentV2(p.after.snapshot)
        /\ q.after = Versioned(p.after)
        /\ p.before = None => q.before = None /\ q.beforeDesired = None
        /\ p.before # None =>
               /\ q.before = Versioned(p.before)
               /\ q.before # None
               /\ q.beforeDesired = DocumentV2(p.before.snapshot)
               /\ q.beforeDesired # None
        /\ StartupV2!Exact(q)
    BY VersionedJournal
  <1>2. /\ p.kind \in PendingKind
        /\ p.beforeDesired \in Snapshot
        /\ p.after \in AppliedRecord /\ p.after.snapshot \in Snapshot
        /\ p.before # None =>
               /\ p.before \in AppliedRecord
               /\ p.before.snapshot \in Snapshot
               /\ p.before.nonce # p.after.nonce
               /\ p.before.snapshot.revision <= p.beforeDesired.revision
               /\ SameWhereEqual(p.before.snapshot, p.beforeDesired)
               /\ SameWhereEqual(p.before.snapshot, p.after.snapshot)
        /\ IF p.kind = "Apply" THEN p.after.snapshot = p.beforeDesired
           ELSE /\ p.beforeDesired.revision # MaxRevision
                /\ p.after.snapshot.revision = p.beforeDesired.revision + 1
    BY JournalledNamespace
  <1>3. JournalConsistent(p)
    BY DEF Sound, Consistent
  <1> HIDE DEF p, q
  <1>4. /\ Versioned(p.after).authority = Epoch
        /\ Versioned(p.after).snapshot = DocumentV2(p.after.snapshot)
        /\ Versioned(p.after).nonce = p.after.nonce
        /\ DocumentV2(p.after.snapshot).authority = Epoch
        /\ DocumentV2(p.after.snapshot).revision = p.after.snapshot.revision
        /\ DocumentV2(p.after.snapshot).content = p.after.snapshot.content
        /\ DocumentV2(p.after.snapshot) =
               [authority |-> Epoch, revision |-> p.after.snapshot.revision,
                content |-> p.after.snapshot.content]
    BY <1>2, VersionedRecords, VersionedDocuments, SentinelAssumption
    DEF DocumentV2
  <1>5. p.before # None =>
            /\ Versioned(p.before).authority = Epoch
            /\ Versioned(p.before).snapshot = DocumentV2(p.before.snapshot)
            /\ Versioned(p.before).nonce = p.before.nonce
            /\ DocumentV2(p.before.snapshot).authority = Epoch
            /\ DocumentV2(p.before.snapshot).revision
                   = p.before.snapshot.revision
            /\ DocumentV2(p.before.snapshot) =
                   [authority |-> Epoch,
                    revision |-> p.before.snapshot.revision,
                    content |-> p.before.snapshot.content]
    BY <1>2, VersionedRecords, VersionedDocuments, SentinelAssumption
    DEF DocumentV2
  <1>6. StartupV2!OneAuthority(q)
    BY <1>1, <1>4, <1>5 DEF StartupV2!OneAuthority
  <1>7. q.before # None => StartupV2!BeforeBound(q)
    <2> HAVE q.before # None
    <2>1. p.before # None
      BY <1>1
    <2>2. /\ q.before.snapshot = DocumentV2(p.before.snapshot)
          /\ q.before.snapshot.revision = p.before.snapshot.revision
          /\ q.before.nonce # q.after.nonce
          /\ q.beforeDesired = q.before.snapshot
      BY <1>1, <1>2, <1>4, <1>5, <2>1
    <2>3. q.before.snapshot.revision = q.candidate.revision =>
              q.beforeDesired = q.candidate
      BY <1>1, <1>2, <2>1, <2>2, SameDocument
    <2> QED
      BY <1>1, <1>2, <2>1, <2>2, <2>3 DEF StartupV2!BeforeBound
  <1>8. StartupV2!KindRelation(q)
    <2>1. CASE p.kind = "Apply"
      <3>1. /\ q.candidate.revision = q.expected
            /\ q.beforeDigest = q.after.snapshot
        BY <1>1, <1>2, <1>4, <2>1
      <3> QED
        BY <1>1, <2>1, <3>1 DEF StartupV2!KindRelation
    <2>2. CASE p.kind = "Recovery"
      <3>1. /\ p.before # None
            /\ p.after.snapshot.content = p.before.snapshot.content
        BY <1>3, <2>2 DEF JournalConsistent
      <3>2. /\ q.expected # MaxRevision
            /\ q.candidate.revision = q.expected + 1
        BY <1>1, <1>2, <1>4, <2>2
      <3>3. StartupV2!PriorProjection(q) = q.beforeDesired
        BY <1>1, <1>4, <1>5, <3>1 DEF StartupV2!PriorProjection
      <3> QED
        BY <1>1, <2>2, <3>1, <3>2, <3>3 DEF StartupV2!KindRelation
    <2>3. CASE p.kind = "DisplayPreview"
      <3>1. /\ p.before # None
            /\ p.before.snapshot.revision = p.beforeDesired.revision
        BY <1>3, <2>3 DEF JournalConsistent
      <3>2. /\ q.expected # MaxRevision
            /\ q.candidate.revision = q.expected + 1
        BY <1>1, <1>2, <1>4, <2>3
      <3>3. /\ q.before.snapshot = q.beforeDigest
            /\ q.before.snapshot.revision = q.expected
        BY <1>1, <1>2, <1>5, <3>1, SameDocument, VersionedDocuments
      <3> QED
        BY <1>1, <2>3, <3>1, <3>2, <3>3 DEF StartupV2!KindRelation
    <2> QED
      BY <1>2, <2>1, <2>2, <2>3 DEF PendingKind
  <1>9. StartupV2!RecordCoherence(q)
    <2>1. /\ q.before = None <=> q.beforeDesired = None
          /\ q.after.snapshot = q.candidate
      BY <1>1, <1>4
    <2> QED
      BY <1>6, <1>7, <1>8, <2>1 DEF StartupV2!RecordCoherence
  <1> QED
    BY <1>1, <1>9 DEF StartupV2!ExactOrdinaryPending, p, q

\* The documents a journal retains, in version 2.
RetainedBy(p) ==
    {DocumentV2(p.beforeDesired), DocumentV2(p.after.snapshot)}
        \cup (IF p.before = None THEN {} ELSE {DocumentV2(p.before.snapshot)})

\* No two of them share a revision, and the mirrors are among them.
LEMMA RetainedDocuments ==
    ASSUME NEW ns, Sound(ns), ns["Pending"] # Missing
    PROVE  LET p == ns["Pending"]
               c == RecordsV2(ns)
           IN  /\ \A d \in RetainedBy(p) :
                      /\ d.authority = Epoch /\ StartupV2!Exact(d)
                      /\ \A e \in RetainedBy(p) : d.revision = e.revision => d = e
               /\ c.authority = Epoch /\ c.pending = PendingV2(p)
               /\ c.desired \in RetainedBy(p)
               /\ c.lastGood \in RetainedBy(p) \cup {Missing}
               /\ \/ c.applied = Missing
                  \/ c.applied = Versioned(p.after)
                  \/ p.before # None /\ c.applied = Versioned(p.before)
               /\ ns["Desired"] = p.beforeDesired =>
                      c.desired = DocumentV2(p.beforeDesired)
               /\ ns["Desired"] = p.after.snapshot =>
                      c.desired = DocumentV2(p.after.snapshot)
               /\ ns["LastGood"] = p.after.snapshot =>
                      c.lastGood = DocumentV2(p.after.snapshot)
               /\ ns["LastGood"] = LastGoodOf(p.before) =>
                      c.lastGood = IF p.before = None THEN Missing
                                   ELSE DocumentV2(p.before.snapshot)
               /\ ns["Activation"] = p.after => c.applied = Versioned(p.after)
               /\ ns["Activation"] = ActivationOf(p.before) =>
                      c.applied = IF p.before = None THEN Missing
                                  ELSE Versioned(p.before)
  <1> DEFINE p == ns["Pending"]
             c == RecordsV2(ns)
  <1>1. /\ p.beforeDesired \in Snapshot
        /\ p.after \in AppliedRecord /\ p.after.snapshot \in Snapshot
        /\ p.before # None =>
               /\ p.before \in AppliedRecord
               /\ p.before.snapshot \in Snapshot
               /\ SameWhereEqual(p.before.snapshot, p.beforeDesired)
               /\ SameWhereEqual(p.before.snapshot, p.after.snapshot)
        /\ SameWhereEqual(p.beforeDesired, p.after.snapshot)
        /\ ns["Desired"] \in {p.beforeDesired, p.after.snapshot}
        /\ ns["LastGood"] \in {LastGoodOf(p.before), p.after.snapshot}
        /\ ns["Activation"] \in {ActivationOf(p.before), p.after}
    BY JournalledNamespace
  <1>2. /\ c.authority = Epoch /\ c.pending = PendingV2(p)
        /\ c.desired = DocumentV2(ns["Desired"])
        /\ c.lastGood = DocumentV2(ns["LastGood"])
        /\ c.applied = AppliedV2(ns["Activation"], Missing)
    BY DEF RecordsV2
  <1> HIDE DEF p, c
  <1>3. \A d \in RetainedBy(p) : d.authority = Epoch /\ StartupV2!Exact(d)
    BY <1>1, VersionedDocuments DEF RetainedBy
  <1>4. /\ DocumentV2(p.beforeDesired).revision
               = DocumentV2(p.after.snapshot).revision =>
               DocumentV2(p.beforeDesired) = DocumentV2(p.after.snapshot)
        /\ p.before # None =>
               /\ (DocumentV2(p.before.snapshot).revision
                      = DocumentV2(p.after.snapshot).revision =>
                      DocumentV2(p.before.snapshot)
                          = DocumentV2(p.after.snapshot))
               /\ (DocumentV2(p.before.snapshot).revision
                      = DocumentV2(p.beforeDesired).revision =>
                      DocumentV2(p.before.snapshot)
                          = DocumentV2(p.beforeDesired))
    BY <1>1, SameDocument
  <1>5. \A d, e \in RetainedBy(p) : d.revision = e.revision => d = e
    <2>1. CASE p.before = None
      BY <1>4, <2>1 DEF RetainedBy
    <2>2. CASE p.before # None
      BY <1>4, <2>2 DEF RetainedBy
    <2> QED
      BY <2>1, <2>2
  <1>6. /\ DocumentV2(Missing) = Missing
        /\ AppliedV2(Missing, Missing) = Missing
        /\ AppliedV2(p.after, Missing) = Versioned(p.after)
        /\ p.before # None =>
               AppliedV2(p.before, Missing) = Versioned(p.before)
    BY <1>1, VersionedRecords DEF DocumentV2, AppliedV2
  <1>7. /\ ns["Desired"] = p.beforeDesired =>
               c.desired = DocumentV2(p.beforeDesired)
        /\ ns["Desired"] = p.after.snapshot =>
               c.desired = DocumentV2(p.after.snapshot)
        /\ ns["LastGood"] = p.after.snapshot =>
               c.lastGood = DocumentV2(p.after.snapshot)
        /\ ns["LastGood"] = LastGoodOf(p.before) =>
               c.lastGood = IF p.before = None THEN Missing
                            ELSE DocumentV2(p.before.snapshot)
        /\ ns["Activation"] = p.after => c.applied = Versioned(p.after)
        /\ ns["Activation"] = ActivationOf(p.before) =>
               c.applied = IF p.before = None THEN Missing
                           ELSE Versioned(p.before)
    BY <1>2, <1>6 DEF LastGoodOf, ActivationOf
  <1>8. /\ c.desired \in RetainedBy(p)
        /\ c.lastGood \in RetainedBy(p) \cup {Missing}
        /\ \/ c.applied = Missing
           \/ c.applied = Versioned(p.after)
           \/ p.before # None /\ c.applied = Versioned(p.before)
    BY <1>1, <1>7 DEF RetainedBy
  <1> QED
    BY <1>2, <1>3, <1>5, <1>7, <1>8 DEF p, c

\* The facts of the version 2 startup hold of the records.
LEMMA OrdinaryRecords ==
    ASSUME NEW ns, Sound(ns), ns["Pending"] # Missing
    PROVE  /\ StartupV2!CurrentAuthorityCoherent(RecordsV2(ns))
           /\ StartupV2!OrdinaryRecordCoherent(RecordsV2(ns))
  <1> DEFINE p == ns["Pending"]
             c == RecordsV2(ns)
             q == PendingV2(p)
  <1>1. /\ \A d \in RetainedBy(p) :
               /\ d.authority = Epoch /\ StartupV2!Exact(d)
               /\ \A e \in RetainedBy(p) : d.revision = e.revision => d = e
        /\ c.authority = Epoch /\ c.pending = q
        /\ c.desired \in RetainedBy(p)
        /\ c.lastGood \in RetainedBy(p) \cup {Missing}
        /\ \/ c.applied = Missing
           \/ c.applied = Versioned(p.after)
           \/ p.before # None /\ c.applied = Versioned(p.before)
    BY RetainedDocuments
  <1>2. /\ q.authority = Epoch
        /\ q.expected = p.beforeDesired.revision
        /\ q.beforeDigest = DocumentV2(p.beforeDesired)
        /\ q.candidate = DocumentV2(p.after.snapshot)
        /\ q.after = Versioned(p.after)
        /\ p.before = None => q.before = None /\ q.beforeDesired = None
        /\ p.before # None =>
               /\ q.before = Versioned(p.before)
               /\ q.beforeDesired = DocumentV2(p.before.snapshot)
    BY VersionedJournal
  <1>3. /\ p.beforeDesired \in Snapshot
        /\ p.after \in AppliedRecord
        /\ p.before # None => p.before \in AppliedRecord
    BY JournalledNamespace
  <1> HIDE DEF p, c, q
  <1>4. StartupV2!Exact(Epoch) /\ Missing # Damaged
    BY VersionedAssumption DEF StartupV2!Exact
  <1>5. /\ Versioned(p.after).authority = Epoch
        /\ StartupV2!Exact(Versioned(p.after))
        /\ Versioned(p.after).snapshot = DocumentV2(p.after.snapshot)
        /\ p.before # None =>
               /\ Versioned(p.before).authority = Epoch
               /\ StartupV2!Exact(Versioned(p.before))
               /\ Versioned(p.before).snapshot = DocumentV2(p.before.snapshot)
    BY <1>3, VersionedRecords
  <1>6. StartupV2!CurrentAuthorityCoherent(c)
    BY <1>1, <1>4 DEF StartupV2!CurrentAuthorityCoherent
  <1>7. StartupV2!OneEpoch(c)
    <2>1. StartupV2!Exact(c.lastGood) => c.lastGood.authority = c.authority
      BY <1>1 DEF StartupV2!Exact
    <2>2. StartupV2!Exact(c.applied) => c.applied.authority = c.authority
      BY <1>1, <1>5 DEF StartupV2!Exact
    <2> QED
      BY <1>1, <1>2, <2>1, <2>2 DEF StartupV2!OneEpoch
  <1>8. /\ StartupV2!ExactOrMissing(c.lastGood)
        /\ StartupV2!ExactOrMissing(c.applied)
    BY <1>1, <1>4, <1>5 DEF StartupV2!ExactOrMissing, StartupV2!Exact
  <1>9. /\ DocumentV2(p.beforeDesired) \in RetainedBy(p)
        /\ DocumentV2(p.after.snapshot) \in RetainedBy(p)
        /\ p.before # None => DocumentV2(p.before.snapshot) \in RetainedBy(p)
        /\ DocumentV2(p.beforeDesired).revision = p.beforeDesired.revision
    BY <1>3, VersionedDocuments DEF RetainedBy
  <1>10. \A claim \in StartupV2!SnapshotClaims(c) :
             \E d \in RetainedBy(p) : claim = <<d.revision, d>>
    <2>1. StartupV2!DocumentClaims(c) \subseteq RetainedBy(p)
      BY <1>1, <1>2, <1>9 DEF StartupV2!DocumentClaims
    <2>2. {r.snapshot : r \in {q.after, q.before, c.applied}
                                  \ {None, Missing}} \subseteq RetainedBy(p)
      <3>1. ASSUME NEW r \in {q.after, q.before, c.applied} \ {None, Missing}
            PROVE  r.snapshot \in RetainedBy(p)
        <4>1. \/ r = Versioned(p.after)
              \/ p.before # None /\ r = Versioned(p.before)
          BY <1>1, <1>2, <3>1
        <4> QED
          BY <1>5, <1>9, <4>1
      <3> QED
        BY <3>1
    <2>3. <<q.expected, q.beforeDigest>> =
              <<DocumentV2(p.beforeDesired).revision,
                DocumentV2(p.beforeDesired)>>
      BY <1>2, <1>9
    <2>4. ASSUME NEW r \in {q.after, q.before, c.applied} \ {None, Missing}
          PROVE  \E d \in RetainedBy(p) :
                     <<r.snapshot.revision, r.snapshot>> = <<d.revision, d>>
      BY <2>2
    <2>5. ASSUME NEW d \in StartupV2!DocumentClaims(c)
          PROVE  \E e \in RetainedBy(p) :
                     <<d.revision, d>> = <<e.revision, e>>
      BY <2>1
    <2> QED
      BY <1>1, <1>9, <2>3, <2>4, <2>5 DEF StartupV2!SnapshotClaims
  <1>11. StartupV2!SameRevisionUnique(StartupV2!SnapshotClaims(c))
    <2>1. ASSUME NEW a \in StartupV2!SnapshotClaims(c),
                 NEW b \in StartupV2!SnapshotClaims(c), a[1] = b[1]
          PROVE  a[2] = b[2]
      <3>1. PICK d \in RetainedBy(p) : a = <<d.revision, d>>
        BY <1>10
      <3>2. PICK e \in RetainedBy(p) : b = <<e.revision, e>>
        BY <1>10
      <3> QED
        BY <1>1, <2>1, <3>1, <3>2
    <2> QED
      BY <2>1 DEF StartupV2!SameRevisionUnique
  <1>12. StartupV2!OrdinaryRecordCoherent(c)
    BY <1>7, <1>8, <1>11 DEF StartupV2!OrdinaryRecordCoherent
  <1> QED
    BY <1>6, <1>12 DEF c

\* The startup of version 2 does with the journal what that of version 1 does.
LEMMA JournalledDecision ==
    ASSUME NEW ns, Sound(ns), ns["Pending"] # Missing
    PROVE  StartupV2!SettledDecision(RecordsV2(ns), Established)
               = Reconciliation(ns)
  <1> DEFINE p == ns["Pending"]
             c == RecordsV2(ns)
             q == PendingV2(p)
             desiredRelation == StartupV2!DesiredRelation(c)
             lastGoodRelation == StartupV2!LastGoodRelation(c)
             activationRelation == StartupV2!ActivationRelation(c)
  <1>1. /\ p.phase \in PendingPhase /\ p.kind \in PendingKind
        /\ p.beforeDesired \in Snapshot
        /\ p.after \in AppliedRecord /\ p.after.snapshot \in Snapshot
        /\ p.before # None =>
               /\ p.before \in AppliedRecord
               /\ p.before.snapshot \in Snapshot
               /\ p.before.nonce # p.after.nonce
               /\ p.before.snapshot.revision <= p.beforeDesired.revision
        /\ IF p.kind = "Apply" THEN p.after.snapshot = p.beforeDesired
           ELSE /\ p.beforeDesired.revision # MaxRevision
                /\ p.after.snapshot.revision = p.beforeDesired.revision + 1
        /\ ns["Desired"] \in {p.beforeDesired, p.after.snapshot}
        /\ ns["LastGood"] \in {LastGoodOf(p.before), p.after.snapshot}
        /\ ns["Activation"] \in {ActivationOf(p.before), p.after}
        /\ p.phase = "Prepared" =>
               /\ ns["Desired"] = p.beforeDesired
               /\ ns["LastGood"] = LastGoodOf(p.before)
               /\ ns["Activation"] = ActivationOf(p.before)
        /\ p.phase = "Committing" =>
               /\ ns["Activation"] = p.after =>
                      /\ ns["Desired"] = p.after.snapshot
                      /\ ns["LastGood"] = p.after.snapshot
               /\ ns["LastGood"] = p.after.snapshot =>
                      ns["Desired"] = p.after.snapshot
    BY JournalledNamespace
  <1>2. /\ q.phase = p.phase
        /\ q.expected = p.beforeDesired.revision
        /\ q.beforeDigest = DocumentV2(p.beforeDesired)
        /\ q.candidate = DocumentV2(p.after.snapshot)
        /\ q.after = Versioned(p.after)
        /\ p.before = None => q.before = None
        /\ p.before # None => /\ q.before = Versioned(p.before)
                              /\ q.before # None
        /\ q # Missing
    BY VersionedJournal
  <1>3. /\ c.pending = q
        /\ ns["Desired"] = p.beforeDesired =>
               c.desired = DocumentV2(p.beforeDesired)
        /\ ns["Desired"] = p.after.snapshot =>
               c.desired = DocumentV2(p.after.snapshot)
        /\ ns["LastGood"] = p.after.snapshot =>
               c.lastGood = DocumentV2(p.after.snapshot)
        /\ ns["LastGood"] = LastGoodOf(p.before) =>
               c.lastGood = IF p.before = None THEN Missing
                            ELSE DocumentV2(p.before.snapshot)
        /\ ns["Activation"] = p.after => c.applied = Versioned(p.after)
        /\ ns["Activation"] = ActivationOf(p.before) =>
               c.applied = IF p.before = None THEN Missing
                           ELSE Versioned(p.before)
    BY RetainedDocuments
  <1>4. /\ StartupV2!CurrentAuthorityCoherent(c)
        /\ StartupV2!OrdinaryRecordCoherent(c)
        /\ StartupV2!ExactOrdinaryPending(q)
    BY OrdinaryRecords, OrdinaryJournal
  <1>5. Deciding(ns) <=> p.phase = "Committing"
    BY DEF Deciding
  <1> HIDE DEF p, c, q, desiredRelation, lastGoodRelation, activationRelation
  <1>6. /\ DocumentV2(p.beforeDesired).revision = p.beforeDesired.revision
        /\ DocumentV2(p.after.snapshot).revision = p.after.snapshot.revision
        /\ DocumentV2(p.after.snapshot) # Missing
        /\ p.before # None => DocumentV2(p.before.snapshot).revision
                                  = p.before.snapshot.revision
    BY <1>1, VersionedDocuments
  <1>7. /\ Versioned(p.after) # Missing
        /\ Versioned(p.after).nonce = p.after.nonce
        /\ Versioned(p.after).snapshot = DocumentV2(p.after.snapshot)
        /\ p.before # None =>
               /\ Versioned(p.before).nonce = p.before.nonce
               /\ Versioned(p.before).snapshot = DocumentV2(p.before.snapshot)
    BY <1>1, VersionedRecords
  <1>8. /\ c.desired = DocumentV2(p.beforeDesired) => "before" \in desiredRelation
        /\ "after" \in desiredRelation <=> c.desired = DocumentV2(p.after.snapshot)
    BY <1>2, <1>3, <1>6 DEF StartupV2!DesiredRelation, desiredRelation
  <1>9. /\ c.lastGood = (IF p.before = None THEN Missing
                         ELSE DocumentV2(p.before.snapshot)) =>
               "before" \in lastGoodRelation
        /\ "after" \in lastGoodRelation <=>
               c.lastGood = DocumentV2(p.after.snapshot)
    BY <1>2, <1>3, <1>7 DEF StartupV2!LastGoodRelation,
       StartupV2!MirrorRelation, lastGoodRelation
  <1>10. /\ c.applied = (IF p.before = None THEN Missing
                         ELSE Versioned(p.before)) =>
               "before" \in activationRelation
         /\ "after" \in activationRelation <=> c.applied = Versioned(p.after)
    BY <1>2, <1>3 DEF StartupV2!ActivationRelation, StartupV2!MirrorRelation,
       activationRelation
  <1>11. {} \notin {desiredRelation, lastGoodRelation, activationRelation}
    BY <1>1, <1>3, <1>8, <1>9, <1>10
  <1>12. StartupV2!SettledDecision(c, Established) =
             StartupV2!ReducePhase(p.phase, desiredRelation, lastGoodRelation,
                                   activationRelation)
    BY <1>2, <1>3, <1>4 DEF StartupV2!SettledDecision, Established,
       StartupV2!ReduceOrdinaryPending, desiredRelation, lastGoodRelation,
       activationRelation
  <1>13. CASE p.phase = "Prepared"
    <2>1. \A relation \in {desiredRelation, lastGoodRelation,
                           activationRelation} : "before" \in relation
      BY <1>1, <1>3, <1>8, <1>9, <1>10, <1>13
    <2>2. StartupV2!SettledDecision(c, Established) = "RemovePrepared"
      BY <1>11, <1>12, <1>13, <2>1 DEF StartupV2!ReducePhase
    <2> QED
      BY <1>5, <1>13, <2>2 DEF Reconciliation, p, c
  <1>14. CASE p.phase = "Committing"
    <2>1. "after" \in activationRelation =>
              "after" \in desiredRelation /\ "after" \in lastGoodRelation
      <3>1. CASE ns["Activation"] = p.after
        BY <1>1, <1>3, <1>8, <1>9, <1>14, <3>1
      <3>2. CASE ns["Activation"] = ActivationOf(p.before)
        <4>1. c.applied # Versioned(p.after)
          BY <1>1, <1>3, <1>7, <3>2
        <4> QED
          BY <1>10, <4>1
      <3> QED
        BY <1>1, <3>1, <3>2
    <2>2. "after" \in lastGoodRelation => "after" \in desiredRelation
      <3>1. CASE ns["LastGood"] = p.after.snapshot
        BY <1>1, <1>3, <1>8, <1>14, <3>1
      <3>2. CASE p.kind = "Apply"
        BY <1>1, <1>3, <1>8, <3>2
      <3>3. CASE ns["LastGood"] = LastGoodOf(p.before) /\ p.kind # "Apply"
        <4>1. c.lastGood # DocumentV2(p.after.snapshot)
          <5>1. CASE p.before = None
            BY <1>3, <1>6, <3>3, <5>1
          <5>2. CASE p.before # None
            <6>1. p.before.snapshot.revision # p.after.snapshot.revision
              BY <1>1, <3>3, <5>2, BoundAssumption DEF Snapshot
            <6> QED
              BY <1>3, <1>6, <3>3, <5>2, <6>1
          <5> QED
            BY <5>1, <5>2
        <4> QED
          BY <1>9, <4>1
      <3> QED
        BY <1>1, <3>1, <3>2, <3>3
    <2>3. StartupV2!WriteOrder(desiredRelation, lastGoodRelation,
                               activationRelation)
      BY <2>1, <2>2 DEF StartupV2!WriteOrder
    <2>4. StartupV2!SettledDecision(c, Established) = "RollForwardCommitting"
      BY <1>11, <1>12, <1>14, <2>3 DEF StartupV2!ReducePhase
    <2> QED
      BY <1>5, <1>14, <2>4 DEF Reconciliation, p, c
  <1> QED
    BY <1>1, <1>13, <1>14 DEF PendingPhase

\* And the generations of both sides of the journal qualify.
LEMMA JournalledStartup ==
    ASSUME NEW ns, Sound(ns), ns["Pending"] # Missing
    PROVE  RecognizedV2(ns)
  <1> DEFINE p == ns["Pending"]
             c == RecordsV2(ns)
             q == PendingV2(p)
             referred == PreflightV1!AppliedReferences(Captured(ns))
             evidence == EvidenceV2(referred)
             verifies == EvidenceV2(generations)
             other == IF p.before = None THEN p.after ELSE p.before
  <1>1. StartupV2!SettledDecision(c, Established) = Reconciliation(ns)
    BY JournalledDecision
  <1>2. /\ \A d \in RetainedBy(p) :
               /\ d.authority = Epoch
               /\ \A e \in RetainedBy(p) : d.revision = e.revision => d = e
        /\ c.pending = q
        /\ c.desired \in RetainedBy(p)
        /\ c.lastGood \in RetainedBy(p) \cup {Missing}
        /\ \/ c.applied = Missing
           \/ c.applied = Versioned(p.after)
           \/ p.before # None /\ c.applied = Versioned(p.before)
    BY RetainedDocuments
  <1>3. /\ q.candidate = DocumentV2(p.after.snapshot)
        /\ q.after = Versioned(p.after)
        /\ p.before = None => q.before = None /\ q.beforeDesired = None
        /\ p.before # None =>
               /\ q.before = Versioned(p.before)
               /\ q.before # None
               /\ q.beforeDesired = DocumentV2(p.before.snapshot)
        /\ q # Missing
    BY VersionedJournal
  <1>4. StartupV2!ExactOrdinaryPending(q)
    BY OrdinaryJournal
  <1>5. /\ p.after \in AppliedRecord
        /\ p.before # None => /\ p.before \in AppliedRecord
                              /\ p.before.nonce # p.after.nonce
    BY JournalledNamespace
  <1>6. /\ referred = {p.after, p.before} \ {None}
        /\ evidence = {EvidenceOf(r) : r \in referred}
        /\ evidence \subseteq verifies
    BY ReferredTo, EvidenceGiven
  <1>7. StartupV2!SettledDecision(c, Established)
            \in {"RemovePrepared", "RollForwardCommitting"}
    BY <1>1 DEF Reconciliation
  <1> HIDE DEF p, c, q, referred, evidence, verifies
  <1>8. p.after # None /\ Versioned(p.after) # None
    BY <1>5, SentinelAssumption, VersionedRecords
  <1>9. /\ other \in AppliedRecord
        /\ p.after = other \/ p.after.nonce # other.nonce
        /\ other = p.after \/ (p.before # None /\ other = p.before)
    BY <1>5
  <1>10. /\ evidence = {EvidenceOf(p.after), EvidenceOf(other)}
         /\ StartupV2!References(c) = {Versioned(p.after), Versioned(other)}
    <2>1. CASE p.before = None
      <3>1. referred = {p.after}
        BY <1>6, <1>8, <2>1
      <3>2. StartupV2!References(c) = {Versioned(p.after)}
        BY <1>2, <1>3, <1>8, <2>1 DEF StartupV2!References
      <3> QED
        BY <1>6, <2>1, <3>1, <3>2
    <2>2. CASE p.before # None
      <3>1. referred = {p.after, p.before}
        BY <1>6, <1>8, <2>2
      <3>2. StartupV2!References(c) = {Versioned(p.after), Versioned(p.before)}
        BY <1>2, <1>3, <1>8, <2>2 DEF StartupV2!References
      <3> QED
        BY <1>6, <2>2, <3>1, <3>2
    <2> QED
      BY <2>1, <2>2
  <1>11. /\ StartupV2!ReferencesDistinct(StartupV2!References(c))
         /\ StartupV2!EvidenceBinds(StartupV2!References(c), evidence)
         /\ ~(StartupV2!Cardinality(evidence) > StartupV2!MaxEvidence)
    <2> HIDE DEF other
    <2> QED
      BY <1>5, <1>9, <1>10, EvidencePairs
  <1>12. c.applied \in {Missing} \cup StartupV2!References(c)
    BY <1>2, <1>10
  <1>13. StartupV2!GraphDocuments(c, evidence) \subseteq RetainedBy(p)
    <2>1. /\ EvidenceOf(p.after).document = DocumentV2(p.after.snapshot)
          /\ EvidenceOf(other).document = DocumentV2(other.snapshot)
      BY DEF EvidenceOf
    <2>2. /\ DocumentV2(p.after.snapshot) \in RetainedBy(p)
          /\ p.before # None => DocumentV2(p.before.snapshot) \in RetainedBy(p)
      BY DEF RetainedBy
    <2>3. {e.document : e \in evidence} \subseteq RetainedBy(p)
      BY <1>9, <1>10, <2>1, <2>2
    <2>4. {q.candidate, q.beforeDesired} \ {None} \subseteq RetainedBy(p)
      BY <1>3, <2>2
    <2> QED
      BY <1>2, <1>3, <2>3, <2>4 DEF StartupV2!GraphDocuments
  <1>14. StartupV2!SameRevisionUnique(
             {<<<<d.authority, d.revision>>, d>> :
                  d \in StartupV2!GraphDocuments(c, evidence)})
    BY <1>2, <1>13 DEF StartupV2!SameRevisionUnique
  <1>15. StartupV2!ByteGraph(c, evidence, verifies)
             = "GenerationContentByteCoherent"
    BY <1>2, <1>4, <1>6, <1>7, <1>11, <1>12, <1>14
    DEF StartupV2!ByteGraph, StartupV2!Accepted, Established
  <1> QED
    BY <1>1, <1>15 DEF RecognizedV2, Established, c, referred, evidence,
       verifies

-----------------------------------------------------------------------------
(* What the invariant gives *)

\* A request that carries a revision its client was shown carries its content.
LEMMA TokensHold ==
    ASSUME NEW ns, KeepsShown(EffectiveDesired(ns)), told \subseteq Shown,
           told # {} => EffectiveDesired(ns) \in Snapshot
    PROVE  TokensHoldV2(ns)
  <1> DEFINE stored == DocumentV2(EffectiveDesired(ns))
  <1>1. ASSUME NEW shown \in told
        PROVE  LET seen == [authority |-> Epoch, revision |-> shown[1],
                            content |-> shown[2]]
               IN  StartupV2!CasDecision("Writable", TupleV2(stored),
                                         TupleV2(seen)) = "Proceed" =>
                       stored = seen
    <2> DEFINE seen == [authority |-> Epoch, revision |-> shown[1],
                        content |-> shown[2]]
               kept == EffectiveDesired(ns)
    <2>1. kept \in Snapshot
      BY <1>1
    <2>2. /\ stored = [authority |-> Epoch, revision |-> kept.revision,
                       content |-> kept.content]
          /\ kept.revision \in Nat /\ shown[1] \in Nat
      BY <1>1, <2>1, SentinelAssumption, BoundAssumption
      DEF DocumentV2, Snapshot, Shown
    <2>3. \/ kept.revision > shown[1]
          \/ kept.revision = shown[1] /\ kept.content = shown[2]
      BY <1>1 DEF KeepsShown
    <2> HIDE DEF kept, stored
    <2>4. /\ TupleV2(stored).revision = kept.revision
          /\ TupleV2(seen).revision = shown[1]
      BY <2>2 DEF TupleV2
    <2>5. StartupV2!CasDecision("Writable", TupleV2(stored), TupleV2(seen))
              = "Proceed" => TupleV2(seen).revision = TupleV2(stored).revision
      BY DEF StartupV2!CasDecision
    <2> QED
      BY <2>2, <2>3, <2>4, <2>5 DEF stored
  <1> QED
    BY <1>1 DEF TokensHoldV2

\* Every namespace a fault can leave before anything is damaged is one the next
\* start reconciles, one that inspectReachableV1Preflight and the version 2
\* startup take for what it is, with the same resolution, and one in which no
\* revision means two things to the gate of a version 2 client.
THEOREM CrashStatesRecognized ==
    Spec => [](damage = 0 => CrashStatesUnderstood)
  <1>1. ConsistencyInv => (damage = 0 => CrashStatesUnderstood)
    <2> SUFFICES ASSUME ConsistencyInv, damage = 0
                 PROVE  CrashStatesUnderstood
      OBVIOUS
    <2>1. CrashStatesRecoverable
      BY DEF ConsistencyInv, DurabilityInv, Durable, Intact, Recoverable,
             CrashStatesRecoverable
    <2>2. ASSUME NEW ns \in survivors, ns["Desired"] # Missing
          PROVE  /\ TokensHoldV2(ns)
                 /\ OfOneLineage(ns) => RecognizedV1(ns) /\ RecognizedV2(ns)
      <3>1. /\ Intact(ns) /\ IsNamespace(ns) /\ JournalsSound(ns)
            /\ Consistent(ns) /\ told \subseteq Shown
        BY DEF ConsistencyInv, DurabilityInv, Durable, ProtocolInv,
               RevocationInv, TypeInv, TypeOK
      <3>2. Sound(ns)
        BY <2>2, <3>1 DEF Sound, Intact
      <3>3. EffectiveDesired(ns) \in Snapshot
        <4>1. CASE ns["Pending"] = Missing
          BY <3>2, <4>1, SettledNamespace DEF EffectiveDesired, Deciding
        <4>2. CASE ns["Pending"] # Missing
          BY <3>2, <4>2, JournalledNamespace DEF EffectiveDesired
        <4> QED
          BY <4>1, <4>2
      <3>4. TokensHoldV2(ns)
        BY <3>1, <3>3, TokensHold DEF Intact, Keeps
      <3>5. RecognizedV2(ns)
        BY <3>2, SettledStartup, JournalledStartup
      <3> QED
        BY <3>2, <3>4, <3>5, PreflightRecognizes
    <2> QED
      BY <2>1, <2>2 DEF CrashStatesUnderstood
  <1> QED
    BY <1>1, InitConsistencyInv, NextConsistencyInv, PTL DEF Spec

=============================================================================
