------------ MODULE ConfigurationTransaction_durability_proofs ------------
(***************************************************************************)
(* What the compositor configuration authority keeps through every crash,  *)
(* power loss and failing store operation, until something other than the  *)
(* authority damages its files: what it serves is durable, every state a   *)
(* fault leaves is one the next start accepts, and no revision, commit     *)
(* decision or retry of a client is lost.                                  *)
(*                                                                         *)
(* Each of the five properties holds of a namespace only because of what   *)
(* the other files of that namespace hold, so they are proved together, as *)
(* one invariant of every namespace a power loss may reveal (Intact).      *)
(***************************************************************************)
EXTENDS ConfigurationTransaction_proofs

\* The next start reconciles or loads ns (CrashStatesRecoverable of one
\* namespace).
Recoverable(ns) ==
    IF ns["Pending"] = Missing THEN Loadable(ns)
    ELSE /\ MirrorsAllowReconciliation(ns, ns["Pending"])
         /\ ns["Pending"].phase = "Prepared" => Loadable(ns)

\* Nothing is applied at a later revision than what is desired.
NotAhead(ns) ==
    /\ ns["Pending"] # Missing =>
           (ns["Pending"].before # None =>
               ns["Pending"].before.snapshot.revision
                   <= ns["Pending"].beforeDesired.revision)
    /\ ~Deciding(ns) =>
           (ns["Activation"] # Missing =>
               ns["Activation"].snapshot.revision <= ns["Desired"].revision)

\* The snapshot kept names every revision that clients were shown, or a later
\* one.
KeepsShown(kept) ==
    \A shown \in told :
        /\ Parses(kept)
        /\ \/ kept.revision > shown[1]
           \/ kept.revision = shown[1] /\ kept.content = shown[2]

\* The transaction kept is none that an earlier decision preceded.
KeepsDecided(kept) ==
    \A n \in decided : Parses(kept) /\ kept.nonce >= n

\* The last Replace request finds the snapshot kept as it left it, or its own.
KeepsSubmitted(kept) ==
    submitted # None =>
        /\ Parses(kept)
        /\ \/ kept.revision = submitted.expected
           \/ /\ kept.revision = submitted.expected + 1
              /\ kept.content = submitted.content

Keeps(ns) ==
    /\ KeepsShown(EffectiveDesired(ns))
    /\ KeepsDecided(EffectiveApplied(ns))
    /\ KeepsSubmitted(EffectiveDesired(ns))

Intact(ns) == Recoverable(ns) /\ NotAhead(ns) /\ Keeps(ns)

\* The mirrors hold what the authority answers from memory.
ServedIsOnDisk ==
    Available =>
        /\ disk["Desired"] = desired
        /\ disk["Activation"] = IF applied = None THEN Missing ELSE applied
        /\ disk["LastGood"] = IF applied = None THEN Missing
                              ELSE applied.snapshot

Durable == ServedIsOnDisk /\ \A ns \in survivors : Intact(ns)

DurabilityInv == ProtocolInv /\ (damage = 0 => Durable)

-----------------------------------------------------------------------------
(* One namespace *)

\* A journal a namespace holds is a record of the module's types.
LEMMA JournalType ==
    ASSUME NEW ns, IsNamespace(ns), ns["Pending"] # Missing
    PROVE  /\ ns["Pending"] \in PendingRecord
           /\ ns["Pending"].phase \in PendingPhase
           /\ ns["Pending"].after \in AppliedRecord
           /\ ns["Pending"].after.snapshot \in Snapshot
           /\ ns["Pending"].after.nonce \in Nonce
           /\ ns["Pending"].beforeDesired \in Snapshot
           /\ ns["Pending"].before # None =>
                  /\ ns["Pending"].before \in AppliedRecord
                  /\ ns["Pending"].before.snapshot \in Snapshot
           /\ Parses(ns["Pending"].after)
           /\ Parses(ns["Pending"].after.snapshot)
  <1>1. ns["Pending"] \in PendingRecord
    BY DEF IsNamespace, Fits, StoreFile
  <1>2. /\ ns["Pending"].after \in AppliedRecord
        /\ ns["Pending"].after.snapshot \in Snapshot
    BY <1>1 DEF PendingRecord, AppliedRecord
  <1> QED
    BY <1>1, <1>2, SentinelAssumption DEF PendingRecord, AppliedRecord, Parses

\* A mirror of a decided transaction written in its turn: the next start still
\* rolls forward to the same snapshot and transaction.
LEMMA MirrorWritten ==
    ASSUME NEW ns, IsNamespace(ns), Deciding(ns), Recoverable(ns), NotAhead(ns),
           JournalsSound(ns), NEW file \in StoreFile, NEW bytes,
           LET after == ns["Pending"].after IN
           \/ file = "Desired" /\ bytes = after.snapshot
           \/ /\ file = "LastGood" /\ bytes = after.snapshot
              /\ ns["Desired"] = after.snapshot
           \/ /\ file = "Activation" /\ bytes = after
              /\ ns["Desired"] = after.snapshot
              /\ ns["LastGood"] = after.snapshot
    PROVE  LET new == [ns EXCEPT ![file] = bytes] IN
           /\ Recoverable(new) /\ NotAhead(new)
           /\ EffectiveDesired(new) = EffectiveDesired(ns)
           /\ EffectiveApplied(new) = EffectiveApplied(ns)
  <1> DEFINE new == [ns EXCEPT ![file] = bytes]
             p == ns["Pending"]
  <1>1. /\ p # Missing /\ p.phase = "Committing"
        /\ MirrorsAllowReconciliation(ns, p)
        /\ ~ReadOnly(p.after.snapshot)
    BY DEF Deciding, Recoverable, JournalsSound, JournalSound
  <1>2. /\ new[file] = bytes
        /\ \A other \in StoreFile \ {file} : new[other] = ns[other]
    BY ReplacedFile
  <1> HIDE DEF new
  <1>3. new["Pending"] = p
    BY <1>2 DEF StoreFile
  <1>4. MirrorsAllowReconciliation(new, p)
    <2>1. CASE file = "Desired"
      BY <1>1, <1>2, <2>1 DEF StoreFile, MirrorsAllowReconciliation,
         DesiredIsBefore, DesiredIsAfter, ActivationIsBefore,
         ActivationIsAfter, LastGoodIsBefore, LastGoodIsAfter
    <2>2. CASE file = "LastGood"
      BY <1>1, <1>2, <2>2 DEF StoreFile, MirrorsAllowReconciliation,
         DesiredIsBefore, DesiredIsAfter, ActivationIsBefore,
         ActivationIsAfter, LastGoodIsBefore, LastGoodIsAfter
    <2>3. CASE file = "Activation"
      BY <1>1, <1>2, <2>3 DEF StoreFile, MirrorsAllowReconciliation,
         DesiredIsBefore, DesiredIsAfter, ActivationIsBefore,
         ActivationIsAfter, LastGoodIsBefore, LastGoodIsAfter
    <2> QED
      BY <2>1, <2>2, <2>3
  <1>5. Recoverable(new)
    BY <1>1, <1>3, <1>4 DEF Recoverable
  <1>6. NotAhead(new)
    BY <1>1, <1>3 DEF NotAhead, Deciding
  <1>7. /\ EffectiveDesired(new) = EffectiveDesired(ns)
        /\ EffectiveApplied(new) = EffectiveApplied(ns)
    BY <1>3 DEF EffectiveDesired, EffectiveApplied, Deciding
  <1> QED
    BY <1>5, <1>6, <1>7 DEF new

\* The journal removed, of a decision whose mirrors are written or of a
\* transaction that was not decided: the next start serves what it would have
\* served before.
LEMMA JournalRemoved ==
    ASSUME NEW ns, IsNamespace(ns), ns["Pending"] # Missing, Recoverable(ns),
           NotAhead(ns), JournalsSound(ns),
           Deciding(ns) =>
               /\ ns["Desired"] = ns["Pending"].after.snapshot
               /\ ns["LastGood"] = ns["Pending"].after.snapshot
               /\ ns["Activation"] = ns["Pending"].after
    PROVE  LET new == [ns EXCEPT !["Pending"] = Missing] IN
           /\ Recoverable(new) /\ NotAhead(new)
           /\ EffectiveDesired(new) = EffectiveDesired(ns)
           /\ EffectiveApplied(new) = EffectiveApplied(ns)
  <1> DEFINE new == [ns EXCEPT !["Pending"] = Missing]
             p == ns["Pending"]
  <1>1. /\ p \in PendingRecord /\ p.phase \in PendingPhase
        /\ p.after.snapshot \in Snapshot
        /\ Parses(p.after) /\ Parses(p.after.snapshot)
    BY JournalType
  <1>2. /\ new["Pending"] = Missing
        /\ new["Desired"] = ns["Desired"]
        /\ new["LastGood"] = ns["LastGood"]
        /\ new["Activation"] = ns["Activation"]
    BY ReplacedFile DEF StoreFile
  <1> HIDE DEF new
  <1>3. Loadable(ns)
    <2>1. CASE Deciding(ns)
      <3>1. p.after \in generations /\ ~ReadOnly(p.after.snapshot)
        BY <2>1 DEF Recoverable, MirrorsAllowReconciliation,
           CrossCheckGeneration, JournalsSound, JournalSound
      <3> QED
        BY <1>1, <2>1, <3>1 DEF Loadable, CrossCheckGeneration
    <2>2. CASE ~Deciding(ns)
      BY <1>1, <2>2 DEF Recoverable, Deciding, PendingPhase
    <2> QED
      BY <2>1, <2>2
  <1>4. Recoverable(new)
    BY <1>2, <1>3 DEF Recoverable, Loadable
  <1>5. NotAhead(new)
    <2>1. CASE Deciding(ns)
      <3>1. p.after.snapshot.revision <= p.after.snapshot.revision
        BY <1>1, BoundAssumption DEF Snapshot
      <3> QED
        BY <1>2, <2>1, <3>1 DEF NotAhead
    <2>2. CASE ~Deciding(ns)
      BY <1>2, <2>2 DEF NotAhead
    <2> QED
      BY <2>1, <2>2
  <1>6. /\ EffectiveDesired(new) = EffectiveDesired(ns)
        /\ EffectiveApplied(new) = EffectiveApplied(ns)
    BY <1>2 DEF EffectiveDesired, EffectiveApplied, Deciding
  <1> QED
    BY <1>4, <1>5, <1>6 DEF new

\* Growing the generations and leaving the history alone spoils no namespace.
LEMMA IntactStable ==
    ASSUME NEW ns, Intact(ns), generations \subseteq generations',
           UNCHANGED <<told, decided, submitted>>
    PROVE  Intact(ns)'
  <1>1. Recoverable(ns)'
    BY DEF Intact, Recoverable, MirrorsAllowReconciliation, Loadable,
           CrossCheckGeneration
  <1>2. NotAhead(ns)' /\ Keeps(ns)'
    BY DEF Intact, NotAhead, Keeps, KeepsShown, KeepsDecided, KeepsSubmitted
  <1> QED
    BY <1>1, <1>2 DEF Intact

\* PersistentStore::write into a synced directory, when the bytes it writes
\* leave an intact namespace.
LEMMA WriteIntact ==
    ASSUME survivors = {disk}, Intact(disk), NEW file \in StoreFile, NEW bytes,
           Intact([disk EXCEPT ![file] = bytes]),
           NEW outcome \in Outcome, Write(file, bytes, outcome)
    PROVE  \A ns \in survivors' : Intact(ns)
  <1> DEFINE new == [disk EXCEPT ![file] = bytes]
  <1>1. Intact(new)
    OBVIOUS
  <1>2. \A ns \in survivors' : ns = disk \/ ns = new
    BY SyncedWrite DEF Outcome
  <1> HIDE DEF new
  <1> QED
    BY <1>1, <1>2

\* The snapshot loadSnapshots serves is the stored one, under the installed
\* catalog, or the default of an empty store.
LEMMA LoadedDesiredType ==
    ASSUME TypeInv, Loadable(disk)
    PROVE  /\ LoadedDesired \in Snapshot
           /\ Parses(LoadedDesired)
           /\ disk["Desired"] # Missing =>
                  /\ disk["Desired"] \in Snapshot
                  /\ LoadedDesired.revision = disk["Desired"].revision
                  /\ LoadedDesired.content = disk["Desired"].content
  <1>1. disk["Desired"] \in Snapshot \cup {Missing}
    BY DEF TypeInv, TypeOK, IsNamespace, Fits, StoreFile, Loadable, Parses
  <1>2. catalog \in Catalog
    BY DEF TypeInv, TypeOK
  <1>3. LoadedDesired \in Snapshot
    BY <1>1, <1>2, ContentAssumption, BoundAssumption
    DEF LoadedDesired, Migrated, Snapshot
  <1>4. disk["Desired"] # Missing =>
            /\ LoadedDesired.revision = disk["Desired"].revision
            /\ LoadedDesired.content = disk["Desired"].content
    BY <1>1, <1>2 DEF LoadedDesired, Migrated, Snapshot
  <1> QED
    BY <1>1, <1>3, <1>4, SentinelAssumption DEF Parses

-----------------------------------------------------------------------------
(* The invariant *)

\* A fresh store holds at most a desired snapshot of revision 0, and nobody
\* was told anything.
LEMMA InitDurabilityInv == Init => DurabilityInv
  <1> SUFFICES ASSUME Init PROVE DurabilityInv
    OBVIOUS
  <1>1. ProtocolInv
    BY InitProtocolInv
  <1>2. /\ survivors = {disk} /\ process = "down"
        /\ told = {} /\ decided = {} /\ submitted = None
    BY DEF Init
  <1>3. PICK d \in {Missing} \cup
                  [revision: {0}, content: Content, catalog: {"earlier"}] :
            disk = [f \in StoreFile |-> IF f = "Desired" THEN d ELSE Missing]
    BY DEF Init
  <1>4. /\ disk["Desired"] = d /\ disk["LastGood"] = Missing
        /\ disk["Activation"] = Missing /\ disk["Pending"] = Missing
    BY <1>3 DEF StoreFile
  <1>5. d = Missing \/ Parses(d)
    <2>1. d \in Snapshot \cup {Missing}
      BY BoundAssumption DEF Snapshot, Catalog
    <2> QED
      BY <2>1, SentinelAssumption DEF Parses
  <1>6. Intact(disk)
    BY <1>2, <1>4, <1>5 DEF Intact, Recoverable, Loadable, NotAhead, Deciding,
       Keeps, KeepsShown, KeepsDecided, KeepsSubmitted
  <1> QED
    BY <1>1, <1>2, <1>6 DEF DurabilityInv, Durable, ServedIsOnDisk, Available

\* loadSnapshots leaves an intact namespace, whether its rewrite happens or
\* not.
LEMMA LoadIntact ==
    ASSUME ProtocolInv, Durable, process = "load", Loadable(disk)
    PROVE  /\ ~Deciding(disk) /\ disk["Pending"] = Missing
           /\ survivors = {disk} /\ Intact(disk)
           /\ Intact([disk EXCEPT !["Desired"] = LoadedDesired])
           /\ disk["Desired"] = Missing =>
                  told = {} /\ decided = {} /\ submitted = None
  <1> DEFINE new == [disk EXCEPT !["Desired"] = LoadedDesired]
  <1>1. /\ survivors = {disk} /\ disk["Pending"] = Missing
    BY DEF ProtocolInv, RevocationInv, StartsClean
  <1>2. /\ Intact(disk) /\ ~Deciding(disk)
        /\ EffectiveDesired(disk) = disk["Desired"]
        /\ EffectiveApplied(disk) = disk["Activation"]
    BY <1>1 DEF Durable, Deciding, EffectiveDesired, EffectiveApplied
  <1>3. /\ new["Desired"] = LoadedDesired
        /\ new["Pending"] = Missing
        /\ new["LastGood"] = disk["LastGood"]
        /\ new["Activation"] = disk["Activation"]
    BY <1>1, ReplacedFile DEF StoreFile, ProtocolInv, RevocationInv, TypeInv,
                              TypeOK
  <1>4. /\ Parses(LoadedDesired)
        /\ disk["Desired"] # Missing =>
               /\ LoadedDesired.revision = disk["Desired"].revision
               /\ LoadedDesired.content = disk["Desired"].content
    BY LoadedDesiredType DEF ProtocolInv, RevocationInv
  <1>5. disk["Desired"] = Missing =>
            told = {} /\ decided = {} /\ submitted = None
    BY <1>2 DEF Intact, Keeps, KeepsShown, KeepsDecided, KeepsSubmitted,
                Parses, Loadable
  <1> HIDE DEF new
  <1>6. /\ EffectiveDesired(new) = LoadedDesired
        /\ EffectiveApplied(new) = disk["Activation"]
    BY <1>3 DEF Deciding, EffectiveDesired, EffectiveApplied
  <1>7. Recoverable(new)
    BY <1>3, <1>4 DEF Recoverable, Loadable, Parses
  <1>8. NotAhead(new)
    <2>1. disk["Desired"] = Missing => disk["Activation"] = Missing
      BY DEF Loadable, Parses
    <2> QED
      BY <1>2, <1>3, <1>4, <2>1 DEF Intact, NotAhead
  <1>9. Keeps(new)
    <2>1. CASE disk["Desired"] = Missing
      BY <1>5, <1>6, <2>1 DEF Keeps, KeepsShown, KeepsDecided, KeepsSubmitted
    <2>2. CASE disk["Desired"] # Missing
      BY <1>2, <1>4, <1>6, <2>2
      DEF Intact, Keeps, KeepsShown, KeepsDecided, KeepsSubmitted
    <2> QED
      BY <2>1, <2>2
  <1>10. Intact(new)
    BY <1>7, <1>8, <1>9 DEF Intact
  <1> QED
    BY <1>1, <1>2, <1>5, <1>10 DEF new

\* A start serves, and leaves behind, what the namespaces held before it.
LEMMA StartupDurable ==
    ASSUME ProtocolInv, Durable, NEW outcome \in Outcome,
           \/ Initialize \/ ReconcileNothing \/ ReconcileRefused
           \/ ReconcileCommitting \/ LoadRefused \/ Startup(outcome)
    PROVE  Durable'
  <1>0. /\ StoreOK /\ disk \in survivors /\ IsNamespace(disk)
        /\ Intact(disk) /\ JournalsSound(disk)
        /\ \A ns \in survivors : Intact(ns)
    BY DEF ProtocolInv, RevocationInv, TypeInv, TypeOK, StoreOK, Durable
  <1>a. StoreFile = {"Desired", "LastGood", "Activation", "Pending"}
    BY DEF StoreFile
  <1>b. process \in {"reconcile", "load"} \cup Rolling => survivors = {disk}
    BY DEF ProtocolInv, RevocationInv, StartsClean
  <1>1. ASSUME \A ns \in survivors' : Intact(ns), process' # "ready",
               UNCHANGED <<world, history>> \/ UNCHANGED <<generations, history>>
        PROVE  Durable'
    <2>1. \A ns \in survivors' : Intact(ns)'
      BY <1>1, IntactStable DEF world, history
    <2> QED
      BY <1>1, <2>1 DEF Durable, ServedIsOnDisk, Available
  <1>2. CASE Initialize \/ ReconcileNothing \/ ReconcileRefused
             \/ ReconcileCommitting \/ LoadRefused
    <2>1. /\ \A ns \in survivors' : Intact(ns)
          /\ process' # "ready" /\ UNCHANGED <<generations, history>>
      BY <1>0, <1>2 DEF Initialize, SyncDirectory, ReconcileNothing,
         ReconcileRefused, ReconcileCommitting, LoadRefused, StartupFails,
         store, world
    <2> QED
      BY <1>1, <2>1
  <1>3. CASE ReconcilePrepared(outcome)
    <2>1. /\ process = "reconcile" /\ Write("Pending", Missing, outcome)
          /\ disk["Pending"] # Missing /\ ~Deciding(disk)
          /\ process' # "ready" /\ UNCHANGED <<world, history>>
      BY <1>3 DEF ReconcilePrepared, Remove, StartupFails, Deciding
    <2>2. Intact([disk EXCEPT !["Pending"] = Missing])
      BY <1>0, <2>1, JournalRemoved DEF Intact, Keeps
    <2>3. \A ns \in survivors' : Intact(ns)
      BY <1>0, <1>a, <1>b, <2>1, <2>2, WriteIntact
    <2> QED
      BY <1>1, <2>1, <2>3
  <1>4. process \in Rolling =>
            disk["Pending"] = pending /\ Deciding(disk) /\ pending # Missing
    BY DEF ProtocolInv, RevocationInv, StartsClean, Deciding
  <1>5. ASSUME RollForwardDesired(outcome) \/ RollForwardLastGood(outcome)
                   \/ RollForwardActivation(outcome)
        PROVE  Durable'
    <2>1. PICK file \in {"Desired", "LastGood", "Activation"},
               bytes \in {pending.after.snapshot, pending.after} :
            /\ Write(file, bytes, outcome) /\ process \in Rolling
            /\ process' # "ready" /\ UNCHANGED <<world, history>>
            /\ \/ file = "Desired" /\ bytes = pending.after.snapshot
               \/ /\ file = "LastGood" /\ bytes = pending.after.snapshot
                  /\ disk["Desired"] = pending.after.snapshot
               \/ /\ file = "Activation" /\ bytes = pending.after
                  /\ disk["Desired"] = pending.after.snapshot
                  /\ disk["LastGood"] = pending.after.snapshot
      BY <1>5 DEF RollForwardDesired, RollForwardLastGood,
         RollForwardActivation, RollForward, Rolling, StartupFails,
         ProtocolInv, MirrorsInOrder
    <2>2. Intact([disk EXCEPT ![file] = bytes])
      BY <1>0, <1>4, <1>a, <2>1, MirrorWritten DEF Intact, Keeps
    <2>3. \A ns \in survivors' : Intact(ns)
      BY <1>0, <1>a, <1>b, <2>1, <2>2, WriteIntact
    <2> QED
      BY <1>1, <2>1, <2>3
  <1>6. CASE RollForwardRemove(outcome)
    <2>1. /\ Write("Pending", Missing, outcome) /\ process = "rollRemove"
          /\ process' # "ready" /\ UNCHANGED <<world, history>>
      BY <1>6 DEF RollForwardRemove, RollForward, StartupFails
    <2>2. Intact([disk EXCEPT !["Pending"] = Missing])
      BY <1>0, <1>4, <2>1, JournalRemoved
      DEF Intact, Keeps, ProtocolInv, MirrorsInOrder, Rolling
    <2>3. \A ns \in survivors' : Intact(ns)
      BY <1>0, <1>a, <1>b, <2>1, <2>2, WriteIntact DEF Rolling
    <2> QED
      BY <1>1, <2>1, <2>3
  <1>7. CASE LoadSnapshots(outcome)
    <2>1. process = "load" /\ Loadable(disk)
      BY <1>7 DEF LoadSnapshots
    <2>2. /\ ~Deciding(disk) /\ disk["Pending"] = Missing
          /\ survivors = {disk}
          /\ Intact([disk EXCEPT !["Desired"] = LoadedDesired])
          /\ disk["Desired"] = Missing =>
                 told = {} /\ decided = {} /\ submitted = None
      BY <2>1, LoadIntact
    <2>3. \A ns \in survivors' : Intact(ns)
      <3>1. CASE LoadedDesired # disk["Desired"]
        BY <1>0, <1>7, <1>a, <2>2, <3>1, WriteIntact DEF LoadSnapshots
      <3>2. CASE LoadedDesired = disk["Desired"]
        BY <1>0, <1>7, <3>2 DEF LoadSnapshots, store
      <3> QED
        BY <3>1, <3>2
    <2>4. CASE outcome = "success"
      <3> DEFINE record == IF disk["Activation"] = Missing THEN None
                           ELSE disk["Activation"]
      <3>1. /\ process' = "ready" /\ desired' = LoadedDesired
            /\ applied' = record /\ Serve(desired', record)
            /\ UNCHANGED <<world, failed, pending, submitted>>
        BY <1>7, <2>4 DEF LoadSnapshots
      <3>2. /\ survivors' = {disk'}
            /\ disk'["Desired"] = LoadedDesired
            /\ disk'["Pending"] = Missing
            /\ disk'["LastGood"] = disk["LastGood"]
            /\ disk'["Activation"] = disk["Activation"]
        <4>1. CASE LoadedDesired # disk["Desired"]
          <5>1. /\ survivors' = {disk'}
                /\ disk' = [disk EXCEPT !["Desired"] = LoadedDesired]
            BY <1>7, <1>a, <2>4, <4>1, WriteEffect DEF LoadSnapshots
          <5> QED
            BY <1>0, <1>a, <2>2, <5>1, ReplacedFile
        <4>2. CASE LoadedDesired = disk["Desired"]
          BY <1>7, <2>2, <4>2 DEF LoadSnapshots, store
        <4> QED
          BY <4>1, <4>2
      <3>3. /\ Parses(LoadedDesired) /\ LoadedDesired \in Snapshot
            /\ disk["Activation"] # Missing =>
                   /\ Parses(disk["Activation"])
                   /\ disk["Activation"] \in AppliedRecord
                   /\ disk["Activation"] # None
        BY <1>0, <2>1, LoadedDesiredType, SentinelAssumption
        DEF ProtocolInv, RevocationInv, Loadable, IsNamespace, Fits, Parses,
            StoreFile
      <3>4. told' = told \cup {<<LoadedDesired.revision, LoadedDesired.content>>}
        BY <3>1 DEF Serve
      <3>5. decided' = IF disk["Activation"] = Missing THEN decided
                       ELSE decided \cup {disk["Activation"].nonce}
        BY <3>1, <3>3 DEF Serve
      <3>6. ASSUME NEW ns \in survivors' PROVE Intact(ns)'
        <4>1. /\ Intact(ns) /\ ~Deciding(ns)
              /\ EffectiveDesired(ns) = LoadedDesired
              /\ EffectiveApplied(ns) = disk["Activation"]
          BY <2>3, <3>2 DEF Deciding, EffectiveDesired, EffectiveApplied
        <4>2. KeepsShown(EffectiveDesired(ns))'
          <5>1. KeepsShown(EffectiveDesired(ns))
            BY <4>1 DEF Intact, Keeps
          <5> QED
            BY <3>3, <3>4, <4>1, <5>1 DEF KeepsShown
        <4>3. KeepsDecided(EffectiveApplied(ns))'
          <5>1. KeepsDecided(EffectiveApplied(ns))
            BY <4>1 DEF Intact, Keeps
          <5>2. disk["Activation"] # Missing => disk["Activation"].nonce \in Nat
            BY <3>3 DEF AppliedRecord, Nonce
          <5> QED
            BY <3>3, <3>5, <4>1, <5>1, <5>2 DEF KeepsDecided
        <4>4. KeepsSubmitted(EffectiveDesired(ns))'
          BY <3>1, <4>1 DEF Intact, Keeps, KeepsSubmitted
        <4>5. Recoverable(ns)' /\ NotAhead(ns)'
          BY <3>1, <4>1 DEF Intact, Recoverable, NotAhead, Loadable,
             MirrorsAllowReconciliation, CrossCheckGeneration, world
        <4> QED
          BY <4>2, <4>3, <4>4, <4>5 DEF Intact, Keeps
      <3>7. ServedIsOnDisk'
        BY <2>1, <3>1, <3>2, <3>3 DEF ServedIsOnDisk, Loadable, Parses
      <3> QED
        BY <3>6, <3>7 DEF Durable
    <2> QED
      BY <1>1, <1>7, <2>3, <2>4 DEF LoadSnapshots, StartupFails
  <1> QED
    BY <1>2, <1>3, <1>5, <1>6, <1>7 DEF Startup

\* While the authority serves, memory, the disk and every survivor agree.
LEMMA ServingFacts ==
    ASSUME ProtocolInv, Durable, Available
    PROVE  /\ process = "ready" /\ failed = FALSE
           /\ StoreOK /\ IsNamespace(disk)
           /\ survivors = {disk} /\ Intact(disk) /\ JournalsSound(disk)
           /\ ~Deciding(disk) /\ Loadable(disk)
           /\ EffectiveDesired(disk) = disk["Desired"]
           /\ EffectiveApplied(disk) = disk["Activation"]
           /\ disk["Pending"] = IF pending = None THEN Missing ELSE pending
           /\ disk["Desired"] = desired
           /\ disk["Activation"] = IF applied = None THEN Missing ELSE applied
           /\ disk["LastGood"] = IF applied = None THEN Missing
                                 ELSE applied.snapshot
           /\ desired \in Snapshot /\ Parses(desired)
           /\ applied # None => applied \in AppliedRecord
           /\ pending # None =>
                  /\ pending \in PendingRecord /\ pending # Missing
                  /\ pending.phase = "Prepared"
                  /\ pending.beforeDesired = desired
                  /\ pending.before = applied
                  /\ JournalSound(pending)
  <1>1. /\ process = "ready" /\ failed = FALSE /\ StoreOK
        /\ desired \in Snapshot /\ disk \in survivors
        /\ pending # None => pending \in PendingRecord
        /\ applied # None => applied \in AppliedRecord
    BY DEF ProtocolInv, RevocationInv, TypeInv, TypeOK, ProcessOK, StoreOK,
           Available
  <1>2. /\ survivors = {disk} /\ JournalsSound(disk)
        /\ disk["Pending"] = IF pending = None THEN Missing ELSE pending
        /\ pending # None => /\ pending.phase = "Prepared"
                             /\ pending.beforeDesired = desired
                             /\ pending.before = applied
    BY <1>1 DEF ProtocolInv, Synced, JournalInMemory, Serving
  <1>3. ~Deciding(disk)
    BY <1>1 DEF ProtocolInv, RevocationInv, Undecided
  <1>4. /\ Intact(disk) /\ IsNamespace(disk)
        /\ disk["Desired"] = desired
        /\ disk["Activation"] = IF applied = None THEN Missing ELSE applied
        /\ disk["LastGood"] = IF applied = None THEN Missing
                              ELSE applied.snapshot
    BY <1>1 DEF Durable, ServedIsOnDisk, StoreOK
  <1>5. Loadable(disk)
    BY <1>2, <1>4 DEF Intact, Recoverable
  <1>6. /\ Parses(desired)
        /\ pending # None => pending # Missing
    BY <1>1, SentinelAssumption DEF Parses
  <1>7. pending # None => JournalSound(pending)
    BY <1>2, <1>6 DEF JournalsSound
  <1> QED
    BY <1>1, <1>2, <1>3, <1>4, <1>5, <1>6, <1>7
    DEF EffectiveDesired, EffectiveApplied

\* Staging a candidate adds a journal that the next start removes.
LEMMA StageDurable ==
    ASSUME ProtocolInv, Durable, Writable, NEW outcome \in Outcome,
           NEW kind \in PendingKind, NEW candidate,
           StageCandidate(kind, candidate, outcome)
    PROVE  Durable'
  <1> DEFINE after == [snapshot |-> candidate, nonce |-> nonce + 1]
             record == [kind |-> kind, phase |-> "Prepared",
                        beforeDesired |-> desired, after |-> after,
                        before |-> applied]
             new == [disk EXCEPT !["Pending"] = record]
  <1>1. /\ Write("Pending", record, outcome)
        /\ generations' = generations \cup {after}
        /\ UNCHANGED <<desired, applied, told, decided, submitted>>
    BY DEF StageCandidate
  <1>2. Available /\ pending = None
    BY DEF Writable
  <1>3. /\ IsNamespace(disk) /\ survivors = {disk} /\ Intact(disk)
        /\ ~Deciding(disk) /\ Loadable(disk)
        /\ disk["Pending"] = Missing
        /\ disk["Desired"] = desired
        /\ disk["Activation"] = IF applied = None THEN Missing ELSE applied
        /\ disk["LastGood"] = IF applied = None THEN Missing
                              ELSE applied.snapshot
        /\ applied # None => applied # Missing
    BY <1>2, ServingFacts, SentinelAssumption
  <1>4. /\ record.phase = "Prepared" /\ record.after = after
        /\ record.beforeDesired = desired /\ record.before = applied
    OBVIOUS
  <1> HIDE DEF record
  <1>5. /\ new["Pending"] = record
        /\ new["Desired"] = disk["Desired"]
        /\ new["LastGood"] = disk["LastGood"]
        /\ new["Activation"] = disk["Activation"]
    BY <1>3, ReplacedFile DEF StoreFile
  <1> HIDE DEF new
  <1>6. /\ ~Deciding(new)
        /\ EffectiveDesired(new) = EffectiveDesired(disk)
        /\ EffectiveApplied(new) = EffectiveApplied(disk)
    BY <1>3, <1>4, <1>5 DEF Deciding, EffectiveDesired, EffectiveApplied
  <1>7. NotAhead(new) /\ Keeps(new)
    BY <1>3, <1>4, <1>5, <1>6 DEF Intact, NotAhead, Keeps
  <1>8. ASSUME NEW ns, ns = new PROVE Intact(ns)'
    <2>1. NotAhead(ns)' /\ Keeps(ns)'
      BY <1>1, <1>7, <1>8 DEF NotAhead, Keeps, KeepsShown, KeepsDecided,
                              KeepsSubmitted
    <2>2. Loadable(ns)'
      BY <1>1, <1>3, <1>5, <1>8 DEF Loadable, CrossCheckGeneration
    <2>3. MirrorsAllowReconciliation(ns, ns["Pending"])'
      BY <1>1, <1>3, <1>4, <1>5, <1>8
      DEF MirrorsAllowReconciliation, CrossCheckGeneration, DesiredIsBefore,
          ActivationIsBefore, LastGoodIsBefore
    <2> QED
      BY <2>1, <2>2, <2>3 DEF Intact, Recoverable
  <1>9. \A ns \in survivors' : ns = disk \/ ns = new
    BY <1>1, <1>3, SyncedWrite DEF Outcome, StoreFile, new
  <1>10. \A ns \in survivors' : Intact(ns)'
    <2>1. generations \subseteq generations'
      BY <1>1
    <2>2. ASSUME NEW ns, ns = disk PROVE Intact(ns)'
      BY <1>1, <1>3, <2>1, <2>2, IntactStable
    <2> QED
      BY <1>8, <1>9, <2>2
  <1>11. ServedIsOnDisk'
    <2>1. disk' = disk \/ disk' = new
      BY <1>1, WriteEffect DEF StoreFile, new
    <2> QED
      BY <1>1, <1>3, <1>5, <2>1 DEF ServedIsOnDisk
  <1> QED
    BY <1>10, <1>11 DEF Durable

\* replaceSnapshot stores the successor of what was stored.
LEMMA ReplaceDurable ==
    ASSUME ProtocolInv, Durable, NEW outcome \in Outcome,
           NEW expected \in 0..MaxRevision, NEW content \in Content,
           ReplaceSnapshot(expected, content, outcome)
    PROVE  Durable'
  <1> DEFINE next == [revision |-> expected + 1, content |-> content,
                      catalog |-> catalog]
             new == [disk EXCEPT !["Desired"] = next]
  <1>1. /\ Available /\ Write("Desired", next, outcome)
        /\ submitted' = [expected |-> expected, content |-> content]
        /\ UNCHANGED <<world, process, applied, pending, revoked, decided>>
        /\ outcome = "success" =>
               /\ desired' = next
               /\ told' = told \cup {<<next.revision, content>>}
        /\ outcome # "success" =>
               /\ UNCHANGED <<desired, told>>
               /\ failed' = (outcome = "notDurable")
    BY DEF ReplaceSnapshot
  <1>2. /\ expected = desired.revision /\ pending = None
        /\ expected # MaxRevision
    <2>1. desired.revision \in Nat
      BY <1>1, ServingFacts, BoundAssumption DEF Snapshot
    <2> QED
      BY <2>1 DEF ReplaceSnapshot, ReplaceOutcome
  <1>3. /\ IsNamespace(disk) /\ survivors = {disk} /\ Intact(disk)
        /\ ~Deciding(disk) /\ Loadable(disk) /\ disk["Pending"] = Missing
        /\ EffectiveDesired(disk) = desired /\ Parses(desired)
        /\ EffectiveApplied(disk) = disk["Activation"]
        /\ disk["Desired"] = desired
        /\ disk["Activation"] = IF applied = None THEN Missing ELSE applied
        /\ disk["LastGood"] = IF applied = None THEN Missing
                              ELSE applied.snapshot
        /\ desired \in Snapshot
        /\ applied # None => applied \in AppliedRecord
    BY <1>1, <1>2, ServingFacts
  <1>4. next \in Snapshot /\ Parses(next)
    <2>1. next \in Snapshot
      BY <1>2, BoundAssumption DEF Snapshot, ProtocolInv, RevocationInv,
         TypeInv, TypeOK
    <2> QED
      BY <2>1, SentinelAssumption DEF Parses
  <1>5. next.revision = expected + 1 /\ next.content = content
    OBVIOUS
  <1> HIDE DEF next
  <1>6. /\ new["Pending"] = Missing
        /\ new["Desired"] = next
        /\ new["LastGood"] = disk["LastGood"]
        /\ new["Activation"] = disk["Activation"]
    BY <1>3, ReplacedFile DEF StoreFile
  <1> HIDE DEF new
  <1>7. /\ ~Deciding(new)
        /\ EffectiveDesired(new) = next
        /\ EffectiveApplied(new) = EffectiveApplied(disk)
    BY <1>3, <1>6 DEF Deciding, EffectiveDesired, EffectiveApplied
  <1>8. Recoverable(new)
    BY <1>3, <1>4, <1>6 DEF Recoverable, Loadable, Parses
  <1>9. NotAhead(new)
    <2>1. disk["Activation"] # Missing =>
              /\ disk["Activation"].snapshot.revision \in Nat
              /\ disk["Activation"].snapshot.revision <= desired.revision
      BY <1>3 DEF Intact, NotAhead, AppliedRecord, Snapshot
    <2> QED
      BY <1>2, <1>5, <1>6, <2>1 DEF NotAhead
  <1>10. ASSUME NEW ns, ns = disk, outcome # "success" PROVE Intact(ns)'
    <2>1. Recoverable(ns)' /\ NotAhead(ns)'
      BY <1>1, <1>3, <1>10 DEF Intact, Recoverable, NotAhead, Loadable,
         MirrorsAllowReconciliation, CrossCheckGeneration, world
    <2>2. Keeps(ns)'
      BY <1>1, <1>2, <1>3, <1>10 DEF Intact, Keeps, KeepsShown, KeepsDecided,
         KeepsSubmitted
    <2> QED
      BY <2>1, <2>2 DEF Intact
  <1>11. ASSUME NEW ns, ns = new PROVE Intact(ns)'
    <2>1. Recoverable(ns)' /\ NotAhead(ns)'
      BY <1>1, <1>8, <1>9, <1>11 DEF Recoverable, NotAhead, Loadable,
         MirrorsAllowReconciliation, CrossCheckGeneration, world
    <2>2. KeepsShown(EffectiveDesired(ns))'
      <3>1. told' \subseteq told \cup {<<next.revision, content>>}
        BY <1>1
      <3>2. \A shown \in told :
                desired.revision > shown[1] \/ desired.revision = shown[1]
        BY <1>3 DEF Intact, Keeps, KeepsShown
      <3>3. told \subseteq Shown
        BY DEF ProtocolInv, RevocationInv, TypeInv, TypeOK
      <3>4. \A shown \in told : next.revision > shown[1]
        BY <1>2, <1>3, <1>5, <3>2, <3>3, BoundAssumption DEF Shown, Snapshot
      <3> QED
        BY <1>4, <1>5, <1>7, <1>11, <3>1, <3>4 DEF KeepsShown
    <2>3. KeepsDecided(EffectiveApplied(ns))'
      BY <1>1, <1>3, <1>7, <1>11 DEF Intact, Keeps, KeepsDecided
    <2>4. KeepsSubmitted(EffectiveDesired(ns))'
      BY <1>1, <1>4, <1>5, <1>7, <1>11 DEF KeepsSubmitted
    <2> QED
      BY <2>1, <2>2, <2>3, <2>4 DEF Intact, Keeps
  <1>12. \A ns \in survivors' :
             ns = new \/ (outcome # "success" /\ ns = disk)
    <2>1. /\ outcome = "success" => survivors' = {new}
          /\ outcome = "notPublished" => survivors' = {disk}
          /\ outcome = "notDurable" => survivors' = {disk, new}
      BY <1>1, <1>3, SyncedWrite DEF StoreFile, new
    <2> QED
      BY <2>1 DEF Outcome
  <1>13. \A ns \in survivors' : Intact(ns)'
    BY <1>10, <1>11, <1>12
  <1>14. ServedIsOnDisk'
    <2>1. CASE outcome = "success"
      <3>1. disk' = new
        BY <1>1, <2>1, WriteEffect DEF StoreFile, new
      <3> QED
        BY <1>1, <1>3, <1>6, <2>1, <3>1 DEF ServedIsOnDisk
    <2>2. CASE outcome = "notPublished"
      <3>1. disk' = disk
        BY <1>1, <2>2, WriteEffect DEF StoreFile
      <3> QED
        BY <1>1, <1>3, <2>2, <3>1 DEF ServedIsOnDisk
    <2>3. CASE outcome = "notDurable"
      BY <1>1, <2>3 DEF ServedIsOnDisk, Available
    <2> QED
      BY <2>1, <2>2, <2>3 DEF Outcome
  <1> QED
    BY <1>13, <1>14 DEF Durable

\* The commit decision replaces what the next start serves by a later
\* transaction, whose mirrors are still to be written.
LEMMA DecideDurable ==
    ASSUME ProtocolInv, Durable, NEW outcome \in Outcome, CommitApply(outcome)
    PROVE  Durable'
  <1> DEFINE committing == [pending EXCEPT !.phase = "Committing"]
             new == [disk EXCEPT !["Pending"] = committing]
  <1>1. /\ Available /\ pending # None
        /\ UNCHANGED <<world, desired, applied, told>>
    BY DEF CommitApply
  <1>2. /\ IsNamespace(disk) /\ survivors = {disk} /\ Intact(disk)
        /\ ~Deciding(disk) /\ disk["Pending"] = pending /\ pending # Missing
        /\ EffectiveDesired(disk) = desired /\ Parses(desired)
        /\ EffectiveApplied(disk) = disk["Activation"]
        /\ disk["Desired"] = desired /\ desired \in Snapshot
        /\ pending \in PendingRecord /\ pending.phase = "Prepared"
        /\ pending.beforeDesired = desired /\ pending.before = applied
        /\ JournalSound(pending)
    BY <1>1, ServingFacts
  <1>3. /\ disk["Activation"] = IF applied = None THEN Missing ELSE applied
        /\ disk["LastGood"] = IF applied = None THEN Missing
                              ELSE applied.snapshot
    BY <1>1, ServingFacts
  <1>4. applied # None => applied \in AppliedRecord
    BY <1>1, ServingFacts
  <1>5. ASSUME \A ns \in survivors' : Intact(ns), UNCHANGED <<decided, submitted>>
        PROVE  \A ns \in survivors' : Intact(ns)'
    BY <1>1, <1>5, IntactStable DEF world
  <1>6. CASE ~CrossCheckGeneration(pending.after) \/ outcome = "notPublished"
    <2>1. UNCHANGED <<store, process, decided, submitted>>
      <3>1. CASE ~CrossCheckGeneration(pending.after)
        BY <3>1 DEF CommitApply
      <3>2. CASE CrossCheckGeneration(pending.after) /\ outcome = "notPublished"
        BY <3>2 DEF CommitApply, Write
      <3> QED
        BY <1>6, <3>1, <3>2
    <2>2. \A ns \in survivors' : Intact(ns)'
      BY <1>2, <1>5, <2>1 DEF store
    <2>3. ServedIsOnDisk'
      BY <1>1, <1>2, <1>3, <2>1 DEF ServedIsOnDisk, store
    <2> QED
      BY <2>2, <2>3 DEF Durable
  <1>7. CASE CrossCheckGeneration(pending.after) /\ outcome # "notPublished"
    <2>1. /\ Write("Pending", committing, outcome)
          /\ failed' = (outcome = "notDurable")
          /\ process' = IF outcome = "success" THEN "commitVerify" ELSE process
          /\ decided' = IF outcome = "success"
                        THEN decided \cup {pending.after.nonce} ELSE decided
          /\ submitted' = IF PublishesDesired(pending) THEN None ELSE submitted
      BY <1>7 DEF CommitApply
    <2>2. /\ committing.after = pending.after
          /\ committing.phase = "Committing"
          /\ committing.beforeDesired = desired
          /\ committing.before = applied
      BY <1>2 DEF PendingRecord
    <2>3. committing # Missing
      <3>1. committing \in PendingRecord
        BY <1>2 DEF PendingRecord, PendingPhase
      <3> QED
        BY <3>1, SentinelAssumption
    <2> HIDE DEF committing
    <2>4. /\ new["Pending"] = committing
          /\ new["Desired"] = desired
          /\ new["LastGood"] = disk["LastGood"]
          /\ new["Activation"] = disk["Activation"]
      BY <1>2, ReplacedFile DEF StoreFile
    <2> HIDE DEF new
    <2>5. /\ pending.after \in AppliedRecord
          /\ pending.after.snapshot \in Snapshot
          /\ pending.after.nonce \in Nonce
          /\ Parses(pending.after) /\ Parses(pending.after.snapshot)
          /\ applied # None => applied # Missing /\ applied # pending.after
      <3>1. /\ pending.after \in AppliedRecord
            /\ pending.after.snapshot \in Snapshot
            /\ pending.after.nonce \in Nonce
        BY <1>2 DEF PendingRecord, AppliedRecord
      <3>2. applied # None => applied.nonce < pending.after.nonce
        BY <1>2 DEF JournalSound
      <3>3. applied # None => applied.nonce \in Nat
        BY <1>4 DEF AppliedRecord, Nonce
      <3> QED
        BY <1>4, <3>1, <3>2, <3>3, SentinelAssumption DEF Parses
    <2>6. /\ Deciding(new)
          /\ EffectiveDesired(new) = pending.after.snapshot
          /\ EffectiveApplied(new) = pending.after
      BY <2>2, <2>3, <2>4 DEF Deciding, EffectiveDesired, EffectiveApplied
    <2>7. /\ ~ReadOnly(pending.after.snapshot)
          /\ \/ pending.after.snapshot = desired
             \/ /\ pending.after.snapshot.revision = desired.revision + 1
                /\ PublishesDesired(pending)
      BY <1>2 DEF JournalSound, PublishesDesired, PendingRecord, PendingKind
    <2>8. NotAhead(new)
      BY <1>2, <2>2, <2>4, <2>6 DEF Intact, NotAhead
    <2>9. Recoverable(new)
      <3>1. ~ActivationIsAfter(new, committing)
        BY <1>3, <2>2, <2>4, <2>5 DEF ActivationIsAfter, Parses
      <3>2. LastGoodIsAfter(new, committing) => DesiredIsAfter(new, committing)
        <4> HAVE LastGoodIsAfter(new, committing)
        <4>1. applied # None /\ applied.snapshot = pending.after.snapshot
          BY <1>3, <2>2, <2>4, <2>5 DEF LastGoodIsAfter, Parses
        <4>2. applied.snapshot.revision <= desired.revision
          BY <1>2, <4>1 DEF Intact, NotAhead
        <4>3. pending.after.snapshot = desired
          BY <1>2, <2>7, <4>1, <4>2, BoundAssumption DEF Snapshot
        <4> QED
          BY <2>2, <2>4, <4>3 DEF DesiredIsAfter
      <3>3. MirrorsAllowReconciliation(new, committing)
        BY <1>3, <1>7, <2>2, <2>4, <3>1, <3>2
        DEF MirrorsAllowReconciliation, CrossCheckGeneration, DesiredIsBefore,
            ActivationIsBefore, LastGoodIsBefore
      <3> QED
        BY <2>2, <2>3, <2>4, <3>3 DEF Recoverable
    <2>10. KeepsShown(pending.after.snapshot)
      <3>1. KeepsShown(desired)
        BY <1>2 DEF Intact, Keeps
      <3>2. told \subseteq Shown
        BY DEF ProtocolInv, RevocationInv, TypeInv, TypeOK
      <3>3. \A shown \in told : shown[1] \in Nat
        BY <3>2, BoundAssumption DEF Shown
      <3>4. desired.revision \in Nat
        BY <1>2, BoundAssumption DEF Snapshot
      <3> QED
        BY <2>5, <2>7, <3>1, <3>3, <3>4 DEF KeepsShown
    <2>11. \A n \in decided \cup {pending.after.nonce} : pending.after.nonce >= n
      <3>1. KeepsDecided(disk["Activation"])
        BY <1>2 DEF Intact, Keeps
      <3>2. decided \subseteq Nonce
        BY DEF ProtocolInv, RevocationInv, TypeInv, TypeOK
      <3>3. ASSUME NEW n \in decided PROVE pending.after.nonce >= n
        <4>1. applied # None /\ applied.nonce >= n
          BY <1>3, <3>1 DEF KeepsDecided, Parses
        <4>2. applied.nonce < pending.after.nonce
          BY <1>2, <4>1 DEF JournalSound
        <4>3. applied.nonce \in Nat /\ n \in Nat /\ pending.after.nonce \in Nat
          BY <1>4, <2>5, <3>2, <4>1 DEF AppliedRecord, Nonce
        <4> QED
          BY <4>1, <4>2, <4>3
      <3> QED
        BY <2>5, <3>3 DEF Nonce
    <2>12. ASSUME NEW ns, ns = new PROVE Intact(ns)'
      <3>1. Recoverable(ns)' /\ NotAhead(ns)'
        BY <1>1, <2>8, <2>9, <2>12 DEF Recoverable, NotAhead, Loadable,
           MirrorsAllowReconciliation, CrossCheckGeneration, world
      <3>2. KeepsShown(EffectiveDesired(ns))'
        BY <1>1, <2>6, <2>10, <2>12 DEF KeepsShown
      <3>3. KeepsDecided(EffectiveApplied(ns))'
        BY <2>1, <2>5, <2>6, <2>11, <2>12 DEF KeepsDecided
      <3>4. KeepsSubmitted(EffectiveDesired(ns))'
        BY <1>2, <2>1, <2>6, <2>7, <2>12 DEF Intact, Keeps, KeepsSubmitted
      <3> QED
        BY <3>1, <3>2, <3>3, <3>4 DEF Intact, Keeps
    <2>13. ASSUME NEW ns, ns = disk, outcome = "notDurable" PROVE Intact(ns)'
      <3>1. Recoverable(ns)' /\ NotAhead(ns)'
        BY <1>1, <1>2, <2>13 DEF Intact, Recoverable, NotAhead, Loadable,
           MirrorsAllowReconciliation, CrossCheckGeneration, world
      <3>2. Keeps(ns)'
        BY <1>1, <1>2, <2>1, <2>13 DEF Intact, Keeps, KeepsShown, KeepsDecided,
           KeepsSubmitted
      <3> QED
        BY <3>1, <3>2 DEF Intact
    <2>14. /\ outcome = "success" => survivors' = {new}
           /\ outcome = "notDurable" => survivors' = {disk, new}
      BY <1>2, <2>1, SyncedWrite DEF StoreFile, new
    <2>15. \A ns \in survivors' : Intact(ns)'
      BY <1>7, <2>12, <2>13, <2>14 DEF Outcome
    <2>16. ~Available'
      BY <1>7, <2>1 DEF Available, Outcome
    <2> QED
      BY <2>15, <2>16 DEF Durable, ServedIsOnDisk
  <1> QED
    BY <1>6, <1>7

\* abortApply removes a journal that was not decided.
LEMMA AbortDurable ==
    ASSUME ProtocolInv, Durable, NEW outcome \in Outcome, AbortApply(outcome)
    PROVE  Durable'
  <1>1. /\ Available /\ pending # None
        /\ UNCHANGED <<world, desired, applied, told, decided, submitted>>
    BY DEF AbortApply
  <1>2. /\ IsNamespace(disk) /\ survivors = {disk} /\ Intact(disk)
        /\ JournalsSound(disk) /\ ~Deciding(disk)
        /\ disk["Pending"] = pending /\ pending # Missing
        /\ disk["Desired"] = desired
        /\ disk["Activation"] = IF applied = None THEN Missing ELSE applied
        /\ disk["LastGood"] = IF applied = None THEN Missing
                              ELSE applied.snapshot
    BY <1>1, ServingFacts
  <1>3. Intact([disk EXCEPT !["Pending"] = Missing])
    BY <1>2, JournalRemoved DEF Intact, Keeps
  <1>4. UNCHANGED store \/ Write("Pending", Missing, outcome)
    BY DEF AbortApply, Remove
  <1>5. \A ns \in survivors' : Intact(ns)
    BY <1>2, <1>3, <1>4, WriteIntact DEF store, StoreFile
  <1>6. \A ns \in survivors' : Intact(ns)'
    BY <1>1, <1>5, IntactStable DEF world
  <1>7. ServedIsOnDisk'
    <2>1. disk' = disk \/ disk' = [disk EXCEPT !["Pending"] = Missing]
      BY <1>4, WriteEffect DEF store, StoreFile
    <2>2. \A file \in StoreFile \ {"Pending"} : disk'[file] = disk[file]
      BY <1>2, <2>1, ReplacedFile DEF StoreFile
    <2> QED
      BY <1>1, <1>2, <2>2 DEF ServedIsOnDisk, StoreFile
  <1> QED
    BY <1>6, <1>7 DEF Durable

\* Calls of the service.
LEMMA CallDurable ==
    ASSUME ProtocolInv, Durable, NEW outcome \in Outcome, Call(outcome)
    PROVE  Durable'
  <1>1. CASE PrepareApply(outcome)
    BY <1>1, StageDurable DEF PrepareApply, PendingKind
  <1>2. CASE PrepareRecovery(outcome)
    BY <1>2, StageDurable DEF PrepareRecovery, PendingKind
  <1>3. ASSUME NEW content \in Content, PrepareDisplayApply(content, outcome)
        PROVE  Durable'
    BY <1>3, StageDurable DEF PrepareDisplayApply, PendingKind
  <1> QED
    BY <1>1, <1>2, <1>3, ReplaceDurable, DecideDurable, AbortDurable DEF Call

\* The mirrors of a decided transaction, written one by one.
LEMMA CommitDurable ==
    ASSUME ProtocolInv, Durable, NEW outcome \in Outcome,
           CommitVerify \/ Commit(outcome)
    PROVE  Durable'
  <1>a. StoreFile = {"Desired", "LastGood", "Activation", "Pending"}
    BY DEF StoreFile
  <1>0. process \in Committing
    BY DEF CommitVerify, Commit, CommitDesired, CommitLastGood,
           CommitActivation, CommitWrite, CommitRemove, Committing
  <1>1. pending \in PendingRecord /\ pending # Missing
    <2>1. pending \in PendingRecord
      BY <1>0 DEF ProtocolInv, RevocationInv, TypeInv, ProcessOK, Committing
    <2> QED
      BY <2>1, SentinelAssumption
  <1>2. /\ survivors = {disk} /\ Intact(disk) /\ JournalsSound(disk)
        /\ IsNamespace(disk) /\ disk["Pending"] = pending /\ Deciding(disk)
        /\ pending # None => pending.beforeDesired = desired
    BY <1>0, <1>1 DEF ProtocolInv, Synced, JournalInMemory, Serving, Deciding,
       Durable, RevocationInv, TypeInv, TypeOK
  <1>3. /\ EffectiveDesired(disk) = pending.after.snapshot
        /\ EffectiveApplied(disk) = pending.after
    BY <1>2 DEF EffectiveDesired, EffectiveApplied
  <1>4. ASSUME ~Available', \A ns \in survivors' : Intact(ns),
               UNCHANGED <<generations, told, decided, submitted>>
        PROVE  Durable'
    BY <1>4, IntactStable DEF Durable, ServedIsOnDisk
  <1>5. DurableFailure => /\ ~Available'
                          /\ UNCHANGED <<generations, told, decided, submitted>>
    BY DEF DurableFailure, Available, world, history
  <1>6. CASE CommitVerify
    <2>1. /\ ~Available' /\ UNCHANGED <<generations, told, decided, submitted>>
          /\ UNCHANGED store
      BY <1>5, <1>6 DEF CommitVerify, Available, world, history
    <2> QED
      BY <1>2, <1>4, <2>1 DEF store
  <1>7. ASSUME CommitDesired(outcome) \/ CommitLastGood(outcome)
                   \/ CommitActivation(outcome)
        PROVE  Durable'
    <2>1. PICK file \in {"Desired", "LastGood", "Activation"},
               bytes \in {pending.after.snapshot, pending.after} :
            /\ Write(file, bytes, outcome)
            /\ ~Available' /\ UNCHANGED <<generations, told, decided, submitted>>
            /\ \/ file = "Desired" /\ bytes = pending.after.snapshot
               \/ /\ file = "LastGood" /\ bytes = pending.after.snapshot
                  /\ disk["Desired"] = pending.after.snapshot
               \/ /\ file = "Activation" /\ bytes = pending.after
                  /\ disk["Desired"] = pending.after.snapshot
                  /\ disk["LastGood"] = pending.after.snapshot
      BY <1>5, <1>7 DEF CommitDesired, CommitLastGood, CommitActivation,
         CommitWrite, ProtocolInv, MirrorsInOrder, Available, world, history
    <2>2. Intact([disk EXCEPT ![file] = bytes])
      BY <1>2, <1>a, <2>1, MirrorWritten DEF Intact, Keeps
    <2>3. \A ns \in survivors' : Intact(ns)
      BY <1>2, <1>a, <2>1, <2>2, WriteIntact
    <2> QED
      BY <1>4, <2>1, <2>3
  <1>8. CASE CommitRemove(outcome)
    <2>1. Write("Pending", Missing, outcome) /\ process = "commitRemove"
      BY <1>8 DEF CommitRemove, Remove
    <2>2. /\ disk["Desired"] = pending.after.snapshot
          /\ disk["LastGood"] = pending.after.snapshot
          /\ disk["Activation"] = pending.after
      BY <2>1 DEF ProtocolInv, MirrorsInOrder
    <2>3. Intact([disk EXCEPT !["Pending"] = Missing])
      BY <1>1, <1>2, <2>2, JournalRemoved DEF Intact, Keeps
    <2>4. \A ns \in survivors' : Intact(ns)
      BY <1>2, <1>a, <2>1, <2>3, WriteIntact
    <2>5. CASE outcome # "success"
      BY <1>4, <1>5, <1>8, <2>4, <2>5 DEF CommitRemove
    <2>6. CASE outcome = "success"
      <3>1. /\ UNCHANGED <<world, decided, submitted>>
            /\ desired' = IF PublishesDesired(pending)
                          THEN pending.after.snapshot ELSE desired
            /\ applied' = pending.after
            /\ told' = told \cup {<<desired'.revision, desired'.content>>}
        BY <1>8, <2>6 DEF CommitRemove
      <3>2. /\ pending # None
            /\ pending.after \in AppliedRecord /\ pending.after # None
            /\ pending.kind \in PendingKind
        BY <1>1, SentinelAssumption DEF PendingRecord
      <3>3. desired' = pending.after.snapshot
        BY <1>1, <1>2, <3>1, <3>2
        DEF PublishesDesired, PendingKind, JournalsSound, JournalSound
      <3>4. /\ disk' = [disk EXCEPT !["Pending"] = Missing]
            /\ survivors' = {disk'}
        BY <1>a, <2>1, <2>6, WriteEffect
      <3>5. /\ disk'["Pending"] = Missing
            /\ disk'["Desired"] = pending.after.snapshot
            /\ disk'["LastGood"] = pending.after.snapshot
            /\ disk'["Activation"] = pending.after
        BY <1>2, <1>a, <2>2, <3>4, ReplacedFile
      <3>6. ServedIsOnDisk'
        BY <3>1, <3>2, <3>3, <3>5 DEF ServedIsOnDisk
      <3>7. ASSUME NEW ns \in survivors' PROVE Intact(ns)'
        <4>1. /\ Intact(ns) /\ EffectiveDesired(ns) = pending.after.snapshot
              /\ Parses(pending.after.snapshot)
          BY <1>1, <1>2, <2>4, <3>4, <3>5, JournalType
          DEF EffectiveDesired, Deciding
        <4>2. Recoverable(ns)' /\ NotAhead(ns)'
          BY <3>1, <4>1 DEF Intact, Recoverable, NotAhead, Loadable,
             MirrorsAllowReconciliation, CrossCheckGeneration, world
        <4>3. KeepsShown(EffectiveDesired(ns))'
          <5>1. KeepsShown(EffectiveDesired(ns))
            BY <4>1 DEF Intact, Keeps
          <5> QED
            BY <3>1, <3>3, <4>1, <5>1 DEF KeepsShown
        <4>4. /\ KeepsDecided(EffectiveApplied(ns))'
              /\ KeepsSubmitted(EffectiveDesired(ns))'
          BY <3>1, <4>1 DEF Intact, Keeps, KeepsDecided, KeepsSubmitted
        <4> QED
          BY <4>2, <4>3, <4>4 DEF Intact, Keeps
      <3> QED
        BY <3>6, <3>7 DEF Durable
    <2> QED
      BY <2>5, <2>6
  <1> QED
    BY <1>6, <1>7, <1>8 DEF Commit

\* Crashes and power losses reveal one of the intact namespaces.
LEMMA CrashDurable ==
    ASSUME ProtocolInv, Durable, Crash \/ PowerLoss \/ UNCHANGED vars
    PROVE  Durable'
  <1>1. /\ \A ns \in survivors' : ns \in survivors
        /\ UNCHANGED <<generations, told, decided, submitted>>
    BY DEF Crash, PowerLoss, LoseUnsynced, vars, store, world, history,
           ProtocolInv, RevocationInv
  <1>2. \A ns \in survivors' : Intact(ns)'
    BY <1>1, IntactStable DEF Durable
  <1>3. ServedIsOnDisk'
    BY DEF Crash, PowerLoss, vars, store, memory, Durable, ServedIsOnDisk,
           Available
  <1> QED
    BY <1>2, <1>3 DEF Durable

\* Every step of the authority keeps the invariant; after the first damage it
\* promises nothing.
LEMMA NextDurabilityInv == DurabilityInv /\ [Next]_vars => DurabilityInv'
  <1> SUFFICES ASSUME DurabilityInv, [Next]_vars PROVE DurabilityInv'
    OBVIOUS
  <1>0. ProtocolInv /\ ProtocolInv'
    BY NextProtocolInv DEF DurabilityInv
  <1>1. SUFFICES ASSUME damage' = 0 PROVE Durable'
    BY <1>0 DEF DurabilityInv
  <1>2. damage \in Nat
    BY <1>0 DEF ProtocolInv, RevocationInv, TypeInv, TypeOK
  <1>3. CASE \/ \E file \in {"Desired", "LastGood", "Activation"} : Damage(file)
             \/ \E record \in generations : DamageGeneration(record)
    BY <1>1, <1>2, <1>3 DEF Damage, DamageGeneration
  <1>4. ASSUME damage = 0 PROVE Durable
    BY <1>4 DEF DurabilityInv
  <1>5. CASE Initialize \/ ReconcileNothing \/ ReconcileRefused
             \/ ReconcileCommitting \/ LoadRefused
    <2>1. damage' = damage
      BY <1>5 DEF Initialize, ReconcileNothing, ReconcileRefused,
         ReconcileCommitting, LoadRefused, StartupFails, world
    <2> QED
      BY <1>0, <1>1, <1>4, <1>5, <2>1, StartupDurable DEF Outcome
  <1>6. CASE CommitVerify
    <2>1. damage' = damage
      BY <1>6 DEF CommitVerify, DurableFailure, world
    <2> QED
      BY <1>0, <1>1, <1>4, <1>6, <2>1, CommitDurable DEF Outcome
  <1>7. ASSUME NEW outcome \in Outcome,
               Startup(outcome) \/ Call(outcome) \/ Commit(outcome)
        PROVE  Durable'
    <2>1. CASE Startup(outcome)
      <3>1. damage' = damage
        BY <2>1 DEF Startup, ReconcilePrepared, RollForwardDesired,
           RollForwardLastGood, RollForwardActivation, RollForwardRemove,
           RollForward, LoadSnapshots, StartupFails, world
      <3> QED
        BY <1>0, <1>1, <1>4, <2>1, <3>1, StartupDurable
    <2>2. CASE Call(outcome)
      <3>1. damage' = damage
        BY <2>2 DEF Call, ReplaceSnapshot, PrepareApply, PrepareRecovery,
           PrepareDisplayApply, StageCandidate, CommitApply, AbortApply, world
      <3> QED
        BY <1>0, <1>1, <1>4, <2>2, <3>1, CallDurable
    <2>3. CASE Commit(outcome)
      <3>1. damage' = damage
        BY <2>3 DEF Commit, CommitDesired, CommitLastGood, CommitActivation,
           CommitWrite, CommitRemove, DurableFailure, world
      <3> QED
        BY <1>0, <1>1, <1>4, <2>3, <3>1, CommitDurable
    <2> QED
      BY <1>7, <2>1, <2>2, <2>3
  <1>8. CASE Crash \/ PowerLoss \/ UNCHANGED vars
    <2>1. damage' = damage
      BY <1>8 DEF Crash, PowerLoss, vars, world
    <2> QED
      BY <1>0, <1>1, <1>4, <1>8, <2>1, CrashDurable
  <1> QED
    BY <1>3, <1>5, <1>6, <1>7, <1>8 DEF Next

-----------------------------------------------------------------------------
(* What the invariant gives *)

\* The invariant holds of every behaviour of the authority.
LEMMA AlwaysDurable == Spec => []DurabilityInv
  BY InitDurabilityInv, NextDurabilityInv, PTL DEF Spec

\* Until something other than the authority damages its files, what a client
\* is answered from memory is what every restart would read (replaceSnapshot,
\* stageCandidate, commitApply and abortApply, on each of their error paths).
THEOREM ServedIsDurable == Spec => [](damage = 0 => ServedStateIsDurable)
  <1>1. DurabilityInv => (damage = 0 => ServedStateIsDurable)
    BY ServingFacts DEF DurabilityInv, ServedStateIsDurable
  <1> QED
    BY <1>1, AlwaysDurable, PTL

\* Until then, reconcilePending and loadSnapshots refuse no namespace that a
\* crash or a power loss leaves.
THEOREM CrashesRecoverable == Spec => [](damage = 0 => CrashStatesRecoverable)
  <1>1. DurabilityInv => (damage = 0 => CrashStatesRecoverable)
    BY DEF DurabilityInv, Durable, Intact, Recoverable, CrashStatesRecoverable
  <1> QED
    BY <1>1, AlwaysDurable, PTL

\* Until then, no revision a client was shown is given to other content, and
\* none is forgotten (replaceSnapshot, commitApply, and loadSnapshots on ABA).
THEOREM RevisionsNeverReused ==
    Spec => [](damage = 0 => ShownRevisionNeverReused)
  <1>1. DurabilityInv => (damage = 0 => ShownRevisionNeverReused)
    BY DEF DurabilityInv, Durable, Intact, Keeps, KeepsShown,
           ShownRevisionNeverReused
  <1> QED
    BY <1>1, AlwaysDurable, PTL

\* Until then, a transaction whose commit decision was durable is what every
\* start serves as applied, or a later one is (commitApply, reconcilePending).
THEOREM DecisionsNeverLost == Spec => [](damage = 0 => DecidedNeverLost)
  <1>1. DurabilityInv => (damage = 0 => DecidedNeverLost)
    BY DEF DurabilityInv, Durable, Intact, Keeps, KeepsDecided,
           DecidedNeverLost
  <1> QED
    BY <1>1, AlwaysDurable, PTL

\* Until then, a Replace that is repeated because its answer was lost is never
\* called stale while nothing else moved the revision (possibleRetry of
\* replaceSnapshot).
THEOREM RetriesNeverStale == Spec => [](damage = 0 => RetryNeverStale)
  <1>1. DurabilityInv => (damage = 0 => RetryNeverStale)
    <2> SUFFICES ASSUME DurabilityInv, damage = 0, Available, submitted # None
                 PROVE  ReplaceOutcome(submitted.expected, submitted.content)
                            # "StaleRevision"
      BY DEF RetryNeverStale
    <2>1. ProtocolInv /\ Durable
      BY DEF DurabilityInv
    <2>2. /\ Intact(disk) /\ EffectiveDesired(disk) = desired
          /\ desired \in Snapshot
      BY <2>1, ServingFacts
    <2>3. \/ desired.revision = submitted.expected
          \/ /\ desired.revision = submitted.expected + 1
             /\ desired.content = submitted.content
      BY <2>2 DEF Intact, Keeps, KeepsSubmitted
    <2>4. desired.revision \in Int /\ submitted.expected \in Int
      BY <2>1, <2>2, BoundAssumption
      DEF Snapshot, ProtocolInv, RevocationInv, TypeInv, TypeOK
    <2> QED
      BY <2>3, <2>4 DEF ReplaceOutcome
  <1> QED
    BY <1>1, AlwaysDurable, PTL

-----------------------------------------------------------------------------
(***************************************************************************)
(* The compositor configuration authority implements RevisionedAuthority:  *)
(* through the journal, several writes into several files are one change   *)
(* of an abstract value, however many crashes, power losses and failing    *)
(* store operations there are.  Every store operation maps to one abstract *)
(* step, or to none.                                                       *)
(***************************************************************************)

\* A write into a synced directory changes the abstract value at once, or
\* leaves it to a power loss to decide, or does nothing.
LEMMA WriteChanges ==
    ASSUME survivors = {disk}, NEW file \in StoreFile, NEW bytes,
           NEW outcome \in Outcome, Write(file, bytes, outcome)
    PROVE  LET new == [disk EXCEPT ![file] = bytes] IN
           \/ Authority!Change(ValueOf(new))
           \/ UNCHANGED Authority!vars
  <1> DEFINE new == [disk EXCEPT ![file] = bytes]
  <1>1. /\ outcome = "success" => disk' = new /\ survivors' = {new}
        /\ outcome = "notPublished" => disk' = disk /\ survivors' = {disk}
        /\ outcome = "notDurable" => disk' = new /\ survivors' = {disk, new}
    BY SyncedWrite
  <1> HIDE DEF new
  <1>2. CASE outcome = "success"
    BY <1>1, <1>2 DEF Authority!Change, new
  <1>3. CASE outcome = "notPublished"
    BY <1>1, <1>3 DEF Authority!vars
  <1>4. CASE outcome = "notDurable"
    BY <1>1, <1>4 DEF Authority!Change, new
  <1> QED
    BY <1>2, <1>3, <1>4 DEF Outcome, new

\* A write that leaves the value of the namespace alone is invisible.
LEMMA WriteInvisible ==
    ASSUME survivors = {disk}, NEW file \in StoreFile, NEW bytes,
           NEW outcome \in Outcome, Write(file, bytes, outcome),
           ValueOf([disk EXCEPT ![file] = bytes]) = ValueOf(disk)
    PROVE  UNCHANGED Authority!vars
  <1> DEFINE new == [disk EXCEPT ![file] = bytes]
  <1>1. /\ outcome = "success" => disk' = new /\ survivors' = {new}
        /\ outcome = "notPublished" => disk' = disk /\ survivors' = {disk}
        /\ outcome = "notDurable" => disk' = new /\ survivors' = {disk, new}
    BY SyncedWrite
  <1>2. ValueOf(new) = ValueOf(disk)
    OBVIOUS
  <1> HIDE DEF new
  <1>3. ValueOf(disk') = ValueOf(disk)
    BY <1>1, <1>2 DEF Outcome
  <1>4. {ValueOf(ns) : ns \in survivors'} = {ValueOf(ns) : ns \in survivors}
    <2>1. CASE outcome = "success"
      BY <1>1, <1>2, <2>1
    <2>2. CASE outcome = "notPublished"
      BY <1>1, <2>2
    <2>3. CASE outcome = "notDurable"
      BY <1>1, <1>2, <2>3
    <2> QED
      BY <2>1, <2>2, <2>3 DEF Outcome
  <1> QED
    BY <1>3, <1>4 DEF Authority!vars

\* What clients see of snapshots and transactions has the abstract types, and
\* is never taken for an absent one.
LEMMA VersionType ==
    ASSUME NEW snapshot \in Snapshot
    PROVE  /\ VersionOf(snapshot) \in Authority!Version
           /\ VersionOf(snapshot) # None
           /\ VersionOf(snapshot).revision = snapshot.revision
           /\ VersionOf(snapshot).content = snapshot.content
  <1>1. snapshot # Missing
    BY SentinelAssumption
  <1>2. VersionOf(snapshot) \in Authority!Version
    BY <1>1 DEF VersionOf, Authority!Version, Snapshot
  <1> QED
    BY <1>1, <1>2, EmptyAssumption DEF VersionOf

LEMMA TransactionType ==
    ASSUME NEW record \in AppliedRecord
    PROVE  /\ TransactionOf(record) = [version |-> VersionOf(record.snapshot),
                                       nonce |-> record.nonce]
           /\ TransactionOf(record) # None
  <1>1. record # Missing
    BY SentinelAssumption
  <1>2. record.snapshot \in Snapshot /\ record.nonce \in 1..MaxNonce
    BY DEF AppliedRecord, Nonce
  <1>3. TransactionOf(record) = [version |-> VersionOf(record.snapshot),
                                 nonce |-> record.nonce]
    BY <1>1 DEF TransactionOf
  <1>4. TransactionOf(record) \in Authority!Transaction
    BY <1>2, <1>3, VersionType DEF Authority!Transaction
  <1> QED
    BY <1>3, <1>4, EmptyAssumption

\* Two namespaces that the next start reads alike have one value.
LEMMA SameValue ==
    ASSUME NEW ns, NEW new,
           EffectiveDesired(new) = EffectiveDesired(ns),
           EffectiveApplied(new) = EffectiveApplied(ns),
           Deciding(ns), new["Pending"] = Missing \/ Deciding(new)
    PROVE  ValueOf(new) = ValueOf(ns)
  BY DEF ValueOf

\* Until it is decided, a journal is all a namespace adds to the value of its
\* mirrors.
LEMMA UndecidedValue ==
    ASSUME NEW ns, ~Deciding(ns)
    PROVE  ValueOf(ns) =
               [desired |-> VersionOf(ns["Desired"]),
                applied |-> TransactionOf(ns["Activation"]),
                prepared |-> IF ns["Pending"] = Missing THEN None
                             ELSE TransactionOf(ns["Pending"].after)]
  BY DEF ValueOf, EffectiveDesired, EffectiveApplied

\* Removing a journal that was not decided abandons its transaction.
LEMMA RemovedJournalAbandons ==
    ASSUME IsNamespace(disk), ~Deciding(disk), disk["Pending"] # Missing,
           survivors = {disk}, NEW outcome \in Outcome,
           Write("Pending", Missing, outcome)
    PROVE  Authority!Next \/ UNCHANGED Authority!vars
  <1> DEFINE new == [disk EXCEPT !["Pending"] = Missing]
  <1>1. Authority!Change(ValueOf(new)) \/ UNCHANGED Authority!vars
    BY WriteChanges DEF StoreFile
  <1>2. /\ new["Pending"] = Missing
        /\ new["Desired"] = disk["Desired"]
        /\ new["Activation"] = disk["Activation"]
    BY ReplacedFile DEF StoreFile
  <1> HIDE DEF new
  <1>3. ValueOf(new) = [desired |-> VersionOf(disk["Desired"]),
                        applied |-> TransactionOf(disk["Activation"]),
                        prepared |-> None]
    BY <1>2, UndecidedValue DEF Deciding
  <1>4. ValueOf(disk) = [desired |-> VersionOf(disk["Desired"]),
                         applied |-> TransactionOf(disk["Activation"]),
                         prepared |-> TransactionOf(disk["Pending"].after)]
    BY UndecidedValue
  <1>5. ValueOf(new) = [ValueOf(disk) EXCEPT !.prepared = None]
    BY <1>3, <1>4
  <1>6. ValueOf(disk).prepared # None
    BY <1>4, JournalType, TransactionType
  <1> QED
    BY <1>1, <1>5, <1>6 DEF Authority!Next, Authority!Abandon

\* A mirror of a decided transaction is invisible.
LEMMA MirrorValue ==
    ASSUME NEW ns, IsNamespace(ns), Deciding(ns), Recoverable(ns), NotAhead(ns),
           JournalsSound(ns), NEW file \in StoreFile \ {"Pending"}, NEW bytes,
           LET after == ns["Pending"].after IN
           \/ file = "Desired" /\ bytes = after.snapshot
           \/ /\ file = "LastGood" /\ bytes = after.snapshot
              /\ ns["Desired"] = after.snapshot
           \/ /\ file = "Activation" /\ bytes = after
              /\ ns["Desired"] = after.snapshot
              /\ ns["LastGood"] = after.snapshot
    PROVE  ValueOf([ns EXCEPT ![file] = bytes]) = ValueOf(ns)
  <1> DEFINE new == [ns EXCEPT ![file] = bytes]
  <1>1. /\ EffectiveDesired(new) = EffectiveDesired(ns)
        /\ EffectiveApplied(new) = EffectiveApplied(ns)
    BY MirrorWritten
  <1>2. new["Pending"] = ns["Pending"]
    BY ReplacedFile DEF StoreFile
  <1> HIDE DEF new
  <1>3. Deciding(new)
    BY <1>2 DEF Deciding
  <1>4. ValueOf(new) = ValueOf(ns)
    BY <1>1, <1>3, SameValue
  <1> QED
    BY <1>4 DEF new

\* So is the end of the journal, once every mirror is written.
LEMMA RetiredValue ==
    ASSUME NEW ns, IsNamespace(ns), Deciding(ns), Recoverable(ns), NotAhead(ns),
           JournalsSound(ns),
           ns["Desired"] = ns["Pending"].after.snapshot,
           ns["LastGood"] = ns["Pending"].after.snapshot,
           ns["Activation"] = ns["Pending"].after
    PROVE  ValueOf([ns EXCEPT !["Pending"] = Missing]) = ValueOf(ns)
  <1> DEFINE new == [ns EXCEPT !["Pending"] = Missing]
  <1>1. /\ EffectiveDesired(new) = EffectiveDesired(ns)
        /\ EffectiveApplied(new) = EffectiveApplied(ns)
    BY JournalRemoved DEF Deciding
  <1>2. new["Pending"] = Missing
    BY ReplacedFile DEF StoreFile
  <1> HIDE DEF new
  <1>3. ValueOf(new) = ValueOf(ns)
    BY <1>1, <1>2, SameValue
  <1> QED
    BY <1>3 DEF new

-----------------------------------------------------------------------------
(* The steps of the authority *)

\* The initial store is an initial value.
LEMMA InitRefines == Init => Authority!Init
  <1> SUFFICES ASSUME Init PROVE Authority!Init
    OBVIOUS
  <1>1. PICK d \in {Missing} \cup
                  [revision: {0}, content: Content, catalog: {"earlier"}] :
            disk = [f \in StoreFile |-> IF f = "Desired" THEN d ELSE Missing]
    BY DEF Init
  <1>2. /\ disk["Desired"] = d /\ disk["Activation"] = Missing
        /\ disk["Pending"] = Missing /\ survivors = {disk}
    BY <1>1 DEF StoreFile, Init
  <1>3. ValueOf(disk) = [desired |-> VersionOf(d), applied |-> None,
                         prepared |-> None]
    BY <1>2, UndecidedValue DEF Deciding, TransactionOf
  <1>4. VersionOf(d) \in {None} \cup [revision: {0}, content: Content]
    BY DEF VersionOf
  <1> QED
    BY <1>2, <1>3, <1>4 DEF Authority!Init

\* A start settles what a fault left, abandons what was not decided, and
\* stores the default on an empty store.
LEMMA StartupRefines ==
    ASSUME ProtocolInv, Durable, NEW outcome \in Outcome,
           \/ Initialize \/ ReconcileNothing \/ ReconcileRefused
           \/ ReconcileCommitting \/ LoadRefused \/ Startup(outcome)
    PROVE  Authority!Next \/ UNCHANGED Authority!vars
  <1>0. /\ disk \in survivors /\ IsNamespace(disk)
        /\ Intact(disk) /\ JournalsSound(disk)
    BY DEF ProtocolInv, RevocationInv, TypeInv, TypeOK, Durable
  <1>a. StoreFile = {"Desired", "LastGood", "Activation", "Pending"}
    BY DEF StoreFile
  <1>b. process \in {"reconcile", "load"} \cup Rolling => survivors = {disk}
    BY DEF ProtocolInv, RevocationInv, StartsClean
  <1>c. process \in Rolling =>
            disk["Pending"] = pending /\ Deciding(disk) /\ pending # Missing
    BY DEF ProtocolInv, RevocationInv, StartsClean, Deciding
  <1>1. CASE Initialize
    <2>1. /\ {ValueOf(ns) : ns \in survivors'} = {ValueOf(disk)}
          /\ ValueOf(disk') = ValueOf(disk)
      BY <1>1 DEF Initialize, SyncDirectory
    <2> QED
      BY <2>1 DEF Authority!Next, Authority!Settle
  <1>2. CASE ReconcileNothing \/ ReconcileRefused \/ ReconcileCommitting
             \/ LoadRefused
    BY <1>2 DEF ReconcileNothing, ReconcileRefused, ReconcileCommitting,
       LoadRefused, store, Authority!vars
  <1>3. CASE ReconcilePrepared(outcome)
    <2>1. /\ process = "reconcile" /\ Write("Pending", Missing, outcome)
          /\ disk["Pending"] # Missing /\ ~Deciding(disk)
      BY <1>3 DEF ReconcilePrepared, Remove, Deciding
    <2> QED
      BY <1>0, <1>b, <2>1, RemovedJournalAbandons
  <1>4. ASSUME RollForwardDesired(outcome) \/ RollForwardLastGood(outcome)
                   \/ RollForwardActivation(outcome)
        PROVE  UNCHANGED Authority!vars
    <2>1. PICK file \in {"Desired", "LastGood", "Activation"},
               bytes \in {pending.after.snapshot, pending.after} :
            /\ Write(file, bytes, outcome) /\ process \in Rolling
            /\ \/ file = "Desired" /\ bytes = pending.after.snapshot
               \/ /\ file = "LastGood" /\ bytes = pending.after.snapshot
                  /\ disk["Desired"] = pending.after.snapshot
               \/ /\ file = "Activation" /\ bytes = pending.after
                  /\ disk["Desired"] = pending.after.snapshot
                  /\ disk["LastGood"] = pending.after.snapshot
      BY <1>4 DEF RollForwardDesired, RollForwardLastGood,
         RollForwardActivation, RollForward, Rolling, ProtocolInv,
         MirrorsInOrder
    <2>2. ValueOf([disk EXCEPT ![file] = bytes]) = ValueOf(disk)
      BY <1>0, <1>c, <1>a, <2>1, MirrorValue DEF Intact
    <2> QED
      BY <1>a, <1>b, <2>1, <2>2, WriteInvisible
  <1>5. CASE RollForwardRemove(outcome)
    <2>1. Write("Pending", Missing, outcome) /\ process = "rollRemove"
      BY <1>5 DEF RollForwardRemove, RollForward
    <2>2. ValueOf([disk EXCEPT !["Pending"] = Missing]) = ValueOf(disk)
      BY <1>0, <1>c, <2>1, RetiredValue
      DEF Intact, ProtocolInv, MirrorsInOrder, Rolling
    <2> QED
      BY <1>a, <1>b, <2>1, <2>2, WriteInvisible DEF Rolling
  <1>6. CASE LoadSnapshots(outcome)
    <2>1. process = "load" /\ Loadable(disk)
      BY <1>6 DEF LoadSnapshots
    <2>2. disk["Pending"] = Missing /\ survivors = {disk}
      BY <2>1, LoadIntact
    <2>3. CASE LoadedDesired = disk["Desired"]
      BY <1>6, <2>3 DEF LoadSnapshots, store, Authority!vars
    <2>4. CASE LoadedDesired # disk["Desired"]
      <3> DEFINE new == [disk EXCEPT !["Desired"] = LoadedDesired]
      <3>1. Write("Desired", LoadedDesired, outcome)
        BY <1>6, <2>4 DEF LoadSnapshots
      <3>2. Authority!Change(ValueOf(new)) \/ UNCHANGED Authority!vars
        BY <1>a, <2>2, <3>1, WriteChanges
      <3>3. /\ new["Pending"] = Missing
            /\ new["Desired"] = LoadedDesired
            /\ new["Activation"] = disk["Activation"]
        BY <1>0, <1>a, <2>2, ReplacedFile
      <3> HIDE DEF new
      <3>4. ValueOf(new) = [desired |-> VersionOf(LoadedDesired),
                            applied |-> TransactionOf(disk["Activation"]),
                            prepared |-> None]
        BY <3>3, UndecidedValue DEF Deciding
      <3>5. ValueOf(disk) = [desired |-> VersionOf(disk["Desired"]),
                             applied |-> TransactionOf(disk["Activation"]),
                             prepared |-> None]
        BY <2>2, UndecidedValue DEF Deciding
      <3>6. CASE disk["Desired"] = Missing
        <4>1. VersionOf(LoadedDesired) =
                  [revision |-> 0, content |-> DefaultContent]
          <5>1. LoadedDesired = [revision |-> 0, content |-> DefaultContent,
                                 catalog |-> catalog]
            BY <3>6 DEF LoadedDesired
          <5>2. LoadedDesired \in Snapshot
            BY <2>1, LoadedDesiredType DEF ProtocolInv, RevocationInv
          <5> QED
            BY <5>1, <5>2, SentinelAssumption DEF VersionOf
        <4>2. ValueOf(disk).desired = None
          BY <3>5, <3>6 DEF VersionOf
        <4>3. ValueOf(new) = [ValueOf(disk) EXCEPT !.desired =
                                 [revision |-> 0, content |-> DefaultContent]]
          BY <3>4, <3>5, <4>1
        <4> QED
          BY <3>2, <4>2, <4>3 DEF Authority!Next, Authority!Default
      <3>7. CASE disk["Desired"] # Missing
        <4>1. VersionOf(LoadedDesired) = VersionOf(disk["Desired"])
          <5>1. /\ LoadedDesired \in Snapshot
                /\ LoadedDesired.revision = disk["Desired"].revision
                /\ LoadedDesired.content = disk["Desired"].content
            BY <2>1, <3>7, LoadedDesiredType DEF ProtocolInv, RevocationInv
          <5> QED
            BY <3>7, <5>1, SentinelAssumption DEF VersionOf
        <4>2. ValueOf(new) = ValueOf(disk)
          BY <3>4, <3>5, <4>1
        <4> QED
          BY <1>a, <2>2, <3>1, <4>2, WriteInvisible DEF new
      <3> QED
        BY <3>6, <3>7
    <2> QED
      BY <2>3, <2>4
  <1> QED
    BY <1>1, <1>2, <1>3, <1>4, <1>5, <1>6 DEF Startup

\* Staging a candidate prepares its transaction.
LEMMA StageRefines ==
    ASSUME ProtocolInv, Durable, Writable, NEW outcome \in Outcome,
           NEW kind \in PendingKind, NEW candidate \in Snapshot,
           \/ candidate = desired
           \/ candidate.revision = desired.revision + 1,
           StageCandidate(kind, candidate, outcome)
    PROVE  Authority!Next \/ UNCHANGED Authority!vars
  <1> DEFINE after == [snapshot |-> candidate, nonce |-> nonce + 1]
             record == [kind |-> kind, phase |-> "Prepared",
                        beforeDesired |-> desired, after |-> after,
                        before |-> applied]
             new == [disk EXCEPT !["Pending"] = record]
  <1>1. Write("Pending", record, outcome) /\ nonce < MaxNonce
    BY DEF StageCandidate
  <1>2. Available /\ pending = None
    BY DEF Writable
  <1>3. /\ IsNamespace(disk) /\ survivors = {disk} /\ ~Deciding(disk)
        /\ disk["Pending"] = Missing /\ disk["Desired"] = desired
        /\ disk["Activation"] = IF applied = None THEN Missing ELSE applied
        /\ desired \in Snapshot
    BY <1>2, ServingFacts
  <1>4. applied # None => applied \in AppliedRecord /\ applied # Missing
    BY <1>2, ServingFacts, SentinelAssumption
  <1>5. Authority!Change(ValueOf(new)) \/ UNCHANGED Authority!vars
    BY <1>1, <1>3, WriteChanges DEF StoreFile
  <1>6. /\ record.phase = "Prepared" /\ record.after = after
        /\ record \in PendingRecord /\ after \in AppliedRecord
        /\ nonce + 1 \in Nonce
    BY <1>1, <1>3, StagedRecordType DEF ProtocolInv, RevocationInv
  <1>7. after.snapshot = candidate /\ after.nonce = nonce + 1
    OBVIOUS
  <1>8. record # Missing
    BY <1>6, SentinelAssumption
  <1> HIDE DEF record, after
  <1>9. /\ new["Pending"] = record
        /\ new["Desired"] = disk["Desired"]
        /\ new["Activation"] = disk["Activation"]
    BY <1>3, ReplacedFile DEF StoreFile
  <1> HIDE DEF new
  <1>10. ValueOf(new) = [desired |-> VersionOf(desired),
                         applied |-> TransactionOf(disk["Activation"]),
                         prepared |-> TransactionOf(after)]
    <2>1. ~Deciding(new)
      BY <1>6, <1>9 DEF Deciding
    <2> QED
      BY <1>3, <1>6, <1>8, <1>9, <2>1, UndecidedValue
  <1>11. ValueOf(disk) = [desired |-> VersionOf(desired),
                          applied |-> TransactionOf(disk["Activation"]),
                          prepared |-> None]
    BY <1>3, UndecidedValue
  <1>12. TransactionOf(after) = [version |-> VersionOf(candidate),
                                 nonce |-> nonce + 1]
    BY <1>6, <1>7, TransactionType
  <1>13. ValueOf(new) = [ValueOf(disk) EXCEPT !.prepared =
                            [version |-> VersionOf(candidate),
                             nonce |-> nonce + 1]]
    BY <1>10, <1>11, <1>12
  <1>14. /\ VersionOf(candidate) \in Authority!Version
         /\ \/ VersionOf(candidate) = VersionOf(desired)
            \/ VersionOf(candidate).revision = VersionOf(desired).revision + 1
         /\ VersionOf(desired) # None
    BY <1>3, VersionType
  <1>15. TransactionOf(disk["Activation"]) # None =>
             nonce + 1 > TransactionOf(disk["Activation"]).nonce
    <2> HAVE TransactionOf(disk["Activation"]) # None
    <2>1. applied # None /\ disk["Activation"] = applied
      BY <1>3 DEF TransactionOf
    <2>2. TransactionOf(applied).nonce = applied.nonce
      BY <1>4, <2>1, TransactionType
    <2>3. applied.nonce <= nonce /\ applied.nonce \in Int /\ nonce \in Int
      BY <1>4, <2>1 DEF ProtocolInv, AppliedSound, AppliedRecord, Nonce,
         RevocationInv, TypeInv, TypeOK
    <2> QED
      BY <2>1, <2>2, <2>3
  <1>16. CASE Authority!Change(ValueOf(new))
    <2>1. Authority!Prepare(VersionOf(candidate), nonce + 1)
      BY <1>11, <1>13, <1>14, <1>15, <1>16 DEF Authority!Prepare
    <2> QED
      BY <1>6, <1>14, <2>1 DEF Authority!Next, Nonce
  <1> QED
    BY <1>5, <1>16

\* A Replace is a compare-and-swap of the desired version.
LEMMA ReplaceRefines ==
    ASSUME ProtocolInv, Durable, NEW outcome \in Outcome,
           NEW expected \in 0..MaxRevision, NEW content \in Content,
           ReplaceSnapshot(expected, content, outcome)
    PROVE  Authority!Next \/ UNCHANGED Authority!vars
  <1> DEFINE next == [revision |-> expected + 1, content |-> content,
                      catalog |-> catalog]
             new == [disk EXCEPT !["Desired"] = next]
  <1>1. Available /\ Write("Desired", next, outcome)
    BY DEF ReplaceSnapshot
  <1>2. desired \in Snapshot
    BY <1>1, ServingFacts
  <1>3. /\ expected = desired.revision /\ pending = None
        /\ expected # MaxRevision /\ content # desired.content
    <2>1. desired.revision \in Nat
      BY <1>2, BoundAssumption DEF Snapshot
    <2> QED
      BY <2>1 DEF ReplaceSnapshot, ReplaceOutcome
  <1>4. /\ IsNamespace(disk) /\ survivors = {disk} /\ ~Deciding(disk)
        /\ disk["Pending"] = Missing /\ disk["Desired"] = desired
    BY <1>1, <1>3, ServingFacts
  <1>5. Authority!Change(ValueOf(new)) \/ UNCHANGED Authority!vars
    BY <1>1, <1>4, WriteChanges DEF StoreFile
  <1>6. /\ next \in Snapshot
        /\ next.revision = desired.revision + 1
        /\ next.content = content
    BY <1>3, BoundAssumption DEF Snapshot, ProtocolInv, RevocationInv,
       TypeInv, TypeOK
  <1> HIDE DEF next
  <1>7. /\ new["Pending"] = Missing
        /\ new["Desired"] = next
        /\ new["Activation"] = disk["Activation"]
    BY <1>4, ReplacedFile DEF StoreFile
  <1> HIDE DEF new
  <1>8. ValueOf(new) = [desired |-> VersionOf(next),
                        applied |-> TransactionOf(disk["Activation"]),
                        prepared |-> None]
    BY <1>7, UndecidedValue DEF Deciding
  <1>9. ValueOf(disk) = [desired |-> VersionOf(desired),
                         applied |-> TransactionOf(disk["Activation"]),
                         prepared |-> None]
    BY <1>4, UndecidedValue
  <1>10. VersionOf(next) = [revision |-> desired.revision + 1,
                            content |-> content]
    BY <1>6, SentinelAssumption DEF VersionOf
  <1>11. /\ VersionOf(desired) # None
         /\ VersionOf(desired).revision = desired.revision
         /\ VersionOf(desired).content = desired.content
    BY <1>2, VersionType
  <1>12. ValueOf(new) = [ValueOf(disk) EXCEPT !.desired =
                            [revision |-> @.revision + 1, content |-> content]]
    BY <1>8, <1>9, <1>10, <1>11
  <1>13. desired.revision < MaxRevision
    BY <1>2, <1>3, BoundAssumption DEF Snapshot
  <1>14. CASE Authority!Change(ValueOf(new))
    <2>1. Authority!Replace(content)
      BY <1>3, <1>9, <1>11, <1>12, <1>13, <1>14 DEF Authority!Replace
    <2> QED
      BY <2>1 DEF Authority!Next
  <1> QED
    BY <1>5, <1>14

\* The commit decision installs the prepared transaction in one step.
LEMMA DecideRefines ==
    ASSUME ProtocolInv, Durable, NEW outcome \in Outcome, CommitApply(outcome)
    PROVE  Authority!Next \/ UNCHANGED Authority!vars
  <1> DEFINE committing == [pending EXCEPT !.phase = "Committing"]
             new == [disk EXCEPT !["Pending"] = committing]
  <1>1. Available /\ pending # None
    BY DEF CommitApply
  <1>2. /\ IsNamespace(disk) /\ survivors = {disk} /\ ~Deciding(disk)
        /\ disk["Pending"] = pending /\ pending # Missing
        /\ pending \in PendingRecord
    BY <1>1, ServingFacts
  <1>3. UNCHANGED store \/ Write("Pending", committing, outcome)
    BY DEF CommitApply
  <1>4. \/ Authority!Change(ValueOf(new))
        \/ UNCHANGED Authority!vars
    BY <1>2, <1>3, WriteChanges DEF StoreFile, store, Authority!vars
  <1>5. /\ committing.after = pending.after
        /\ committing.phase = "Committing" /\ committing # Missing
    <2>1. committing \in PendingRecord
      BY <1>2 DEF PendingRecord, PendingPhase
    <2> QED
      BY <1>2, <2>1, SentinelAssumption DEF PendingRecord
  <1> HIDE DEF committing
  <1>6. new["Pending"] = committing
    BY <1>2, ReplacedFile DEF StoreFile
  <1> HIDE DEF new
  <1>7. ValueOf(new) = [desired |-> VersionOf(pending.after.snapshot),
                        applied |-> TransactionOf(pending.after),
                        prepared |-> None]
    BY <1>5, <1>6 DEF ValueOf, Deciding, EffectiveDesired, EffectiveApplied
  <1>8. ValueOf(disk).prepared = TransactionOf(pending.after)
    BY <1>2, UndecidedValue
  <1>9. /\ TransactionOf(pending.after) # None
        /\ TransactionOf(pending.after).version =
               VersionOf(pending.after.snapshot)
    BY <1>2, TransactionType, JournalType
  <1>10. CASE Authority!Change(ValueOf(new))
    <2>1. Authority!Decide
      BY <1>7, <1>8, <1>9, <1>10 DEF Authority!Decide
    <2> QED
      BY <2>1 DEF Authority!Next
  <1> QED
    BY <1>4, <1>10

\* Calls of the service.
LEMMA CallRefines ==
    ASSUME ProtocolInv, Durable, NEW outcome \in Outcome, Call(outcome)
    PROVE  Authority!Next \/ UNCHANGED Authority!vars
  <1>0. Available => desired \in Snapshot
    BY ServingFacts
  <1>1. CASE PrepareApply(outcome)
    BY <1>0, <1>1, StageRefines DEF PrepareApply, PendingKind, Writable
  <1>2. CASE PrepareRecovery(outcome)
    <2> DEFINE candidate ==
                   [AppliedState EXCEPT !.revision = desired.revision + 1]
    <2>1. /\ Writable /\ applied \in AppliedRecord /\ desired \in Snapshot
          /\ desired.revision < MaxRevision
          /\ StageCandidate("Recovery", candidate, outcome)
      BY <1>0, <1>2, ServingFacts DEF PrepareRecovery, Writable
    <2>2. AppliedState \in Snapshot
      BY <2>1 DEF AppliedState, Migrated, AppliedRecord, Snapshot,
                  ProtocolInv, RevocationInv, TypeInv, TypeOK
    <2>3. candidate \in Snapshot /\ candidate.revision = desired.revision + 1
      BY <2>1, <2>2, BoundAssumption DEF Snapshot
    <2> HIDE DEF candidate
    <2> QED
      BY <2>1, <2>3, StageRefines DEF PendingKind
  <1>3. ASSUME NEW content \in Content, PrepareDisplayApply(content, outcome)
        PROVE  Authority!Next \/ UNCHANGED Authority!vars
    <2> DEFINE candidate ==
                   [revision |-> desired.revision + 1, content |-> content,
                    catalog |-> desired.catalog]
    <2>1. /\ Writable /\ desired \in Snapshot
          /\ desired.revision < MaxRevision
          /\ StageCandidate("DisplayPreview", candidate, outcome)
      BY <1>0, <1>3 DEF PrepareDisplayApply, Writable
    <2>2. desired.catalog \in Catalog /\ desired.revision + 1 \in 0..MaxRevision
      BY <2>1, BoundAssumption DEF Snapshot
    <2>3. candidate \in Snapshot /\ candidate.revision = desired.revision + 1
      BY <2>2 DEF Snapshot
    <2> HIDE DEF candidate
    <2> QED
      BY <2>1, <2>3, StageRefines DEF PendingKind
  <1>4. CASE AbortApply(outcome)
    <2>1. Available /\ pending # None
      BY <1>4 DEF AbortApply
    <2>2. /\ IsNamespace(disk) /\ survivors = {disk} /\ ~Deciding(disk)
          /\ disk["Pending"] # Missing
      BY <2>1, ServingFacts
    <2>3. UNCHANGED store \/ Write("Pending", Missing, outcome)
      BY <1>4 DEF AbortApply, Remove
    <2> QED
      BY <2>2, <2>3, RemovedJournalAbandons DEF store, Authority!vars
  <1> QED
    BY <1>1, <1>2, <1>3, <1>4, ReplaceRefines, DecideRefines DEF Call

\* What follows a commit decision is invisible.
LEMMA CommitRefines ==
    ASSUME ProtocolInv, Durable, NEW outcome \in Outcome,
           CommitVerify \/ Commit(outcome)
    PROVE  UNCHANGED Authority!vars
  <1>a. StoreFile = {"Desired", "LastGood", "Activation", "Pending"}
    BY DEF StoreFile
  <1>0. process \in Committing
    BY DEF CommitVerify, Commit, CommitDesired, CommitLastGood,
           CommitActivation, CommitWrite, CommitRemove, Committing
  <1>1. pending \in PendingRecord /\ pending # Missing
    <2>1. pending \in PendingRecord
      BY <1>0 DEF ProtocolInv, RevocationInv, TypeInv, ProcessOK, Committing
    <2> QED
      BY <2>1, SentinelAssumption
  <1>2. /\ survivors = {disk} /\ Intact(disk) /\ JournalsSound(disk)
        /\ IsNamespace(disk) /\ disk["Pending"] = pending /\ Deciding(disk)
    BY <1>0, <1>1 DEF ProtocolInv, Synced, JournalInMemory, Serving, Deciding,
       Durable, RevocationInv, TypeInv, TypeOK
  <1>3. CASE CommitVerify
    BY <1>3 DEF CommitVerify, store, Authority!vars
  <1>4. CASE CommitDesired(outcome) \/ CommitLastGood(outcome)
             \/ CommitActivation(outcome)
    <2>1. PICK file \in {"Desired", "LastGood", "Activation"},
               bytes \in {pending.after.snapshot, pending.after} :
            /\ Write(file, bytes, outcome)
            /\ \/ file = "Desired" /\ bytes = pending.after.snapshot
               \/ /\ file = "LastGood" /\ bytes = pending.after.snapshot
                  /\ disk["Desired"] = pending.after.snapshot
               \/ /\ file = "Activation" /\ bytes = pending.after
                  /\ disk["Desired"] = pending.after.snapshot
                  /\ disk["LastGood"] = pending.after.snapshot
      BY <1>4 DEF CommitDesired, CommitLastGood, CommitActivation,
         CommitWrite, ProtocolInv, MirrorsInOrder
    <2>2. ValueOf([disk EXCEPT ![file] = bytes]) = ValueOf(disk)
      BY <1>2, <1>a, <2>1, MirrorValue DEF Intact
    <2> QED
      BY <1>a, <1>2, <2>1, <2>2, WriteInvisible
  <1>5. CASE CommitRemove(outcome)
    <2>1. Write("Pending", Missing, outcome) /\ process = "commitRemove"
      BY <1>5 DEF CommitRemove, Remove
    <2>2. ValueOf([disk EXCEPT !["Pending"] = Missing]) = ValueOf(disk)
      BY <1>2, <2>1, RetiredValue DEF Intact, ProtocolInv, MirrorsInOrder
    <2> QED
      BY <1>a, <1>2, <2>1, <2>2, WriteInvisible
  <1> QED
    BY <1>3, <1>4, <1>5 DEF Commit

\* Every step of the authority is a step of the abstract one, or none.
LEMMA NextRefines ==
    ASSUME ProtocolInv, Durable, damage' = damage, [Next]_vars
    PROVE  [Authority!Next]_(Authority!vars)
  <1>0. damage \in Nat
    BY DEF ProtocolInv, RevocationInv, TypeInv, TypeOK
  <1>1. CASE Initialize \/ ReconcileNothing \/ ReconcileRefused
             \/ ReconcileCommitting \/ LoadRefused
    BY <1>1, StartupRefines DEF Outcome
  <1>2. CASE CommitVerify
    BY <1>2, CommitRefines DEF Outcome
  <1>3. ASSUME NEW outcome \in Outcome,
               Startup(outcome) \/ Call(outcome) \/ Commit(outcome)
        PROVE  Authority!Next \/ UNCHANGED Authority!vars
    BY <1>3, StartupRefines, CallRefines, CommitRefines
  <1>4. CASE Crash \/ UNCHANGED vars
    BY <1>4 DEF Crash, vars, store, Authority!vars
  <1>5. CASE PowerLoss
    <2>1. disk' \in survivors /\ survivors' = {disk'}
      BY <1>5 DEF PowerLoss, LoseUnsynced
    <2>2. /\ ValueOf(disk') \in {ValueOf(ns) : ns \in survivors}
          /\ {ValueOf(ns) : ns \in survivors'} = {ValueOf(disk')}
      BY <2>1
    <2>3. Authority!PowerLoss
      BY <2>2 DEF Authority!PowerLoss
    <2> QED
      BY <2>3 DEF Authority!Next
  <1>6. CASE \/ \E file \in {"Desired", "LastGood", "Activation"} : Damage(file)
             \/ \E record \in generations : DamageGeneration(record)
    BY <1>0, <1>6 DEF Damage, DamageGeneration
  <1> QED
    BY <1>1, <1>2, <1>3, <1>4, <1>5, <1>6 DEF Next

\* Where nothing but the authority writes its files, its journal makes every
\* call one atomic change: replaceSnapshot, stageCandidate, commitApply,
\* abortApply and reconcilePending implement the revisioned authority, through
\* every crash, power loss and failing store operation.
THEOREM AuthorityImplemented ==
    ASSUME MaxDamage = 0
    PROVE  Spec => ImplementsAuthority
  <1>1. DurabilityInv => damage = 0
    BY DEF DurabilityInv, ProtocolInv, RevocationInv, TypeInv, TypeOK
  <1>2. DurabilityInv /\ DurabilityInv' /\ [Next]_vars
            => [Authority!Next]_(Authority!vars)
    <2> SUFFICES ASSUME DurabilityInv, DurabilityInv', [Next]_vars
                 PROVE  [Authority!Next]_(Authority!vars)
      OBVIOUS
    <2>1. damage = 0
      BY <1>1
    <2>2. damage' = 0
      BY DEF DurabilityInv, ProtocolInv, RevocationInv, TypeInv, TypeOK
    <2> QED
      BY <2>1, <2>2, NextRefines DEF DurabilityInv
  <1> QED
    BY <1>2, InitRefines, AlwaysDurable, PTL
    DEF Spec, ImplementsAuthority, Authority!Spec

=============================================================================
