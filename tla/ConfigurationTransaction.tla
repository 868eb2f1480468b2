--------------------- MODULE ConfigurationTransaction ---------------------
(***************************************************************************)
(* The compositor configuration authority                                  *)
(* (src/compositord/transaction.cpp): one revisioned desired snapshot, the *)
(* last snapshot that was activated with its activation tuple, and the     *)
(* journal of the transaction in between.  Every call runs to completion   *)
(* on one thread, so the only interleavings are process crashes and power  *)
(* losses between two store operations: each store operation of a call is  *)
(* a step of its own, and `process` says where the call stands.            *)
(*                                                                         *)
(* A digest stands for the bytes it hashes, so a digest is modelled by the *)
(* snapshot itself.  A call that is refused without changing any state is  *)
(* not a step.                                                             *)
(***************************************************************************)
EXTENDS Integers, PersistentStore

CONSTANTS
    Content,            \* what a snapshot configures, without its revision
    ReadOnlyContent,    \* content this release only preserves
    UnsafeContent,      \* content validateManagedActivationSafety rejects
    DefaultContent,     \* defaultDesiredState()
    MaxRevision,        \* std::numeric_limits<quint64>::max()
    MaxNonce,           \* bound: transactions ever prepared
    MaxDamage,          \* bound: files or generations damaged from outside
    None                \* an empty std::optional

ASSUME ContentAssumption ==
    /\ ReadOnlyContent \subseteq Content
    /\ UnsafeContent \subseteq Content
    /\ DefaultContent \in Content \ (ReadOnlyContent \cup UnsafeContent)
ASSUME BoundAssumption ==
    MaxRevision \in Nat /\ MaxNonce \in Nat /\ MaxDamage \in Nat

VARIABLES
    generations,    \* AppliedRecords whose immutable generation verifies
    catalog,        \* catalog authority of the installed release
    process,        \* where the authority's thread stands
    failed,         \* Impl::failed
    desired,        \* Impl::desired and its bytes and digest
    applied,        \* Impl::applied; appliedState is its snapshot, migrated
    semanticMatch,  \* Impl::desiredSemanticallyMatchesApplied
    pending,        \* Impl::pending
    nonce,          \* transactions prepared so far
    damage,         \* files or generations damaged so far
    told,           \* history: <<revision, content>> ever shown to clients
    revoked,        \* history: nonces whose caller was told: not applied
    decided,        \* history: nonces whose commit decision was durable
    submitted       \* history: the last Replace request, if none followed

memory == <<failed, desired, applied, semanticMatch, pending>>
history == <<told, revoked, decided, submitted>>
world == <<generations, catalog, nonce, damage>>
vars == <<store, world, process, memory, history>>

-----------------------------------------------------------------------------
(* Records *)

Catalog == {"earlier", "current"}
Snapshot == [revision: 0..MaxRevision, content: Content, catalog: Catalog]
Nonce == 1..MaxNonce
AppliedRecord == [snapshot: Snapshot, nonce: Nonce]
PendingKind == {"Apply", "Recovery", "DisplayPreview"}
PendingPhase == {"Prepared", "Committing"}
PendingRecord ==
    [kind: PendingKind, phase: PendingPhase, beforeDesired: Snapshot,
     after: AppliedRecord, before: AppliedRecord \cup {None}]

\* A file or an optional that is empty or unreadable is not a record.
ASSUME SentinelAssumption ==
    /\ Missing \notin Snapshot \cup AppliedRecord \cup PendingRecord
    /\ Damaged \notin Snapshot \cup AppliedRecord \cup PendingRecord
    /\ None \notin Snapshot \cup AppliedRecord \cup PendingRecord

ReadOnly(snapshot) == snapshot.content \in ReadOnlyContent

\* currentAuthorityState: the same state under the installed catalog.
Migrated(snapshot) == [snapshot EXCEPT !.catalog = catalog]

AppliedState == Migrated(applied.snapshot)

\* Faulty variant: a display preview is committed like an apply.
PublishesRecoveryOnly(record) == record.kind = "Recovery"

PublishesDesired(record) == record.kind \in {"Recovery", "DisplayPreview"}

-----------------------------------------------------------------------------
(* What startup and the transaction read back from the store *)

Parses(bytes) == bytes \notin {Missing, Damaged}

CrossCheckGeneration(record) == record \in generations

DesiredIsBefore(ns, p) == ns["Desired"] = p.beforeDesired
DesiredIsAfter(ns, p) == ns["Desired"] = p.after.snapshot

ActivationIsBefore(ns, p) ==
    ns["Activation"] = IF p.before = None THEN Missing ELSE p.before
ActivationIsAfter(ns, p) == ns["Activation"] = p.after

LastGoodIsBefore(ns, p) ==
    ns["LastGood"] = IF p.before = None THEN Missing ELSE p.before.snapshot

\* Faulty variant: recovery does not expect its own last-good write.
LastGoodNeverAfter(ns, p) == FALSE

LastGoodIsAfter(ns, p) ==
    /\ ns["LastGood"] = p.after.snapshot
    /\ ~ReadOnly(p.after.snapshot)

\* Faulty variant: the mirrors are not read again.
MirrorsAssumedUnchanged(p) == TRUE

PersistentStateMatchesBefore(p) ==
    /\ DesiredIsBefore(disk, p)
    /\ ActivationIsBefore(disk, p)
    /\ LastGoodIsBefore(disk, p)

\* The mirrors a journal of reconcilePending may be found with.
MirrorsAllowReconciliation(ns, p) ==
    /\ CrossCheckGeneration(p.after)
    /\ DesiredIsBefore(ns, p) \/ DesiredIsAfter(ns, p)
    /\ ActivationIsBefore(ns, p) \/ ActivationIsAfter(ns, p)
    /\ LastGoodIsBefore(ns, p) \/ LastGoodIsAfter(ns, p)
    /\ IF p.phase = "Prepared"
       THEN /\ DesiredIsBefore(ns, p)
            /\ ActivationIsBefore(ns, p)
            /\ LastGoodIsBefore(ns, p)
       ELSE /\ ActivationIsAfter(ns, p) =>
                   DesiredIsAfter(ns, p) /\ LastGoodIsAfter(ns, p)
            /\ LastGoodIsAfter(ns, p) => DesiredIsAfter(ns, p)

\* The settled files loadSnapshots accepts.
Loadable(ns) ==
    \/ ns["Desired"] = Missing /\ ns["LastGood"] = Missing
       /\ ns["Activation"] = Missing
    \/ /\ Parses(ns["Desired"])
       /\ ns["LastGood"] = Missing
       /\ ns["Activation"] = Missing
    \/ /\ Parses(ns["Desired"])
       /\ Parses(ns["LastGood"])
       /\ Parses(ns["Activation"])
       /\ ~ReadOnly(ns["LastGood"])
       /\ ns["Activation"].snapshot = ns["LastGood"]
       /\ CrossCheckGeneration(ns["Activation"])

-----------------------------------------------------------------------------
(* Startup: ConfigurationTransaction::initialize *)

Forget ==
    /\ failed' = FALSE
    /\ desired' = None
    /\ applied' = None
    /\ semanticMatch' = FALSE
    /\ pending' = None

\* Every startup error ends the process (main.cpp returns EXIT_FAILURE).
StartupFails ==
    /\ process' = "down"
    /\ Forget
    /\ UNCHANGED <<world, history>>

\* systemd starts the service again, possibly after an upgrade of the
\* package; the store takes its leases and syncs the directory.
Initialize ==
    /\ process = "down"
    /\ process' = "reconcile"
    /\ catalog' \in {catalog, "current"}
    /\ SyncDirectory
    /\ UNCHANGED <<generations, nonce, damage, memory, history>>

ReconcileNothing ==
    /\ process = "reconcile"
    /\ disk["Pending"] = Missing
    /\ process' = "load"
    /\ UNCHANGED <<store, world, memory, history>>

ReconcileRefused ==
    /\ process = "reconcile"
    /\ disk["Pending"] # Missing
    /\ ~MirrorsAllowReconciliation(disk, disk["Pending"])
    /\ StartupFails
    /\ UNCHANGED store

ReconcilePrepared(outcome) ==
    /\ process = "reconcile"
    /\ disk["Pending"] # Missing
    /\ disk["Pending"].phase = "Prepared"
    /\ MirrorsAllowReconciliation(disk, disk["Pending"])
    /\ Remove("Pending", outcome)
    /\ IF outcome = "success"
       THEN /\ process' = "load"
            /\ UNCHANGED <<world, memory, history>>
       ELSE StartupFails

ReconcileCommitting ==
    /\ process = "reconcile"
    /\ disk["Pending"] # Missing
    /\ disk["Pending"].phase = "Committing"
    /\ MirrorsAllowReconciliation(disk, disk["Pending"])
    /\ pending' = disk["Pending"]
    /\ process' = "rollDesired"
    /\ UNCHANGED <<store, world, failed, desired, applied, semanticMatch,
                   history>>

\* One write of the roll-forward of a confirmed transaction.
RollForward(from, file, bytes, to, outcome) ==
    /\ process = from
    /\ Write(file, bytes, outcome)
    /\ IF outcome = "success"
       THEN /\ process' = to
            /\ pending' = IF to = "load" THEN None ELSE pending
            /\ UNCHANGED <<world, failed, desired, applied, semanticMatch,
                           history>>
       ELSE StartupFails

RollForwardDesired(outcome) ==
    RollForward("rollDesired", "Desired", pending.after.snapshot,
                "rollLastGood", outcome)
RollForwardLastGood(outcome) ==
    RollForward("rollLastGood", "LastGood", pending.after.snapshot,
                "rollActivation", outcome)
RollForwardActivation(outcome) ==
    RollForward("rollActivation", "Activation", pending.after,
                "rollRemove", outcome)
RollForwardRemove(outcome) ==
    RollForward("rollRemove", "Pending", Missing, "load", outcome)

\* The authority answers clients with `snapshot`, and every transaction it
\* no longer holds is settled for its callers.
Serve(snapshot, record) ==
    /\ told' = told \cup {<<snapshot.revision, snapshot.content>>}
    /\ decided' = IF record = None THEN decided
                  ELSE decided \cup {record.nonce}
    /\ revoked' = revoked \cup ((1..nonce) \ decided')

LoadRefused ==
    /\ process = "load"
    /\ ~Loadable(disk)
    /\ StartupFails
    /\ UNCHANGED store

\* The snapshot loadSnapshots starts from, and whether it rewrites the file.
LoadedDesired ==
    IF disk["Desired"] = Missing
    THEN [revision |-> 0, content |-> DefaultContent, catalog |-> catalog]
    ELSE IF ReadOnly(disk["Desired"]) THEN disk["Desired"]
    ELSE Migrated(disk["Desired"])

LoadSnapshots(outcome) ==
    /\ process = "load"
    /\ Loadable(disk)
    /\ IF LoadedDesired # disk["Desired"]
       THEN Write("Desired", LoadedDesired, outcome)
       ELSE outcome = "success" /\ UNCHANGED store
    /\ IF outcome = "success"
       THEN LET record == IF disk["Activation"] = Missing THEN None
                          ELSE disk["Activation"]
            IN  /\ process' = "ready"
                /\ desired' = LoadedDesired
                /\ applied' = record
                /\ semanticMatch' =
                       (record # None /\ Migrated(record.snapshot) = desired')
                /\ Serve(desired', record)
                /\ UNCHANGED <<world, failed, pending, submitted>>
       ELSE StartupFails

-----------------------------------------------------------------------------
(* Calls of the service *)

Available == process = "ready" /\ ~failed
Writable == Available /\ ~ReadOnly(desired) /\ pending = None

\* Faulty variant of ReplaceOutcome: a token one behind is stale even when it
\* is the retry of what is stored.
ReplaceOutcomeWithoutRetry(expected, content) ==
    IF expected # desired.revision THEN "StaleRevision"
    ELSE IF content \in ReadOnlyContent \cup UnsafeContent
    THEN "InvalidSnapshot"
    ELSE IF pending # None THEN "ConfirmationPending"
    ELSE IF content = desired.content THEN "AlreadyStored"
    ELSE IF expected = MaxRevision THEN "RevisionExhausted"
    ELSE "Store"

\* The outcome replaceSnapshot computes before it touches the store.
ReplaceOutcome(expected, content) ==
    IF expected \notin {desired.revision, desired.revision - 1}
    THEN "StaleRevision"
    ELSE IF content \in ReadOnlyContent THEN "InvalidSnapshot"
    ELSE IF expected + 1 = desired.revision
    THEN IF content = desired.content THEN "AlreadyStored"
         ELSE "StaleRevision"
    ELSE IF pending # None THEN "ConfirmationPending"
    ELSE IF content = desired.content THEN "AlreadyStored"
    ELSE IF expected = MaxRevision THEN "RevisionExhausted"
    ELSE IF content \in UnsafeContent THEN "InvalidSnapshot"
    ELSE "Store"

ReplaceSnapshot(expected, content, outcome) ==
    /\ Available
    /\ ~ReadOnly(desired)
    /\ ReplaceOutcome(expected, content) = "Store"
    /\ LET next == [revision |-> expected + 1, content |-> content,
                    catalog |-> catalog]
       IN  /\ Write("Desired", next, outcome)
           /\ submitted' = [expected |-> expected, content |-> content]
           /\ IF outcome = "success"
              THEN /\ desired' = next
                   /\ semanticMatch' = FALSE
                   /\ told' = told \cup {<<next.revision, content>>}
                   /\ UNCHANGED failed
              ELSE /\ failed' = (outcome = "notDurable")
                   /\ UNCHANGED <<desired, semanticMatch, told>>
    /\ UNCHANGED <<world, process, applied, pending, revoked, decided>>

\* stageCandidate: publish the immutable generation, then the journal.
StageCandidate(kind, candidate, outcome) ==
    /\ nonce < MaxNonce
    /\ candidate.content \notin UnsafeContent
    /\ LET after == [snapshot |-> candidate, nonce |-> nonce + 1]
           record == [kind |-> kind, phase |-> "Prepared",
                      beforeDesired |-> desired,
                      after |-> after, before |-> applied]
       IN  /\ nonce' = nonce + 1
           /\ generations' = generations \cup {after}
           /\ Write("Pending", record, outcome)
           /\ IF outcome = "success"
              THEN /\ pending' = record
                   /\ UNCHANGED <<failed, revoked>>
              ELSE /\ failed' = (outcome = "notDurable")
                   /\ revoked' = revoked \cup {after.nonce}
                   /\ UNCHANGED pending
    /\ UNCHANGED <<catalog, damage, process, desired, applied, semanticMatch,
                   told, decided, submitted>>

PrepareApply(outcome) ==
    /\ Writable
    /\ StageCandidate("Apply", desired, outcome)

PrepareRecovery(outcome) ==
    /\ Writable
    /\ applied # None
    /\ desired.revision < MaxRevision
    /\ StageCandidate("Recovery",
           [AppliedState EXCEPT !.revision = desired.revision + 1], outcome)

\* A display preview requires the exact current applied baseline.
ExactAppliedBaseline ==
    /\ applied # None
    /\ applied.snapshot.revision = desired.revision
    /\ applied.snapshot = desired \/ semanticMatch
    /\ AppliedState = desired

PrepareDisplayApply(content, outcome) ==
    /\ Writable
    /\ ExactAppliedBaseline
    /\ desired.revision < MaxRevision
    /\ content \notin ReadOnlyContent
    /\ StageCandidate("DisplayPreview",
           [revision |-> desired.revision + 1, content |-> content,
            catalog |-> desired.catalog], outcome)

\* The first half of commitApply: the durable, irreversible decision.  The
\* executor commits a generation it proved and did not roll back.
CommitApply(outcome) ==
    /\ Available
    /\ pending # None
    /\ pending.phase = "Prepared"
    /\ pending.after.nonce \notin revoked
    /\ IF ~CrossCheckGeneration(pending.after)
       THEN /\ outcome = "notPublished"
            /\ revoked' = revoked \cup {pending.after.nonce}
            /\ UNCHANGED <<store, process, failed, pending, decided, submitted>>
       ELSE LET committing == [pending EXCEPT !.phase = "Committing"]
            IN  /\ Write("Pending", committing, outcome)
                /\ failed' = (outcome = "notDurable")
                /\ process' = IF outcome = "success" THEN "commitVerify"
                              ELSE process
                /\ pending' = IF outcome = "success" THEN committing
                              ELSE pending
                /\ decided' = IF outcome = "success"
                              THEN decided \cup {pending.after.nonce}
                              ELSE decided
                /\ revoked' = IF outcome = "notPublished"
                              THEN revoked \cup {pending.after.nonce}
                              ELSE revoked
                /\ submitted' = IF PublishesDesired(pending)
                                   /\ outcome # "notPublished"
                                THEN None ELSE submitted
    /\ UNCHANGED <<world, desired, applied, semanticMatch, told>>

\* durableFailure: the decision stands, this process is out of service.
DurableFailure ==
    /\ process' = "ready"
    /\ failed' = TRUE
    /\ UNCHANGED <<world, desired, applied, semanticMatch, pending, history>>

CommitVerify ==
    /\ process = "commitVerify"
    /\ IF PersistentStateMatchesBefore(pending)
       THEN /\ process' = IF PublishesDesired(pending) THEN "commitDesired"
                          ELSE "commitLastGood"
            /\ UNCHANGED <<world, memory, history>>
       ELSE DurableFailure
    /\ UNCHANGED store

CommitWrite(from, file, bytes, to, outcome) ==
    /\ process = from
    /\ Write(file, bytes, outcome)
    /\ IF outcome = "success"
       THEN /\ process' = to
            /\ UNCHANGED <<world, memory, history>>
       ELSE DurableFailure


\* Faulty variant: the order of the mirrors is confused.
CommitLastGoodLast(outcome) ==
    CommitWrite("commitLastGood", "LastGood", pending.after.snapshot,
                "commitRemove", outcome)

CommitDesired(outcome) ==
    CommitWrite("commitDesired", "Desired", pending.after.snapshot,
                "commitLastGood", outcome)
CommitLastGood(outcome) ==
    CommitWrite("commitLastGood", "LastGood", pending.after.snapshot,
                "commitActivation", outcome)
CommitActivation(outcome) ==
    CommitWrite("commitActivation", "Activation", pending.after,
                "commitRemove", outcome)

CommitRemove(outcome) ==
    /\ process = "commitRemove"
    /\ Remove("Pending", outcome)
    /\ IF outcome = "success"
       THEN /\ process' = "ready"
            /\ pending' = None
            /\ desired' = IF PublishesDesired(pending)
                          THEN pending.after.snapshot ELSE desired
            /\ applied' = pending.after
            /\ semanticMatch' = FALSE
            /\ told' = told \cup {<<desired'.revision, desired'.content>>}
            /\ UNCHANGED <<world, failed, revoked, decided, submitted>>
       ELSE DurableFailure

AbortApply(outcome) ==
    /\ Available
    /\ pending # None
    /\ revoked' = revoked \cup {pending.after.nonce}
    /\ IF pending.phase = "Prepared" /\ PersistentStateMatchesBefore(pending)
       THEN /\ Remove("Pending", outcome)
            /\ pending' = IF outcome = "success" THEN None ELSE pending
            /\ failed' = (outcome # "success")
       ELSE /\ outcome = "notPublished"
            /\ failed' = TRUE
            /\ UNCHANGED <<store, pending>>
    /\ UNCHANGED <<world, process, desired, applied, semanticMatch, told,
                   decided, submitted>>

-----------------------------------------------------------------------------
(* The environment *)

\* The process dies; what it renamed stays visible.
Crash ==
    /\ process # "down"
    /\ process' = "down"
    /\ Forget
    /\ UNCHANGED <<store, world, history>>

PowerLoss ==
    /\ process' = "down"
    /\ LoseUnsynced
    /\ Forget
    /\ UNCHANGED <<world, history>>

\* Something else writes into the state directory, or destroys a generation,
\* while no call is running.
Damage(file) ==
    /\ process \in {"down", "ready"}
    /\ damage < MaxDamage
    /\ damage' = damage + 1
    /\ disk' = [disk EXCEPT ![file] = Damaged]
    /\ survivors' = {[s EXCEPT ![file] = Damaged] : s \in survivors}
    /\ UNCHANGED <<generations, catalog, nonce, process, memory, history>>

DamageGeneration(record) ==
    /\ process \in {"down", "ready"}
    /\ damage < MaxDamage
    /\ damage' = damage + 1
    /\ generations' = generations \ {record}
    /\ UNCHANGED <<store, catalog, nonce, process, memory, history>>

-----------------------------------------------------------------------------

Init ==
    /\ disk \in {[f \in StoreFile |-> IF f = "Desired" THEN d ELSE Missing] :
                    d \in {Missing} \cup
                          [revision: {0}, content: Content,
                           catalog: {"earlier"}]}
    /\ survivors = {disk}
    /\ generations = {}
    /\ catalog = "earlier"
    /\ process = "down"
    /\ failed = FALSE
    /\ desired = None
    /\ applied = None
    /\ semanticMatch = FALSE
    /\ pending = None
    /\ nonce = 0
    /\ damage = 0
    /\ told = {}
    /\ revoked = {}
    /\ decided = {}
    /\ submitted = None

Startup(outcome) ==
    \/ ReconcilePrepared(outcome)
    \/ RollForwardDesired(outcome)
    \/ RollForwardLastGood(outcome)
    \/ RollForwardActivation(outcome)
    \/ RollForwardRemove(outcome)
    \/ LoadSnapshots(outcome)

Call(outcome) ==
    \/ \E expected \in 0..MaxRevision, content \in Content :
           ReplaceSnapshot(expected, content, outcome)
    \/ PrepareApply(outcome)
    \/ PrepareRecovery(outcome)
    \/ \E content \in Content : PrepareDisplayApply(content, outcome)
    \/ CommitApply(outcome)
    \/ AbortApply(outcome)

Commit(outcome) ==
    \/ CommitDesired(outcome)
    \/ CommitLastGood(outcome)
    \/ CommitActivation(outcome)
    \/ CommitRemove(outcome)

Next ==
    \/ Initialize
    \/ ReconcileNothing
    \/ ReconcileRefused
    \/ ReconcileCommitting
    \/ LoadRefused
    \/ CommitVerify
    \/ \E outcome \in Outcome :
           Startup(outcome) \/ Call(outcome) \/ Commit(outcome)
    \/ Crash
    \/ PowerLoss
    \/ \E file \in {"Desired", "LastGood", "Activation"} : Damage(file)
    \/ \E record \in generations : DamageGeneration(record)

Spec == Init /\ [][Next]_vars

-----------------------------------------------------------------------------
(* Properties *)

\* What each file of the store may hold.
Fits(file, bytes) ==
    /\ file \in {"Desired", "LastGood"} =>
           bytes \in Snapshot \cup {Missing, Damaged}
    /\ file = "Activation" => bytes \in AppliedRecord \cup {Missing, Damaged}
    /\ file = "Pending" => bytes \in PendingRecord \cup {Missing}

IsNamespace(ns) ==
    /\ DOMAIN ns = StoreFile
    /\ \A file \in StoreFile : Fits(file, ns[file])

Shown == (0..MaxRevision) \X Content

Step == {"down", "reconcile", "rollDesired", "rollLastGood",
         "rollActivation", "rollRemove", "load", "ready", "commitVerify",
         "commitDesired", "commitLastGood", "commitActivation",
         "commitRemove"}

\* Every variable stays in its type: in particular no record is stored under
\* another file's name and no revision passes the largest one.
TypeOK ==
    /\ IsNamespace(disk)
    /\ \A ns \in survivors : IsNamespace(ns)
    /\ generations \subseteq AppliedRecord
    /\ catalog \in Catalog
    /\ process \in Step
    /\ failed \in BOOLEAN
    /\ desired \in Snapshot \cup {None}
    /\ applied \in AppliedRecord \cup {None}
    /\ semanticMatch \in BOOLEAN
    /\ pending \in PendingRecord \cup {None}
    /\ nonce \in 0..MaxNonce
    /\ damage \in 0..MaxDamage
    /\ told \subseteq Shown
    /\ revoked \subseteq Nonce
    /\ decided \subseteq Nonce
    /\ submitted \in [expected: 0..MaxRevision, content: Content] \cup {None}

Deciding(ns) ==
    ns["Pending"] # Missing /\ ns["Pending"].phase = "Committing"

\* The desired snapshot and the applied transaction a start from ns serves.
EffectiveDesired(ns) ==
    IF Deciding(ns) THEN ns["Pending"].after.snapshot ELSE ns["Desired"]
EffectiveApplied(ns) ==
    IF Deciding(ns) THEN ns["Pending"].after ELSE ns["Activation"]

\* Whatever a power loss leaves, every revision a client has ever been shown
\* still names the content it was shown with, or has been passed: a CAS token
\* is never reused (the loadSnapshots comment on ABA, and the directory sync
\* of PersistentStore::initialize before anything is served).
ShownRevisionNeverReused ==
    \A ns \in survivors, shown \in told :
        LET kept == EffectiveDesired(ns)
        IN  /\ Parses(kept)
            /\ \/ kept.revision > shown[1]
               \/ kept.revision = shown[1] /\ kept.content = shown[2]

\* A transaction whose caller was told that no commit decision exists, and
\* which therefore rolled the live compositor back, is never applied after
\* any crash, damage or power loss (commitDecisionMayExist of commitApply).
RevokedNeverApplied ==
    \A ns \in survivors, n \in revoked :
        /\ Deciding(ns) => ns["Pending"].after.nonce # n
        /\ Parses(ns["Activation"]) => ns["Activation"].nonce # n

\* A transaction whose commit decision was durable is applied, or will be by
\* the next start, unless a later one replaced it: a crash anywhere in
\* commitApply or in the roll-forward loses nothing.
DecidedNeverLost ==
    \A ns \in survivors, n \in decided :
        Parses(EffectiveApplied(ns)) /\ EffectiveApplied(ns).nonce >= n

\* Crashes, power losses and failing stores alone never produce a namespace
\* that reconcilePending or loadSnapshots refuses ("mirrors violate durable
\* write order", "unrelated desired snapshot", "metadata disagree").
CrashStatesRecoverable ==
    \A ns \in survivors :
        IF ns["Pending"] = Missing THEN Loadable(ns)
        ELSE /\ MirrorsAllowReconciliation(ns, ns["Pending"])
             /\ ns["Pending"].phase = "Prepared" => Loadable(ns)

\* What the authority answers from memory is what every restart would read:
\* no call leaves memory and the durable files apart while it still serves.
ServedStateIsDurable ==
    Available =>
        /\ survivors = {disk}
        /\ disk["Desired"] = desired
        /\ disk["Activation"] = IF applied = None THEN Missing ELSE applied
        /\ disk["LastGood"] = IF applied = None THEN Missing
                              ELSE applied.snapshot
        /\ disk["Pending"] = IF pending = None THEN Missing ELSE pending

\* A Replace repeated after its answer was lost, to a failed store, a crash or
\* a power loss, is stored or found stored and never called stale, as long as
\* nothing else changed the revision (possibleRetry of replaceSnapshot).
RetryNeverStale ==
    Available /\ submitted # None =>
        ReplaceOutcome(submitted.expected, submitted.content) # "StaleRevision"

\* A durable commit decision is removed only once every mirror holds the
\* transaction: no call, start or fault retracts it, damage included.
DecisionRetiredOnlyWhenMirrored ==
    [][(\A ns \in survivors : Deciding(ns)) /\ ~Deciding(disk') =>
           /\ DesiredIsAfter(disk', disk["Pending"])
           /\ LastGoodIsAfter(disk', disk["Pending"])
           /\ ActivationIsAfter(disk', disk["Pending"])]_vars

\* The abstract authority this module implements when nothing but its own
\* calls, crashes and power losses touch the store.
VersionOf(snapshot) ==
    IF snapshot = Missing THEN None
    ELSE [revision |-> snapshot.revision, content |-> snapshot.content]
TransactionOf(record) ==
    IF record = Missing THEN None
    ELSE [version |-> VersionOf(record.snapshot), nonce |-> record.nonce]
ValueOf(ns) ==
    [desired |-> VersionOf(EffectiveDesired(ns)),
     applied |-> TransactionOf(EffectiveApplied(ns)),
     prepared |-> IF ns["Pending"] = Missing \/ Deciding(ns) THEN None
                  ELSE TransactionOf(ns["Pending"].after)]

Authority == INSTANCE RevisionedAuthority
    WITH value <- ValueOf(disk), fallback <- {ValueOf(ns) : ns \in survivors}

\* An optional that is empty is neither a version nor a transaction.
ASSUME EmptyAssumption == None \notin Authority!Version \cup Authority!Transaction

\* Every step of the store protocol is an atomic change of the authority or
\* invisible: the journal makes several file writes one change.
ImplementsAuthority == Authority!Spec

(* Liveness: systemd restarts a process that ended (Restart=always), and a
   call or a start that runs goes on.  Faults eventually stop. *)

Progress ==
    \/ Initialize
    \/ ReconcileNothing
    \/ ReconcileCommitting
    \/ CommitVerify
    \/ Startup("success")
    \/ Commit("success")

Fault ==
    \/ Crash
    \/ PowerLoss
    \/ \E outcome \in Outcome \ {"success"} :
           Startup(outcome) \/ Commit(outcome)

LiveSpec == Spec /\ WF_vars(Progress) /\ <>[][~Fault]_vars

\* Once faults stop, a durable commit decision ends in an applied transaction
\* or in an authority that withdrew from service until it is restarted.
DecisionReachesService ==
    \A n \in 1..MaxNonce :
        n \in decided ~>
            \/ process = "ready" /\ failed
            \/ Available /\ applied # None /\ applied.nonce >= n

=============================================================================
