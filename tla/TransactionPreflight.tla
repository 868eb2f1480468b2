----------------------- MODULE TransactionPreflight -----------------------
(***************************************************************************)
(* What the readers of the authority's records make of every namespace a   *)
(* crash or a power loss of ConfigurationTransaction can leave: the        *)
(* preflight that would migrate version 1 records, and the startup that    *)
(* would reconcile the same records in version 2.  Each restates the rules *)
(* of the journal from its own parser; none of the three was written with  *)
(* another, and the two readers are not run by the daemon yet.             *)
(***************************************************************************)
EXTENDS ConfigurationTransaction

CONSTANT Unsafe

PreflightV1 == INSTANCE ReachableV1Preflight
    WITH NewerContent <- ReadOnlyContent

StartupV2 == INSTANCE SettledV2Startup

-----------------------------------------------------------------------------
(* Version 1 *)

\* The namespace as captured: the generations its records name, and no
\* entrypoint records.
Captured(ns) ==
    LET reads == [desired |-> ns["Desired"], lastGood |-> ns["LastGood"],
                  applied |-> ns["Activation"], pending |-> ns["Pending"],
                  ownership |-> Missing, bridge |-> Missing,
                  evidence |-> {}, verified |-> generations]
    IN  [reads EXCEPT !.evidence = PreflightV1!AppliedReferences(reads)]

\* A namespace whose documents were all written for one catalog and target:
\* others are refused by design ("mixedLineageAndUnsupportedTargetAreClosed"
\* of compositor_reachable_v1_preflight_test.cpp).
OfOneLineage(ns) ==
    ns["Desired"] # Missing /\ PreflightV1!OneLineage(Captured(ns))

\* The preflight recognizes it, and resolves it to the snapshot and the
\* activation the next start would serve.
RecognizedV1(ns) ==
    /\ PreflightV1!AuthorityCoherent(Captured(ns))
    /\ PreflightV1!Resolved(Captured(ns)).desired = EffectiveDesired(ns)
    /\ PreflightV1!Resolved(Captured(ns)).applied = EffectiveApplied(ns)

-----------------------------------------------------------------------------
(* Version 2: the same records, in an epoch of their own *)

Epoch == "epoch"

DocumentV2(snapshot) ==
    IF snapshot = Missing THEN Missing
    ELSE [authority |-> Epoch, revision |-> snapshot.revision,
          content |-> snapshot.content]

\* The second argument is what an absent record is called where it stands.
AppliedV2(record, absent) ==
    IF record = absent THEN absent
    ELSE [authority |-> Epoch, snapshot |-> DocumentV2(record.snapshot),
          nonce |-> record.nonce]

PendingV2(p) ==
    IF p = Missing THEN Missing
    ELSE [authority |-> Epoch, kind |-> p.kind, phase |-> p.phase,
          expected |-> p.beforeDesired.revision,
          beforeDigest |-> DocumentV2(p.beforeDesired),
          beforeDesired |-> IF p.before = None THEN None
                            ELSE DocumentV2(p.before.snapshot),
          candidate |-> DocumentV2(p.after.snapshot),
          after |-> AppliedV2(p.after, None),
          before |-> AppliedV2(p.before, None)]

RecordsV2(ns) ==
    [authority |-> Epoch, desired |-> DocumentV2(ns["Desired"]),
     lastGood |-> DocumentV2(ns["LastGood"]),
     applied |-> AppliedV2(ns["Activation"], Missing),
     pending |-> PendingV2(ns["Pending"])]

EvidenceV2(records) ==
    {[nonce |-> r.nonce, document |-> DocumentV2(r.snapshot)] : r \in records}

VersionedDocument ==
    [authority: {Epoch}, revision: 0..MaxRevision, content: Content]
VersionedApplied ==
    [authority: {Epoch}, snapshot: VersionedDocument, nonce: Nonce]
VersionedPending ==
    [authority: {Epoch}, kind: PendingKind, phase: PendingPhase,
     expected: 0..MaxRevision, beforeDigest: VersionedDocument,
     beforeDesired: VersionedDocument \cup {None},
     candidate: VersionedDocument, after: VersionedApplied,
     before: VersionedApplied \cup {None}]

\* A file that is missing is not a damaged one, and neither of them, nor an
\* empty optional, is what a reader calls a record.
ASSUME VersionedAssumption ==
    /\ Missing # Damaged
    /\ \A absent \in {Missing, Damaged, None} :
           absent \notin {Epoch} \cup VersionedDocument
                          \cup VersionedApplied \cup VersionedPending

\* What reconcilePending does with the journal, in the words of version 2.
Reconciliation(ns) ==
    IF ns["Pending"] = Missing THEN "Ready"
    ELSE IF Deciding(ns) THEN "RollForwardCommitting"
    ELSE "RemovePrepared"

\* The startup decides the same, and its generations qualify.
RecognizedV2(ns) ==
    LET records == RecordsV2(ns)
    IN  /\ StartupV2!SettledDecision(records,
               [lease |-> TRUE, contracts |-> TRUE, settled |-> TRUE,
                verified |-> TRUE]) = Reconciliation(ns)
        /\ StartupV2!ByteGraph(records,
               EvidenceV2(PreflightV1!AppliedReferences(Captured(ns))),
               EvidenceV2(generations)) = "GenerationContentByteCoherent"

\* What a request carries of a document, or of the authority that serves it.
TupleV2(document) ==
    [authority |-> StartupV2!ObservedAuthority(Epoch, document).authority,
     catalog |-> "digest", revision |-> document.revision]

\* A request that carries what its client was shown passes the gate only if
\* that is what is still stored.
TokensHoldV2(ns) ==
    \A shown \in told :
        LET stored == DocumentV2(EffectiveDesired(ns))
            seen == [authority |-> Epoch, revision |-> shown[1],
                     content |-> shown[2]]
        IN  StartupV2!CasDecision("Writable", TupleV2(stored), TupleV2(seen))
                = "Proceed" => stored = seen

-----------------------------------------------------------------------------

\* Every namespace a fault can leave is one the next start reconciles, and
\* one that both other readers take for what it is: neither the migration's
\* preflight nor the version 2 startup mistakes a state of the journal's own
\* protocol for damage, or resolves it to anything else than the next start
\* does; and no revision means two things to a client of version 2.
CrashStatesUnderstood ==
    /\ CrashStatesRecoverable
    /\ \A ns \in survivors :
           ns["Desired"] # Missing =>
               /\ TokensHoldV2(ns)
               /\ OfOneLineage(ns) => RecognizedV1(ns) /\ RecognizedV2(ns)

=============================================================================
