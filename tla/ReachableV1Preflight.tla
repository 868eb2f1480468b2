----------------------- MODULE ReachableV1Preflight -----------------------
(***************************************************************************)
(* inspectReachableV1Preflight                                             *)
(* (src/compositord/reachable_v1_preflight.cpp): whether six version 1     *)
(* records and the generations they refer to are something version 1 can   *)
(* have left, and what they resolve to.  A pure function of captured       *)
(* bytes; a migration to version 2 only goes on where it accepts.          *)
(*                                                                         *)
(* Documents, activation tuples and journals are those of                  *)
(* ConfigurationTransaction, ownership and bridge records those of         *)
(* ManagedActivation.  A document's digest is the document, and one        *)
(* number is both the identifier and the nonce of a generation.  Which of  *)
(* the failed checks is reported is left out: the answer to all of them is *)
(* RepairOnly, with no plan.                                               *)
(***************************************************************************)
EXTENDS Integers, FiniteSets

CONSTANTS
    Missing,        \* no such file
    Damaged,        \* a captured file no parser accepts
    Unsafe,         \* a file the capture could not read safely
    None,           \* an empty std::optional
    NewerContent,   \* contents of documents for a newer Hyprland patch
    MaxRevision     \* std::numeric_limits<quint64>::max()

\* maximumReachableGenerationCountV1.
MaxGenerations == 2

-----------------------------------------------------------------------------
(* The input: `desired`, `lastGood`, `applied`, `pending`, `ownership` and   *)
(* `bridge` are reads, `evidence` the captured generations and `verified`    *)
(* those of them whose trees verify.                                         *)

Present(read) == read # Missing
HasPending(i) == Present(i.pending)
HasBridge(i) == Present(i.bridge)

Reads(i) ==
    {i.desired, i.lastGood, i.applied, i.pending, i.ownership, i.bridge}

NothingThere(i) == Reads(i) = {Missing} /\ i.evidence = {}

\* validPendingRecord: what the journal's parser already requires.
PendingParses(p) ==
    IF p.kind = "Apply"
    THEN p.beforeDesired = p.after.snapshot
    ELSE /\ p.beforeDesired.revision # MaxRevision
         /\ p.after.snapshot.revision = p.beforeDesired.revision + 1

\* validBridge: an adoption, and nothing else, may replace an absent file.
BridgeParses(b) == b.before = Missing => b.beforeOwnership = Missing

\* A document or record its own parser accepts.
Readable(read) == read # Damaged

Parsed(i) ==
    /\ Present(i.desired)
    /\ \A read \in Reads(i) : Readable(read)
    /\ HasPending(i) => PendingParses(i.pending)
    /\ HasBridge(i) => BridgeParses(i.bridge)

-----------------------------------------------------------------------------
(* Generations *)

\* appliedReferences.
AppliedReferences(i) ==
    (IF Present(i.applied) THEN {i.applied} ELSE {})
    \cup (IF HasPending(i) THEN {i.pending.after, i.pending.before} \ {None}
          ELSE {})

\* identityReferences.
Identities(i) ==
    {record.nonce : record \in AppliedReferences(i)}
    \cup (IF Present(i.ownership) THEN {i.ownership.generation} ELSE {})
    \cup (IF HasBridge(i)
          THEN {i.bridge.token}
               \cup (IF i.bridge.beforeOwnership = Missing THEN {}
                     ELSE {i.bridge.beforeOwnership.generation})
          ELSE {})

DistinctGenerations(i) ==
    /\ Cardinality(i.evidence) <= MaxGenerations
    /\ \A g, h \in i.evidence : g.nonce = h.nonce => g = h

\* Everything referred to is there, and nothing else is.
ExactlyReferenced(i) == {g.nonce : g \in i.evidence} = Identities(i)

\* bindApplied, of generations that verify.
ReferencesBound(i) ==
    /\ i.evidence \subseteq i.verified
    /\ AppliedReferences(i) \subseteq i.evidence

GenerationsBound(i) ==
    DistinctGenerations(i) /\ ExactlyReferenced(i) /\ ReferencesBound(i)

-----------------------------------------------------------------------------
(* The journal and its mirrors *)

PendingKindHolds(i) ==
    LET p == i.pending
        candidate == p.after.snapshot
        expected == p.beforeDesired.revision
    IN  /\ p.before # None =>
               /\ p.before.snapshot.revision <= expected
               /\ p.before.nonce # p.after.nonce
        /\ \/ p.kind = "Apply" /\ candidate = i.desired
           \/ /\ p.kind = "Recovery"
              /\ p.before # None
              /\ [candidate EXCEPT !.revision = p.before.snapshot.revision]
                     = p.before.snapshot
           \/ /\ p.kind = "DisplayPreview"
              /\ p.before # None
              /\ p.before.snapshot = p.beforeDesired

\* LegacyMirrorRelationV1: the sides of the transaction a mirror may be on.
Relation(mirror, before, after) ==
    (IF mirror = before THEN {"before"} ELSE {})
    \cup (IF mirror = after THEN {"after"} ELSE {})

Mirrors(i) ==
    LET p == i.pending
    IN  [desired |-> Relation(i.desired, p.beforeDesired, p.after.snapshot),
         lastGood |->
             Relation(i.lastGood,
                      IF p.before = None THEN Missing ELSE p.before.snapshot,
                      p.after.snapshot),
         activation |->
             Relation(i.applied,
                      IF p.before = None THEN Missing ELSE p.before,
                      p.after)]

\* Faulty variant: the last-good mirror is expected to be written last.
LastGoodWrittenLast(mirrors) ==
    /\ "after" \in mirrors.lastGood =>
           "after" \in mirrors.desired /\ "after" \in mirrors.activation
    /\ "after" \in mirrors.activation => "after" \in mirrors.desired

\* The order in which a commit writes the mirrors.
InWriteOrder(mirrors) ==
    /\ "after" \in mirrors.activation =>
           "after" \in mirrors.desired /\ "after" \in mirrors.lastGood
    /\ "after" \in mirrors.lastGood => "after" \in mirrors.desired

\* classifyLegacyPendingMirrorPredicatesV1.
Classification(phase, mirrors) ==
    LET files == {"desired", "lastGood", "activation"}
    IN  IF \E file \in files : mirrors[file] = {} THEN "InvalidOrUnrelated"
        ELSE IF phase = "Prepared"
        THEN IF \A file \in files : "before" \in mirrors[file]
             THEN "CoherentPrepared" ELSE "PreparedModified"
        ELSE IF InWriteOrder(mirrors) THEN "CoherentCommitting"
             ELSE "CommittingWriteOrder"

PendingCoherent(i) ==
    HasPending(i) =>
        /\ PendingKindHolds(i)
        /\ Classification(i.pending.phase, Mirrors(i))
               \in {"CoherentPrepared", "CoherentCommitting"}

Committing(i) == HasPending(i) /\ i.pending.phase = "Committing"

PendingResolution(i) ==
    IF ~HasPending(i) THEN "None"
    ELSE IF Committing(i) THEN "RollForwardCommitting"
    ELSE "RemovePrepared"

\* What is left once the journal is resolved.
Resolved(i) ==
    IF Committing(i)
    THEN [desired |-> i.pending.after.snapshot,
          lastGood |-> i.pending.after.snapshot,
          applied |-> i.pending.after]
    ELSE [desired |-> i.desired, lastGood |-> i.lastGood,
          applied |-> i.applied]

SettledCoherent(i) ==
    LET r == Resolved(i)
    IN  /\ Present(r.lastGood) <=> Present(r.applied)
        /\ Present(r.applied) =>
               /\ r.applied.snapshot = r.lastGood
               /\ r.desired.revision >= r.lastGood.revision
               /\ r.desired.revision = r.lastGood.revision =>
                      r.desired = r.lastGood

-----------------------------------------------------------------------------
(* All documents together *)

Documents(i) ==
    {i.desired} \cup ({i.lastGood} \ {Missing})
    \cup (IF HasPending(i) THEN {i.pending.after.snapshot} ELSE {})
    \cup {g.snapshot : g \in i.evidence}

SameRevisionSameBytes(i) ==
    \A d, e \in Documents(i) : d.revision = e.revision => d = e

ForNewerPatch(document) == document.content \in NewerContent

\* One target and one catalog lineage.
OneLineage(i) ==
    \A d, e \in Documents(i) :
        /\ ForNewerPatch(d) <=> ForNewerPatch(e)
        /\ d.catalog = e.catalog

-----------------------------------------------------------------------------
(* The entrypoint's records *)

BeforeGeneration(b) ==
    IF b.beforeOwnership = Missing THEN None ELSE b.beforeOwnership.generation

\* derivedTargetOwnershipBytes.
DerivedTargetOwnership(b) ==
    [generation |-> b.token,
     original |-> IF b.beforeOwnership = Missing THEN b.before
                  ELSE b.beforeOwnership.original]

GenerationOf(record) ==
    IF record \in {None, Missing} THEN None ELSE record.nonce

\* A journal next to a bridge: both are about the same transition.
JournalledBridgeCoherent(i) ==
    LET p == i.pending
        b == i.bridge
    IN  /\ b.token = p.after.nonce
        /\ BeforeGeneration(b) = GenerationOf(p.before)
        /\ Committing(i) => b.phase = "Ready"
        /\ i.ownership = b.beforeOwnership

TargetSelected(i) == GenerationOf(Resolved(i).applied) = i.bridge.token
PriorSelected(i) ==
    GenerationOf(Resolved(i).applied) = BeforeGeneration(i.bridge)

\* A bridge whose journal is gone: the activation tuple tells its side.
SettledBridgeCoherent(i) ==
    LET b == i.bridge
        priorOwnership == i.ownership = b.beforeOwnership
        targetOwnership == i.ownership = DerivedTargetOwnership(b)
    IN  /\ priorOwnership \/ targetOwnership
        /\ ~(TargetSelected(i) /\ PriorSelected(i))
        /\ \/ PriorSelected(i) /\ priorOwnership
           \/ TargetSelected(i) /\ b.phase = "Ready"

OwnershipCoherent(i) ==
    /\ Present(i.ownership) <=> Present(Resolved(i).applied)
    /\ Present(i.ownership) =>
           i.ownership.generation = Resolved(i).applied.nonce

EntrypointCoherent(i) ==
    IF HasBridge(i)
    THEN IF HasPending(i) THEN JournalledBridgeCoherent(i)
         ELSE SettledBridgeCoherent(i)
    ELSE ~Committing(i) /\ OwnershipCoherent(i)

\* result.entrypoint: the side of the bridge to reconcile to.
EntrypointSide(i) ==
    IF ~HasBridge(i)
    THEN IF Present(i.ownership) THEN "Managed" ELSE "Unmanaged"
    ELSE IF IF HasPending(i) THEN Committing(i) ELSE TargetSelected(i)
         THEN "BridgeTarget" ELSE "BridgePrior"

EntrypointGeneration(i) ==
    CASE EntrypointSide(i) = "Unmanaged" -> None
      [] EntrypointSide(i) = "Managed" -> i.ownership.generation
      [] EntrypointSide(i) = "BridgePrior" -> BeforeGeneration(i.bridge)
      [] EntrypointSide(i) = "BridgeTarget" -> i.bridge.token

-----------------------------------------------------------------------------
(* The verdict *)

\* Everything the authority's own files decide.
AuthorityCoherent(i) ==
    /\ Parsed(i)
    /\ GenerationsBound(i)
    /\ PendingCoherent(i)
    /\ SettledCoherent(i)
    /\ SameRevisionSameBytes(i)
    /\ OneLineage(i)

Disposition(i) ==
    IF Unsafe \in Reads(i) THEN "RepairOnly"
    ELSE IF NothingThere(i) THEN "Absent"
    ELSE IF ~(AuthorityCoherent(i) /\ EntrypointCoherent(i)) THEN "RepairOnly"
    ELSE IF ForNewerPatch(i.desired) THEN "UnsupportedTarget"
    ELSE "ByteCoherentNeedsEntrypointQualification"

=============================================================================
