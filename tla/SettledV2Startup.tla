------------------------- MODULE SettledV2Startup -------------------------
(***************************************************************************)
(* What a start decides from version 2 records, where no migration is      *)
(* under way: buildNoPendingCoherenceFactsV2,                              *)
(* buildOrdinaryPendingStartupFactsV2 (settled_v2_startup_facts.cpp) and   *)
(* reduceSettledV2Startup (startup_reducer.cpp), with the qualification of *)
(* the generations the records refer to                                    *)
(* (settled_v2_generation_byte_graph.cpp), all in src/compositord.  Pure   *)
(* functions; nothing yet carries the decision out.                        *)
(*                                                                         *)
(* A version 2 document is [authority, revision, content]: it names the    *)
(* authority whose revisions it counts.  A digest is the document it       *)
(* hashes, and a generation's nonce stands for its identifier as well.     *)
(***************************************************************************)
EXTENDS Integers, FiniteSets

CONSTANTS
    Missing,        \* no such file
    Damaged,        \* bytes that are not exactly what the serializer writes
    None,           \* an empty std::optional
    MaxRevision     \* std::numeric_limits<quint64>::max()

\* exactAuthority, exactDesired, exactApplied, exactOrdinaryPending.
Exact(read) == read \notin {Missing, Damaged}
ExactOrMissing(read) == read # Damaged

-----------------------------------------------------------------------------
(* The ordinary journal, as its parser accepts it *)

\* One authority for the journal and everything retained in it.
OneAuthority(p) ==
    /\ p.candidate.authority = p.authority
    /\ p.after.authority = p.authority
    /\ p.before # None => /\ p.before.authority = p.authority
                          /\ p.beforeDesired.authority = p.authority

\* The prior activation, which is no later than what the caller expected.
BeforeBound(p) ==
    /\ p.before.snapshot.revision <= p.expected
    /\ p.before.nonce # p.after.nonce
    /\ p.beforeDesired = p.before.snapshot
    /\ p.before.snapshot.revision = p.candidate.revision =>
           p.beforeDesired = p.candidate

\* The candidate with the revision of what it recovers.
PriorProjection(p) ==
    [p.candidate EXCEPT !.revision = p.before.snapshot.revision]

KindRelation(p) ==
    \/ /\ p.kind = "Apply"
       /\ p.candidate.revision = p.expected
       /\ p.beforeDigest = p.after.snapshot
    \/ /\ p.kind \in {"Recovery", "DisplayPreview"}
       /\ p.before # None
       /\ p.expected # MaxRevision
       /\ p.candidate.revision = p.expected + 1
       /\ p.kind = "Recovery" => PriorProjection(p) = p.beforeDesired
       /\ p.kind = "DisplayPreview" =>
              /\ p.before.snapshot.revision = p.expected
              /\ p.before.snapshot = p.beforeDigest

\* validateRecordCoherence.
RecordCoherence(p) ==
    /\ p.before = None <=> p.beforeDesired = None
    /\ OneAuthority(p)
    /\ p.after.snapshot = p.candidate
    /\ p.before # None => BeforeBound(p)
    /\ KindRelation(p)

\* isExactOrdinaryPendingObservation.
ExactOrdinaryPending(read) == Exact(read) /\ RecordCoherence(read)

-----------------------------------------------------------------------------
(* Facts: c holds the current records `authority`, `desired`, `lastGood`,    *)
(* `applied` and `pending`.                                                  *)

CurrentAuthorityCoherent(c) ==
    Exact(c.authority) /\ Exact(c.desired)
    /\ c.desired.authority = c.authority

NoMirrors(c) == c.lastGood = Missing /\ c.applied = Missing

\* presentPairCoherent, appliedRevisionAtMostDesired and
\* sameRevisionRuleSatisfied, of a pair that is present.
PairCoherent(c) ==
    /\ Exact(c.lastGood) /\ Exact(c.applied)
    /\ c.lastGood.authority = c.authority
    /\ c.applied.authority = c.authority
    /\ c.applied.snapshot = c.lastGood
    /\ c.lastGood.revision <= c.desired.revision
    /\ c.lastGood.revision = c.desired.revision => c.lastGood = c.desired

OneEpoch(c) ==
    /\ c.pending.authority = c.authority
    /\ Exact(c.lastGood) => c.lastGood.authority = c.authority
    /\ Exact(c.applied) => c.applied.authority = c.authority

\* Each document, and each revision a digest is claimed for.
DocumentClaims(c) ==
    {c.desired, c.pending.candidate} \cup ({c.lastGood} \ {Missing})
    \cup ({c.pending.beforeDesired} \ {None})

SnapshotClaims(c) ==
    {<<d.revision, d>> : d \in DocumentClaims(c)}
    \cup {<<c.pending.expected, c.pending.beforeDigest>>}
    \cup {<<r.snapshot.revision, r.snapshot>> :
              r \in {c.pending.after, c.pending.before, c.applied}
                        \ {None, Missing}}

\* sameRevisionDocumentsUnique and sameRevisionDigestsUnique.
SameRevisionUnique(claims) ==
    \A a, b \in claims : a[1] = b[1] => a[2] = b[2]

\* OrdinaryPendingStartupFacts::recordCoherent.
OrdinaryRecordCoherent(c) ==
    /\ ExactOrMissing(c.lastGood) /\ ExactOrMissing(c.applied)
    /\ OneEpoch(c)
    /\ SameRevisionUnique(SnapshotClaims(c))

MirrorRelation(mirror, before, after) ==
    (IF mirror = before THEN {"before"} ELSE {})
    \cup (IF mirror = after THEN {"after"} ELSE {})

DesiredRelation(c) ==
    (IF /\ c.desired.revision = c.pending.expected
        /\ c.desired = c.pending.beforeDigest
     THEN {"before"} ELSE {})
    \cup (IF c.desired = c.pending.candidate THEN {"after"} ELSE {})

LastGoodRelation(c) ==
    MirrorRelation(c.lastGood,
                   IF c.pending.before = None THEN Missing
                   ELSE c.pending.before.snapshot,
                   c.pending.candidate)

ActivationRelation(c) ==
    MirrorRelation(c.applied,
                   IF c.pending.before = None THEN Missing
                   ELSE c.pending.before,
                   c.pending.after)

-----------------------------------------------------------------------------
(* The decision *)

ReduceNoPending(c) ==
    IF CurrentAuthorityCoherent(c) /\ (NoMirrors(c) \/ PairCoherent(c))
    THEN "Ready" ELSE "RepairOnly"

WriteOrder(desired, lastGood, activation) ==
    /\ "after" \in activation => "after" \in desired /\ "after" \in lastGood
    /\ "after" \in lastGood => "after" \in desired

ReducePhase(phase, desired, lastGood, activation) ==
    IF {} \in {desired, lastGood, activation} THEN "RepairOnly"
    ELSE IF phase = "Prepared"
    THEN IF \A relation \in {desired, lastGood, activation} :
                "before" \in relation
         THEN "RemovePrepared" ELSE "RepairOnly"
    ELSE IF WriteOrder(desired, lastGood, activation)
         THEN "RollForwardCommitting" ELSE "RepairOnly"

ReduceOrdinaryPending(c) ==
    IF ~CurrentAuthorityCoherent(c) \/ ~OrdinaryRecordCoherent(c)
    THEN "RepairOnly"
    ELSE ReducePhase(c.pending.phase, DesiredRelation(c),
                     LastGoodRelation(c), ActivationRelation(c))

\* reduceSettledV2Startup; g: whether the root and the lease, the protected
\* contracts and the absence of a migration are established, and whether the
\* generations are verified.  Whatever is in the journal's place and is not an
\* ordinary journal is its owner's (tryBuildSettledV2PendingFactsV2).
SettledDecision(c, g) ==
    IF ~g.lease \/ ~g.contracts THEN "Fatal"
    ELSE IF ~g.settled THEN "DelegatePrerequisite"
    ELSE IF c.pending # Missing /\ ~ExactOrdinaryPending(c.pending)
    THEN "DelegatePrerequisite"
    ELSE IF ~g.verified THEN "RepairOnly"
    ELSE IF c.pending = Missing THEN ReduceNoPending(c)
    ELSE ReduceOrdinaryPending(c)

-----------------------------------------------------------------------------
(* classifySettledV2GenerationContentByteGraph *)

MaxEvidence == 2

\* The counterfactual: as if everything else were established.
Accepted(c) ==
    SettledDecision(c, [lease |-> TRUE, contracts |-> TRUE, settled |-> TRUE,
                        verified |-> TRUE])
        \in {"Ready", "RemovePrepared", "RollForwardCommitting"}

\* The generations the records refer to.
References(c) ==
    IF c.pending = Missing THEN {c.applied} \ {Missing}
    ELSE {c.pending.after, c.pending.before} \ {None}

\* Documents of the records and of the generations; the projection of a
\* recovery is the retained prior document.
GraphDocuments(c, evidence) ==
    {c.desired} \cup ({c.lastGood} \ {Missing})
    \cup (IF c.pending = Missing THEN {}
          ELSE {c.pending.candidate, c.pending.beforeDesired} \ {None})
    \cup {e.document : e \in evidence}

\* One identity, one activation record, and never a third.
ReferencesDistinct(references) ==
    /\ Cardinality(references) <= MaxEvidence
    /\ \A r, s \in references : r.nonce = s.nonce => r = s

\* Evidence and references pair up, and each evidence is the document its
\* reference was rendered from.
EvidenceBinds(references, evidence) ==
    /\ Cardinality(evidence) = Cardinality(references)
    /\ \A e \in evidence : \E r \in references :
           e.nonce = r.nonce /\ e.document = r.snapshot
    /\ \A r \in references : \E e \in evidence : e.nonce = r.nonce

ByteGraph(c, evidence, verifies) ==
    IF Cardinality(evidence) > MaxEvidence THEN "Incoherent"
    ELSE IF c.pending # Missing /\ ~ExactOrdinaryPending(c.pending)
    THEN "DelegatePendingOwner"
    ELSE IF /\ Accepted(c)
            /\ c.pending # Missing =>
                   c.applied \in {Missing} \cup References(c)
            /\ ReferencesDistinct(References(c))
            /\ EvidenceBinds(References(c), evidence)
            /\ SameRevisionUnique({<<<<d.authority, d.revision>>, d>> :
                                       d \in GraphDocuments(c, evidence)})
            /\ evidence \subseteq verifies
    THEN "GenerationContentByteCoherent"
    ELSE "Incoherent"

-----------------------------------------------------------------------------
(* The authority a client is told of, and the gate of its requests *)

\* classifyObservedAuthority of what inspectAuthority and inspectDesired make
\* of two reads; a version 1 document names no authority.
ObservedAuthority(authority, desired) ==
    LET unreadable == [kind |-> "unreadable", authority |-> None,
                       revision |-> 0]
        named == Exact(desired) /\ "authority" \in DOMAIN desired
    IN  IF authority = Missing /\ desired = Missing
        THEN [unreadable EXCEPT !.kind = "absent"]
        ELSE IF authority = Missing /\ Exact(desired) /\ ~named
        THEN [kind |-> "v1", authority |-> None,
              revision |-> desired.revision]
        ELSE IF Exact(authority) /\ named
        THEN IF desired.authority = authority
             THEN [kind |-> "v2", authority |-> authority,
                   revision |-> desired.revision]
             ELSE unreadable
        ELSE unreadable

\* reduceAuthorityCasV2.
CasDecision(access, current, expected) ==
    IF access = "Unavailable" THEN "Unavailable"
    ELSE IF access = "ReadOnly" THEN "ReadOnly"
    ELSE IF expected.authority # current.authority THEN "StaleAuthority"
    ELSE IF expected.catalog # current.catalog THEN "StaleCatalogDigest"
    ELSE IF expected.revision # current.revision THEN "StaleRevision"
    ELSE "Proceed"

=============================================================================
