---------------------- MODULE ComponentPlanController ----------------------
(***************************************************************************)
(* The surface plan of the coordinator: which component instances the      *)
(* shell may show.  A plan is built from one join of the component catalog *)
(* and the component configuration; third-party packages are in it only    *)
(* while the join is current, the health record is trusted and the package *)
(* is not quarantined.  The shell authorizes a plan before it shows them,  *)
(* and an activation that is not reported stable in time quarantines its   *)
(* package.                                                                *)
(*                                                                         *)
(* A handler runs to its end on one thread.  One that changes the health   *)
(* record and then publishes a plan, which may change it again, is two     *)
(* steps, because the coordinator may be killed between the two commits.   *)
(*                                                                         *)
(* The durable record of third-party packages, which are quarantined and   *)
(* which activations are in probation, is kept in two files; the recovery  *)
(* file is written first and is the commit point, the active file mirrors  *)
(* it.                                                                     *)
(***************************************************************************)
EXTENDS Naturals

CONSTANTS
    Package,            \* third-party packages, by their exact digest
    MaxHealthRevision,  \* the largest revision the counter holds
    None,               \* no file, no plan
    Join,       \* joins of a catalog and a configuration
    Desired     \* the third-party packages each join asks for

ASSUME HealthAssumption ==
    /\ MaxHealthRevision \in Nat
    /\ None \notin [revision: Nat, safeMode: BOOLEAN,
                    quarantined: SUBSET Package, pending: SUBSET Package]

ASSUME JoinAssumption ==
    /\ Desired \in [Join -> SUBSET Package]
    /\ None \notin Join \cup [join: Join, packages: SUBSET Package]

VARIABLES
    active,     \* the active file, or None
    recovery,   \* the recovery file, or None
    state,      \* state_, and "down" between a crash and the next start
    artifact,   \* artifact_: the published plan
    snapshots,  \* catalog_ and configuration_: the join last accepted
    health,     \* health_
    probation,  \* whether probationTimer_ is active
    rest,       \* what the running handler still has to do
    \* history
    activating, \* activations the shell was authorized for and not yet ended
    interrupted,\* activations that were going on at a crash
    barred      \* packages quarantined for good unless they are retried

healthFiles == <<active, recovery>>
plan == <<state, artifact, snapshots>>
controllerVars == <<plan, health, healthFiles, probation, rest,
                    activating, interrupted, barred>>

idle == state # "down" /\ rest = "nothing"

-----------------------------------------------------------------------------
(* ComponentRuntimeHealthStore *)

Health == [revision: 0..MaxHealthRevision, safeMode: BOOLEAN,
           quarantined: SUBSET Package, pending: SUBSET Package]

\* The state of a load that finds nothing, and of one that cannot be trusted.
NoHealth == [revision |-> 0, safeMode |-> FALSE, quarantined |-> {}, pending |-> {}]
RefusedHealth == [NoHealth EXCEPT !.safeMode = TRUE]

\* Faulty variant of Newest: the active file is believed while it exists.
ActiveFirst ==
    IF active # None THEN active ELSE IF recovery # None THEN recovery ELSE NoHealth

\* What a load selects: the newer file, the active one when they are equal.
Newest ==
    IF recovery # None /\ (active = None \/ recovery.revision > active.revision)
    THEN recovery
    ELSE IF active # None THEN active ELSE NoHealth

SnapshotsDisagree ==
    /\ active # None /\ recovery # None
    /\ active.revision = recovery.revision
    /\ active # recovery

\* load: a file that is behind is repaired before the state is used.
LoadSucceeds ==
    /\ ~SnapshotsDisagree
    /\ active' = IF active = None /\ recovery = None THEN None ELSE Newest
    /\ recovery' = active'

\* persist, with a failed mirror left to the next load.
Persist(next) ==
    /\ recovery' = next
    /\ active' \in {active, next}

-----------------------------------------------------------------------------
(* commitHealth *)

Commit(next) ==
    /\ health.revision < MaxHealthRevision
    /\ health' = [next EXCEPT !.revision = health.revision + 1]
    /\ Persist(health')

\* The revision is exhausted or nothing could be written: safe mode.
CommitFails ==
    /\ health' = [health EXCEPT !.safeMode = TRUE]
    /\ probation' = FALSE
    /\ UNCHANGED healthFiles

\* Every package in packages is quarantined, and none of it stays pending.
Quarantined(packages) ==
    [health EXCEPT !.quarantined = @ \cup packages, !.pending = @ \ packages]

-----------------------------------------------------------------------------
(* publishPlan *)

\* stripThirdParty and filterQuarantined.
Shown(packages, trusted) ==
    IF ~trusted \/ health.safeMode THEN {} ELSE packages \ health.quarantined

\* preparePending: probation does not survive a change of the plan.
StillPending(next) ==
    IF artifact # None /\ artifact # next THEN {} ELSE health.pending \cap next.packages

Install(next, nextState) ==
    /\ artifact' = next
    /\ state' = nextState
    /\ activating' = IF next = artifact THEN activating ELSE {}
    /\ UNCHANGED barred

\* The plan with its probation recorded.
PublishPlan(join, packages, nextState, trusted) ==
    LET next == [join |-> join, packages |-> Shown(packages, trusted)] IN
    /\ Install(next, nextState)
    /\ probation' = (StillPending(next) # {})
    /\ IF StillPending(next) = health.pending
       THEN UNCHANGED <<health, healthFiles>>
       ELSE Commit([health EXCEPT !.pending = StillPending(next)])

\* The change of probation could not be recorded: no third party is shown.
PublishStripped(join, packages, nextState, trusted) ==
    LET next == [join |-> join, packages |-> Shown(packages, trusted)] IN
    /\ StillPending(next) # health.pending
    /\ CommitFails
    /\ Install([next EXCEPT !.packages = {}], nextState)

PublishEither(join, packages, nextState, trusted) ==
    \/ PublishPlan(join, packages, nextState, trusted)
    \/ PublishStripped(join, packages, nextState, trusted)

Retain == PublishEither(artifact.join, artifact.packages, "retained", FALSE)

\* Without a plan only the probation is dropped.
DropPending ==
    \/ /\ health.pending = {}
       /\ probation' = FALSE
       /\ UNCHANGED <<health, healthFiles>>
    \/ /\ health.pending # {}
       /\ probation' = FALSE
       /\ Commit([health EXCEPT !.pending = {}])
    \/ /\ health.pending # {}
       /\ CommitFails

\* setFailedState.
Fail ==
    \/ artifact # None /\ Retain
    \/ /\ artifact = None
       /\ DropPending
       /\ state' = "unavailable"
       /\ UNCHANGED <<artifact, activating, barred>>

-----------------------------------------------------------------------------
(* The hydrator's calls *)

BeginHydration ==
    /\ rest' = "nothing"
    /\ \/ artifact # None /\ Retain
       \/ /\ artifact = None
          /\ state' = "hydrating"
          /\ UNCHANGED <<artifact, health, healthFiles, probation, activating,
                         barred>>
    /\ UNCHANGED snapshots

SourceUnavailable == Fail /\ UNCHANGED snapshots

\* acceptSnapshots, which succeeds unless the plan cannot be built or its
\* probation cannot be recorded.
AcceptSnapshots(join) ==
    /\ snapshots' = join
    /\ PublishPlan(join, Desired[join], "authoritative", TRUE)
    /\ UNCHANGED rest

RejectSnapshots(join) ==
    /\ \/ Fail /\ UNCHANGED snapshots
       \/ /\ snapshots' = join
          /\ PublishStripped(join, Desired[join], "authoritative", TRUE)
    /\ UNCHANGED rest

-----------------------------------------------------------------------------
(* ComponentRuntime1 *)

serving == idle /\ state = "authoritative"

\* A commit that fails is followed by a rebuild, which strips the plan.
OrSafeMode ==
    /\ CommitFails
    /\ rest' = "rebuild"
    /\ UNCHANGED <<plan, activating, barred>>

\* Faulty variant of AuthorizeSurfacePlan: the answer does not wait for the
\* record.
AuthorizeUnrecorded ==
    /\ serving /\ ~health.safeMode
    /\ health' = [health EXCEPT !.pending = @ \cup artifact.packages]
    /\ probation' = (health'.pending # {})
    /\ activating' = artifact.packages
    /\ UNCHANGED <<plan, healthFiles, rest, barred>>

\* authorizeSurfacePlan, for the plan the caller names.
AuthorizeSurfacePlan ==
    /\ serving /\ ~health.safeMode
    /\ artifact.packages \cap health.quarantined = {}
    /\ LET next == [health EXCEPT !.pending = @ \cup artifact.packages] IN
       \/ /\ IF next = health THEN UNCHANGED <<health, healthFiles>> ELSE Commit(next)
          /\ probation' = (next.pending # {})
          /\ activating' = artifact.packages
          /\ UNCHANGED <<plan, rest, barred>>
       \/ next # health /\ OrSafeMode

\* cancelSurfacePlanAuthorization.
CancelSurfacePlanAuthorization ==
    /\ serving /\ health.pending # {}
    /\ \/ /\ Commit([health EXCEPT !.pending = {}])
          /\ probation' = FALSE
          /\ activating' = {}
          /\ UNCHANGED <<plan, rest, barred>>
       \/ OrSafeMode

\* activationStable.
ActivationStable(package) ==
    /\ serving
    /\ package \in artifact.packages \cap health.pending
    /\ \/ /\ Commit([health EXCEPT !.pending = @ \ {package}])
          /\ probation' = (probation /\ health'.pending # {})
          /\ activating' = activating \ {package}
          /\ UNCHANGED <<plan, rest, barred>>
       \/ OrSafeMode

\* Quarantining goes with a rebuild, whether or not it could be recorded.
Quarantine(packages, armed) ==
    \/ /\ Commit(Quarantined(packages))
       /\ probation' = armed
       /\ rest' = "rebuild"
       /\ activating' = activating \ packages
       /\ barred' = barred \cup packages
       /\ UNCHANGED plan
    \/ OrSafeMode

\* activationFailed, also of an activation that was stable before.
ActivationFailed(package) ==
    /\ serving
    /\ package \in artifact.packages
    /\ Quarantine({package}, probation)

\* quarantinePending, when the probation timer fires.
ProbationExpires ==
    /\ idle /\ probation
    /\ \/ /\ health.pending = {}
          /\ probation' = FALSE
          /\ UNCHANGED <<plan, health, healthFiles, rest, activating, barred>>
       \/ health.pending # {} /\ Quarantine(health.pending, FALSE)

\* retryComponent, which looks at the health revision and at nothing else.
RetryComponent(package) ==
    /\ idle
    /\ package \in health.quarantined
    /\ \/ /\ Commit([health EXCEPT !.quarantined = @ \ {package}])
          /\ rest' = "rebuild"
          /\ barred' = barred \ {package}
          /\ UNCHANGED <<plan, probation, activating>>
       \/ OrSafeMode

\* Faulty variant of RebuildAuthoritativePlan: a failed commit is not acted on.
RebuildTrusting ==
    /\ rest = "rebuild"
    /\ rest' = "nothing"
    /\ UNCHANGED <<plan, health, healthFiles, probation, activating, barred>>

\* rebuildAuthoritativePlan.
RebuildAuthoritativePlan ==
    /\ rest = "rebuild"
    /\ rest' = "nothing"
    /\ IF snapshots = None
       THEN UNCHANGED <<plan, health, healthFiles, probation, activating, barred>>
       ELSE /\ PublishEither(snapshots, Desired[snapshots], "authoritative", TRUE)
            /\ UNCHANGED snapshots

-----------------------------------------------------------------------------
(* Starting and stopping *)

Crash ==
    /\ state # "down"
    /\ state' = "down"
    /\ artifact' = None
    /\ snapshots' = None
    /\ health' = NoHealth
    /\ probation' = FALSE
    /\ rest' = "nothing"
    /\ interrupted' = interrupted \cup activating
    /\ activating' = {}
    /\ UNCHANGED <<healthFiles, barred>>

Starts(next) ==
    /\ health' = next
    /\ state' = "hydrating"
    /\ UNCHANGED <<artifact, snapshots, probation, rest, activating>>

\* initializeRuntimeHealth: an activation left pending was never stable, so
\* its package is quarantined, or nothing of a third party is shown.
InitializeRuntimeHealth ==
    /\ state = "down"
    /\ \/ /\ UNCHANGED <<healthFiles, interrupted, barred>>
          /\ Starts(RefusedHealth)
       \/ /\ LoadSucceeds
          /\ Starts([Newest EXCEPT !.safeMode = @ \/ Newest.pending # {}])
          /\ UNCHANGED <<interrupted, barred>>
       \/ /\ ~SnapshotsDisagree
          /\ Newest.pending # {}
          /\ Newest.revision < MaxHealthRevision
          /\ Starts([Newest EXCEPT !.revision = @ + 1, !.pending = {},
                                   !.quarantined = @ \cup Newest.pending])
          /\ recovery' = health'
          /\ active' \in {Newest, health'}
          /\ interrupted' = interrupted \ Newest.pending
          /\ barred' = barred \cup Newest.pending

-----------------------------------------------------------------------------
\* What the shell may ask for, and the one timer.
Call ==
    \/ AuthorizeSurfacePlan
    \/ CancelSurfacePlanAuthorization
    \/ \E package \in Package :
          \/ ActivationStable(package)
          \/ ActivationFailed(package)
          \/ RetryComponent(package)

ControllerInit ==
    /\ active = None
    /\ recovery = None
    /\ state = "down"
    /\ artifact = None
    /\ snapshots = None
    /\ health = NoHealth
    /\ probation = FALSE
    /\ rest = "nothing"
    /\ activating = {}
    /\ interrupted = {}
    /\ barred = {}
=============================================================================
