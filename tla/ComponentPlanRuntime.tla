----------------------- MODULE ComponentPlanRuntime -----------------------
(***************************************************************************)
(* The hydrator of the coordinator, composed with its plan controller and  *)
(* with the two services whose state a plan joins: the component manager's *)
(* catalog and the configuration that was validated against a catalog.     *)
(*                                                                         *)
(* A hydration is a chain of asynchronous calls.  Signals of the services  *)
(* and the retry timer start a new chain at any time; the replies of an    *)
(* older one still arrive and must change nothing.  Messages of one        *)
(* service arrive in the order they were sent, so a reply shows the state  *)
(* its sender has when it is delivered, or a later signal is on its way.   *)
(***************************************************************************)
EXTENDS ComponentPlanController, FiniteSets, Sequences

CONSTANTS
    MaxCatalog,     \* bound: changes of the catalog
    MaxRevision,    \* bound: changes of the configuration
    MaxOutages,     \* bound: times the services leave the bus
    MaxSuperseded   \* bound: superseded calls still under way

ASSUME RuntimeAssumption ==
    /\ {MaxCatalog, MaxRevision, MaxOutages, MaxSuperseded} \subseteq Nat
    /\ Join = (0..MaxCatalog) \X (0..MaxRevision)

VARIABLES
    calls,      \* calls under way; one of the present generation at most
    retry,      \* whether retryTimer_ is active
    \* the services
    catalog,    \* the catalog of the component manager
    revision,   \* the revision of the component configuration
    validated,  \* the catalog the configuration was validated against
    present,    \* whether the services are on the bus
    outages,    \* outages so far
    \* signals under way
    changed,    \* which services' PropertiesChanged are under way
    owners      \* NameOwnerChanged: whether each leaves an owner

hydrator == <<calls, retry>>
services == <<catalog, revision, validated, present, outages>>
signals == <<changed, owners>>
vars == <<controllerVars, hydrator, services, signals>>

FirstCall == [fresh |-> TRUE, stage |-> "catalog", catalog |-> 0, revision |-> 0]

\* ++generation_: what is under way becomes superseded.
Superseded(kept) ==
    /\ kept \subseteq {[c EXCEPT !.fresh = FALSE] : c \in calls}
    /\ Cardinality(kept) <= MaxSuperseded

-----------------------------------------------------------------------------
(* ComponentPlanHydrator *)

Refresh ==
    /\ BeginHydration
    /\ retry' = FALSE
    /\ \E kept \in SUBSET {[c EXCEPT !.fresh = FALSE] : c \in calls} :
          Superseded(kept) /\ calls' = kept \cup {FirstCall}

\* Faulty variant of RetryTimerFires: a chain under way is taken to be enough.
RetryTimerIdle ==
    /\ idle /\ retry
    /\ retry' = FALSE
    /\ UNCHANGED <<controllerVars, calls, services, signals>>

RetryTimerFires ==
    /\ idle /\ retry
    /\ Refresh
    /\ UNCHANGED <<services, signals, interrupted>>

\* managerPropertiesChanged and configPropertiesChanged.
PropertiesChanged(service) ==
    /\ idle
    /\ service \in changed
    /\ changed' = changed \ {service}
    /\ Refresh
    /\ UNCHANGED <<services, owners, interrupted>>

\* sourceOwnerChanged: the failure is published, and a hydration follows at
\* once when there is a new owner.
SourceOwnerChanged ==
    /\ idle
    /\ owners # <<>>
    /\ owners' = Tail(owners)
    /\ SourceUnavailable
    /\ \E kept \in SUBSET {[c EXCEPT !.fresh = FALSE] : c \in calls} :
          Superseded(kept) /\ calls' = kept
    /\ rest' = IF Head(owners) THEN "refresh" ELSE "nothing"
    /\ retry' = ~Head(owners)
    /\ UNCHANGED <<services, changed, interrupted>>

RefreshAppeared ==
    /\ rest = "refresh"
    /\ Refresh
    /\ UNCHANGED <<services, signals, interrupted>>

\* Faulty variant of Fresh: the generation of a reply is not looked at.
Unchecked(c) == TRUE

\* generation == generation_.
Fresh(c) == c.fresh

Finished(c) == calls \ {c}

\* fail and scheduleRetry.
HydrationFails(c) ==
    /\ Fail
    /\ retry' = TRUE
    /\ calls' = Finished(c)
    /\ UNCHANGED <<snapshots, rest>>

Advance(c, stage) ==
    /\ calls' = Finished(c) \cup {[c EXCEPT !.stage = stage,
                                            !.catalog = catalog,
                                            !.revision = revision]}
    /\ UNCHANGED <<controllerVars, retry>>

\* ListComponents, then every GetComponent and GetDeclarativeRuntime, all of
\* which name the catalog digest they expect.
CatalogAnswers(c) == c.stage = "catalog" /\ present /\ Advance(c, "properties")

\* GetAll: the configuration has to be of the catalog that was listed.
PropertiesAnswer(c) ==
    /\ c.stage = "properties" /\ present
    /\ validated = c.catalog
    /\ calls' = Finished(c) \cup {[c EXCEPT !.stage = "snapshot", !.revision = revision]}
    /\ UNCHANGED <<controllerVars, retry>>

SnapshotMatches(c) == revision = c.revision /\ validated = c.catalog

\* GetSnapshot: it has to be the one whose properties were read.
SnapshotAnswers(c) ==
    /\ c.stage = "snapshot" /\ present
    /\ SnapshotMatches(c)
    /\ calls' = Finished(c)
    /\ AcceptSnapshots(<<c.catalog, revision>>)
    /\ UNCHANGED retry

SnapshotRejected(c) ==
    /\ c.stage = "snapshot" /\ present
    /\ SnapshotMatches(c)
    /\ RejectSnapshots(<<c.catalog, revision>>)
    /\ retry' = TRUE
    /\ calls' = Finished(c)

Answered == \E c \in calls :
    /\ idle /\ Fresh(c)
    /\ CatalogAnswers(c) \/ PropertiesAnswer(c) \/ SnapshotAnswers(c)
    /\ UNCHANGED <<services, signals, interrupted>>

\* A call that fails or times out, and a reply that does not fit.
Refused == \E c \in calls :
    /\ idle /\ Fresh(c)
    /\ HydrationFails(c) \/ SnapshotRejected(c)
    /\ UNCHANGED <<services, signals, interrupted>>

Dropped == \E c \in calls :
    /\ idle /\ ~Fresh(c)
    /\ calls' = Finished(c)
    /\ UNCHANGED <<controllerVars, retry, services, signals>>

-----------------------------------------------------------------------------
(* The services *)

Told(service) ==
    IF present /\ state # "down" THEN changed \cup {service} ELSE changed

CatalogChanges ==
    /\ catalog < MaxCatalog
    /\ catalog' = catalog + 1
    /\ changed' = Told("manager")
    /\ UNCHANGED <<controllerVars, hydrator, revision, validated, present,
                   outages, owners>>

\* A replacement of the configuration, or its validation anew.
ConfigurationChanges ==
    /\ revision < MaxRevision
    /\ revision' = revision + 1
    /\ changed' = Told("config")
    /\ UNCHANGED <<controllerVars, hydrator, catalog, validated, present,
                   outages, owners>>

ConfigurationValidates ==
    /\ validated # catalog
    /\ validated' = catalog
    /\ changed' = Told("config")
    /\ UNCHANGED <<controllerVars, hydrator, catalog, revision, present,
                   outages, owners>>

SourceLost ==
    /\ present /\ outages < MaxOutages
    /\ present' = FALSE
    /\ outages' = outages + 1
    /\ owners' = IF state = "down" THEN owners ELSE Append(owners, FALSE)
    /\ UNCHANGED <<controllerVars, hydrator, catalog, revision, validated, changed>>

SourceBack ==
    /\ ~present
    /\ present' = TRUE
    /\ owners' = IF state = "down" THEN owners ELSE Append(owners, TRUE)
    /\ UNCHANGED <<controllerVars, hydrator, catalog, revision, validated,
                   outages, changed>>

-----------------------------------------------------------------------------
Start ==
    /\ InitializeRuntimeHealth
    /\ calls' = {FirstCall}
    /\ UNCHANGED <<retry, services, signals>>

Stop ==
    /\ Crash
    /\ calls' = {}
    /\ retry' = FALSE
    /\ changed' = {}
    /\ owners' = <<>>
    /\ UNCHANGED services

Init ==
    /\ ControllerInit
    /\ calls = {}
    /\ retry = FALSE
    /\ catalog = 0
    /\ revision = 0
    /\ validated = 0
    /\ present = TRUE
    /\ outages = 0
    /\ changed = {}
    /\ owners = <<>>

Hydrate ==
    \/ RetryTimerFires
    \/ \E service \in changed : PropertiesChanged(service)
    \/ SourceOwnerChanged \/ RefreshAppeared
    \/ Answered \/ Refused \/ Dropped

Serve ==
    /\ Call \/ ProbationExpires \/ RebuildAuthoritativePlan
    /\ UNCHANGED <<hydrator, services, signals, interrupted>>

Services ==
    \/ CatalogChanges \/ ConfigurationChanges \/ ConfigurationValidates
    \/ SourceLost \/ SourceBack

Next == Hydrate \/ Serve \/ Services \/ Start \/ Stop

Spec == Init /\ [][Next]_vars

\* A reply is acted on, if only to find that the record can take no more.
AnsweredAt(stage) ==
    /\ Answered \/ (Refused /\ health'.safeMode)
    /\ \E c \in calls : c.fresh /\ c.stage = stage

\* What a handler has left to do is done before anything else.
FinishesHandler == (RebuildAuthoritativePlan /\ Serve) \/ RefreshAppeared

\* The coordinator is restarted and stays up, its event loop delivers signals
\* and timers, services that left come back, and a call that is repeated for
\* ever is answered sometimes.
LiveSpec ==
    /\ Spec
    /\ <>[][~Stop]_vars
    /\ WF_vars(Start)
    /\ WF_vars(FinishesHandler)
    /\ WF_vars(RetryTimerFires)
    /\ WF_vars(\E service \in changed : PropertiesChanged(service))
    /\ WF_vars(SourceOwnerChanged)
    /\ WF_vars(SourceBack)
    /\ WF_vars(ConfigurationValidates)
    /\ \A stage \in {"catalog", "properties", "snapshot"} : SF_vars(AnsweredAt(stage))

-----------------------------------------------------------------------------
(* Properties *)

FetchCall == [fresh: BOOLEAN, stage: {"catalog", "properties", "snapshot"},
              catalog: 0..MaxCatalog, revision: 0..MaxRevision]

\* Every variable is in its range, and there is at most one chain of calls of
\* the present generation (generation_).
TypeOK ==
    /\ {active, recovery} \subseteq Health \cup {None}
    /\ health \in Health
    /\ state \in {"down", "hydrating", "authoritative", "retained", "unavailable"}
    /\ artifact \in {None} \cup [join: Join, packages: SUBSET Package]
    /\ snapshots \in {None} \cup Join
    /\ {probation, retry, present} \subseteq BOOLEAN
    /\ rest \in {"nothing", "rebuild", "refresh"}
    /\ {activating, interrupted, barred} \subseteq SUBSET Package
    /\ calls \subseteq FetchCall
    /\ Cardinality({c \in calls : c.fresh}) <= 1
    /\ catalog \in 0..MaxCatalog
    /\ revision \in 0..MaxRevision
    /\ validated \in 0..catalog
    /\ outages \in 0..MaxOutages
    /\ changed \subseteq {"manager", "config"}
    /\ owners \in Seq(BOOLEAN)

\* Every activation in probation belongs to the published plan and has the
\* deadline running that ends it (preparePending, probationTimer_).
ProbationIsTimed ==
    idle /\ ~health.safeMode /\ health.pending # {} =>
        /\ probation
        /\ state = "authoritative"
        /\ health.pending \subseteq artifact.packages

\* A published plan shows a third party only while it is authoritative, the
\* health record is trusted and the package is not quarantined, and everything
\* in probation is in that plan with the deadline running that ends it, however
\* the handler before failed (publishPlan, rebuildAuthoritativePlan,
\* preparePending).
ShownIsAdmissible ==
    /\ idle /\ artifact # None /\ artifact.packages # {} =>
           /\ state = "authoritative"
           /\ ~health.safeMode
           /\ artifact.packages \cap health.quarantined = {}
    /\ ProbationIsTimed

\* An activation the shell was authorized for is on disk until it has ended:
\* whenever the coordinator is killed, and however often, the next start that
\* can read its record finds the package pending or quarantined, or stays in
\* safe mode (authorizeSurfacePlan, initializeRuntimeHealth).
InterruptedNeverForgotten ==
    \A package \in activating \cup interrupted :
        \/ package \in Newest.pending \cup Newest.quarantined
        \/ Newest.safeMode

\* A recorded quarantine lasts across crashes and changes of the plan until
\* the exact package is retried (filterQuarantined, retryComponent).
QuarantineHolds ==
    /\ barred \subseteq Newest.quarantined
    /\ idle /\ artifact # None => artifact.packages \cap barred = {}

\* A plan is never made of two generations: the catalog listed at the start
\* of a hydration is what the configuration accepted at its end was validated
\* against; and a reply of a superseded chain changes nothing, so what is
\* accepted is what the services have, unless a signal that starts a new chain
\* is still under way (fetchConfigurationSnapshot, generation_).
AcceptedJoinIsCurrent ==
    [][snapshots' \notin {snapshots, None} =>
           /\ snapshots'[1] = validated
           /\ changed = {} /\ owners = <<>> => snapshots' = <<catalog, revision>>]_vars

\* An authoritative plan has its services: once the loss of one has been
\* delivered, the plan is retained until they are joined again.
AuthoritativeHasItsServices ==
    idle /\ state = "authoritative" /\ owners = <<>> => present

\* Left alone, the plan becomes the join of the present catalog and
\* configuration and stays it, or the record has failed (scheduleRetry).
PlanFollowsServices ==
    <>[](\/ health.safeMode
         \/ /\ state = "authoritative"
            /\ artifact.join = <<catalog, revision>>)
=============================================================================
