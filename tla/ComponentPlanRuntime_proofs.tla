-------------------- MODULE ComponentPlanRuntime_proofs -------------------
(***************************************************************************)
(* What the coordinator may show of third parties, what it remembers of    *)
(* their activations, and that a plan joins one state of its sources, for  *)
(* every set of packages, every catalog and every number of changes,       *)
(* outages and crashes.                                                    *)
(***************************************************************************)
EXTENDS ComponentPlanRuntime, FiniteSetTheorems, SequenceTheorems, TLAPS

-----------------------------------------------------------------------------
(* Types *)

Plans == [join: Join, packages: SUBSET Package]

OneChain == \A c, d \in calls : c.fresh /\ d.fresh => c = d

\* What TypeOK says, with the uniqueness of the present chain in the terms of
\* which the steps speak, and what a coordinator that is down has.
TypeInv ==
    /\ active \in Health \cup {None} /\ recovery \in Health \cup {None}
    /\ health \in Health
    /\ state \in {"down", "hydrating", "authoritative", "retained", "unavailable"}
    /\ artifact \in {None} \cup Plans
    /\ snapshots \in {None} \cup Join
    /\ probation \in BOOLEAN /\ retry \in BOOLEAN /\ present \in BOOLEAN
    /\ rest \in {"nothing", "rebuild", "refresh"}
    /\ activating \subseteq Package
    /\ interrupted \subseteq Package
    /\ barred \subseteq Package
    /\ calls \subseteq FetchCall
    /\ OneChain
    /\ catalog \in 0..MaxCatalog
    /\ revision \in 0..MaxRevision
    /\ validated \in 0..catalog
    /\ outages \in 0..MaxOutages
    /\ changed \subseteq {"manager", "config"}
    /\ owners \in Seq(BOOLEAN)
    /\ artifact # None => snapshots # None
    /\ state = "down" => /\ artifact = None /\ snapshots = None
                         /\ rest = "nothing" /\ calls = {}

\* What the controller's variables are, without the hydrator's and the services'.
ControllerType ==
    /\ active \in Health \cup {None} /\ recovery \in Health \cup {None}
    /\ health \in Health
    /\ state \in {"hydrating", "authoritative", "retained", "unavailable"}
    /\ artifact \in {None} \cup Plans
    /\ snapshots \in {None} \cup Join
    /\ probation \in BOOLEAN
    /\ activating \subseteq Package
    /\ barred \subseteq Package
    /\ artifact # None => snapshots # None

\* An empty optional is no record.
LEMMA NoneIsNothing == None \notin Health /\ None \notin Plans /\ None \notin Join
  BY HealthAssumption, JoinAssumption DEF Health, Plans

\* The empty record and the one that was refused are records.
LEMMA NoHealthType == NoHealth \in Health /\ RefusedHealth \in Health
  <1>1. 0 \in 0..MaxHealthRevision
    BY HealthAssumption
  <1>2. NoHealth \in Health
    BY <1>1 DEF NoHealth, Health
  <1>3. RefusedHealth \in Health
    BY <1>2 DEF RefusedHealth, Health
  <1> QED
    BY <1>2, <1>3

\* What a load selects is a record, and none of the files is ahead of it.
LEMMA NewestIsRecord ==
    ASSUME active \in Health \cup {None}, recovery \in Health \cup {None}
    PROVE  Newest \in Health
  BY NoHealthType DEF Newest

\* A commit is what a load then finds, whether or not the mirror was written.
LEMMA CommitIsNewest ==
    ASSUME active \in Health \cup {None}, recovery \in Health \cup {None},
           health \in Health, health.revision = Newest.revision,
           NEW next \in Health, Commit(next)
    PROVE  /\ active' \in Health \cup {None} /\ recovery' \in Health \cup {None}
           /\ health' = [next EXCEPT !.revision = health.revision + 1]
           /\ health' \in Health
           /\ health'.quarantined = next.quarantined
           /\ health'.pending = next.pending
           /\ health'.safeMode = next.safeMode
           /\ Newest' = health'
  <1>1. /\ health' = [next EXCEPT !.revision = health.revision + 1]
        /\ health.revision < MaxHealthRevision
        /\ recovery' = health' /\ active' \in {active, health'}
    BY DEF Commit, Persist
  <1>2. /\ health' \in Health
        /\ health'.quarantined = next.quarantined
        /\ health'.pending = next.pending
        /\ health'.safeMode = next.safeMode
        /\ health'.revision = health.revision + 1
    BY <1>1, HealthAssumption DEF Health
  <1>3. active # None => active.revision <= health.revision
    <2> SUFFICES ASSUME active # None PROVE active.revision <= health.revision
      OBVIOUS
    <2>1. active \in Health /\ active.revision \in Nat
      BY HealthAssumption DEF Health
    <2>2. recovery # None => recovery.revision \in Nat
      BY HealthAssumption DEF Health
    <2> QED
      BY <2>1, <2>2 DEF Newest
  <1>4. Newest' = health'
    <2>1. recovery' # None
      BY <1>1, <1>2, NoneIsNothing
    <2>2. CASE active' = active
      <3>1. active = None \/ recovery'.revision > active'.revision
        <4> SUFFICES ASSUME active # None PROVE recovery'.revision > active'.revision
          OBVIOUS
        <4>1. active.revision \in Nat /\ health.revision \in Nat
          BY HealthAssumption DEF Health
        <4> QED
          BY <4>1, <1>1, <1>2, <1>3, <2>2
      <3> QED
        BY <1>1, <2>1, <2>2, <3>1 DEF Newest
    <2>3. CASE active' = health'
      BY <1>1, <2>1, <2>3 DEF Newest
    <2> QED
      BY <1>1, <2>2, <2>3
  <1> QED
    BY <1>1, <1>2, <1>4

-----------------------------------------------------------------------------
(* The record in memory and on disk *)

\* A load that could not be trusted: nothing of it is ever written.
Untrusted == health.safeMode /\ health.quarantined = {} /\ health.pending = {}

\* Otherwise memory has what a load would find, but for a safe mode of its own.
Recorded ==
    /\ health.revision = Newest.revision
    /\ health.quarantined = Newest.quarantined
    /\ health.pending = Newest.pending
    /\ Newest.safeMode => health.safeMode

\* What the next start has to know of activations is on disk as pending.
Remembered ==
    activating \cup interrupted \subseteq Newest.pending \/ Newest.safeMode

Kept ==
    /\ Untrusted \/ Recorded
    /\ Remembered
    /\ barred \subseteq Newest.quarantined
    /\ ~health.safeMode => interrupted = {}
    /\ activating # {} => artifact # None /\ activating \subseteq artifact.packages
    /\ artifact = None /\ ~health.safeMode => health.pending = {}
    /\ state = "authoritative" => artifact # None

\* What ShownIsAdmissible says, also while a hydration is still to begin.
Admissible ==
    /\ artifact # None /\ artifact.packages # {} =>
           /\ state = "authoritative"
           /\ ~health.safeMode
           /\ artifact.packages \cap health.quarantined = {}
    /\ ~health.safeMode /\ health.pending # {} =>
           /\ probation
           /\ state = "authoritative"
           /\ health.pending \subseteq artifact.packages

\* A commit out of a record that is on disk.
LEMMA CommitKeeps ==
    ASSUME ControllerType, Kept, Recorded, interrupted' = interrupted,
           NEW next \in Health, Commit(next), next.safeMode = health.safeMode,
           ~health.safeMode => activating' \subseteq next.pending,
           barred' \subseteq next.quarantined
    PROVE  /\ active' \in Health \cup {None} /\ recovery' \in Health \cup {None}
           /\ health' \in Health
           /\ health'.quarantined = next.quarantined
           /\ health'.pending = next.pending
           /\ health'.safeMode = next.safeMode
           /\ Recorded' /\ Remembered' /\ barred' \subseteq Newest'.quarantined
           /\ ~health'.safeMode => interrupted' = {}
  <1>1. /\ active' \in Health \cup {None} /\ recovery' \in Health \cup {None}
        /\ health' \in Health
        /\ health'.quarantined = next.quarantined
        /\ health'.pending = next.pending
        /\ health'.safeMode = next.safeMode
        /\ Newest' = health'
    BY CommitIsNewest DEF ControllerType, Recorded
  <1>2. health'.safeMode \in BOOLEAN
    BY <1>1 DEF Health
  <1> QED
    BY <1>1, <1>2 DEF Recorded, Remembered, Kept

\* A commit that fails leaves the disk as it was.
LEMMA FailedCommitKeeps ==
    ASSUME ControllerType, Kept, interrupted' = interrupted, barred' = barred,
           activating' \subseteq activating, CommitFails
    PROVE  /\ active' \in Health \cup {None} /\ recovery' \in Health \cup {None}
           /\ health' \in Health /\ health'.safeMode
           /\ health'.quarantined = health.quarantined
           /\ probation' = FALSE
           /\ Untrusted' \/ Recorded'
           /\ Remembered' /\ barred' \subseteq Newest'.quarantined
  <1>1. /\ health' = [health EXCEPT !.safeMode = TRUE]
        /\ active' = active /\ recovery' = recovery /\ probation' = FALSE
    BY DEF CommitFails, healthFiles
  <1>2. /\ health' \in Health /\ health'.safeMode
        /\ health'.quarantined = health.quarantined
        /\ health'.pending = health.pending
        /\ health'.revision = health.revision
    BY <1>1 DEF ControllerType, Health
  <1>3. Newest' = Newest
    BY <1>1 DEF Newest
  <1> QED
    BY <1>1, <1>2, <1>3 DEF ControllerType, Kept, Untrusted, Recorded, Remembered

-----------------------------------------------------------------------------
(* publishPlan *)

\* publishPlan shows nobody unless trusted, and nobody that is quarantined.
LEMMA ShownPackages ==
    ASSUME NEW packages \in SUBSET Package, NEW trusted \in BOOLEAN
    PROVE  /\ Shown(packages, trusted) \subseteq Package
           /\ Shown(packages, trusted) # {} =>
                 /\ trusted /\ ~health.safeMode
                 /\ Shown(packages, trusted) \cap health.quarantined = {}
  BY DEF Shown

\* publishPlan, with the change of probation recorded or not.
LEMMA PublishKeeps ==
    ASSUME ControllerType, Kept, interrupted' = interrupted,
           NEW join \in Join, NEW packages \in SUBSET Package,
           NEW nextState \in {"authoritative", "retained"}, NEW trusted \in BOOLEAN,
           trusted => nextState = "authoritative",
           snapshots' \in Join,
           PublishEither(join, packages, nextState, trusted)
    PROVE  ControllerType' /\ Kept' /\ Admissible' /\ barred' = barred
  <1> DEFINE shown == Shown(packages, trusted)
             next == [join |-> join, packages |-> shown]
  <1>1. /\ shown \subseteq Package
        /\ shown # {} => /\ trusted /\ ~health.safeMode
                         /\ shown \cap health.quarantined = {}
    BY ShownPackages
  <1>2. next \in Plans /\ next # None /\ next.packages = shown /\ next.join = join
    BY <1>1, NoneIsNothing DEF Plans
  <1>3. /\ StillPending(next) \subseteq shown /\ StillPending(next) \subseteq health.pending
        /\ StillPending(next) \subseteq Package
        /\ artifact = next => StillPending(next) = health.pending \cap artifact.packages
    BY <1>1, <1>2, NoneIsNothing DEF StillPending, ControllerType, Health
  <1>h. /\ health \in Health /\ health.safeMode \in BOOLEAN
        /\ health.pending \subseteq Package /\ health.quarantined \subseteq Package
    BY DEF ControllerType, Health
  <1>4. CASE PublishPlan(join, packages, nextState, trusted)
    <2>1. /\ artifact' = next /\ state' = nextState
          /\ activating' = IF next = artifact THEN activating ELSE {}
          /\ barred' = barred
          /\ probation' = (StillPending(next) # {})
          /\ IF StillPending(next) = health.pending
             THEN UNCHANGED <<health, healthFiles>>
             ELSE Commit([health EXCEPT !.pending = StillPending(next)])
      BY <1>4 DEF PublishPlan, Install
    <2>2. /\ activating' \subseteq activating /\ activating' \subseteq shown
          /\ activating' # {} => artifact = next
      BY <2>1, <1>2 DEF Kept
    <2> HIDE DEF shown, next
    <2>3. /\ active' \in Health \cup {None} /\ recovery' \in Health \cup {None}
          /\ health' \in Health
          /\ health'.quarantined = health.quarantined
          /\ health'.pending = StillPending(next)
          /\ health'.safeMode = health.safeMode
          /\ Untrusted' \/ Recorded'
          /\ Remembered' /\ barred' \subseteq Newest'.quarantined
          /\ ~health'.safeMode => interrupted' = {}
      <3>1. CASE StillPending(next) = health.pending
        <4>1. /\ health' = health /\ active' = active /\ recovery' = recovery
          BY <2>1, <3>1 DEF healthFiles
        <4>2. Newest' = Newest
          BY <4>1 DEF Newest
        <4> QED
          BY <3>1, <4>1, <4>2, <2>1, <2>2
             DEF ControllerType, Kept, Untrusted, Recorded, Remembered
      <3>2. CASE StillPending(next) # health.pending
        <4> DEFINE record == [health EXCEPT !.pending = StillPending(next)]
        <4>1. Commit(record)
          BY <2>1, <3>2
        <4>2. /\ record \in Health /\ record.pending = StillPending(next)
              /\ record.quarantined = health.quarantined
              /\ record.safeMode = health.safeMode
          BY <1>h, <1>3 DEF Health
        <4>3. Recorded
          BY <1>3, <3>2 DEF Kept, Untrusted
        <4>4. ~health.safeMode => activating' \subseteq StillPending(next)
          <5> SUFFICES ASSUME ~health.safeMode, activating' # {}
                       PROVE  activating' \subseteq StillPending(next)
            OBVIOUS
          <5>1. artifact = next /\ activating' = activating
            BY <2>1, <2>2
          <5>2. activating \subseteq health.pending /\ activating \subseteq artifact.packages
            BY <4>3, <5>1 DEF Kept, Remembered, Recorded
          <5> QED
            BY <1>3, <5>1, <5>2
        <4>5. barred' \subseteq record.quarantined
          BY <2>1, <4>2, <4>3 DEF Kept, Recorded
        <4> HIDE DEF record
        <4> QED
          BY <4>1, <4>2, <4>3, <4>4, <4>5, CommitKeeps
      <3> QED
        BY <3>1, <3>2
    <2>4. ControllerType'
      <3>1. probation' \in BOOLEAN
        BY <2>1
      <3> QED
        BY <1>2, <2>1, <2>2, <2>3, <3>1, NoneIsNothing DEF ControllerType
    <2>5. Kept'
      BY <1>2, <2>1, <2>2, <2>3 DEF Kept
    <2>6. Admissible'
      BY <1>1, <1>2, <1>3, <2>1, <2>3 DEF Admissible
    <2> QED
      BY <2>1, <2>4, <2>5, <2>6
  <1>5. CASE PublishStripped(join, packages, nextState, trusted)
    <2> DEFINE bare == [next EXCEPT !.packages = {}]
    <2>1. CommitFails /\ Install(bare, nextState)
      BY <1>5 DEF PublishStripped
    <2>2. bare \in Plans /\ bare # None /\ bare.packages = {}
      BY <1>2, NoneIsNothing DEF Plans
    <2> HIDE DEF bare, next, shown
    <2>3. /\ artifact' = bare /\ state' = nextState /\ barred' = barred
          /\ activating' = IF bare = artifact THEN activating ELSE {}
      BY <2>1 DEF Install
    <2>4. activating' = {}
      BY <2>2, <2>3 DEF Kept
    <2>5. /\ active' \in Health \cup {None} /\ recovery' \in Health \cup {None}
          /\ health' \in Health /\ health'.safeMode
          /\ probation' = FALSE
          /\ Untrusted' \/ Recorded'
          /\ Remembered' /\ barred' \subseteq Newest'.quarantined
      BY <2>1, <2>3, <2>4, FailedCommitKeeps
    <2> QED
      BY <2>2, <2>3, <2>4, <2>5, NoneIsNothing DEF ControllerType, Kept, Admissible
  <1> QED
    BY <1>4, <1>5 DEF PublishEither

\* A plan that is retained shows nobody (retainPlan).
LEMMA RetainKeeps ==
    ASSUME ControllerType, Kept, interrupted' = interrupted,
           snapshots' = snapshots, artifact # None, Retain
    PROVE  ControllerType' /\ Kept' /\ Admissible'
  <1>1. /\ artifact.join \in Join /\ artifact.packages \in SUBSET Package
        /\ snapshots' \in Join
    BY DEF ControllerType, Plans
  <1> QED
    BY <1>1, PublishKeeps DEF Retain

\* A commit, or a failed one, of a record that only drops its probation.
LEMMA DropKeeps ==
    ASSUME ControllerType, Kept, interrupted' = interrupted, artifact = None,
           artifact' = artifact, activating' = activating, barred' = barred,
           snapshots' = snapshots, state' \in {"hydrating", "retained", "unavailable"},
           DropPending
    PROVE  ControllerType' /\ Kept' /\ Admissible'
  <1>1. activating = {}
    BY DEF Kept
  <1>2. CASE /\ health.pending = {} /\ probation' = FALSE
             /\ UNCHANGED <<health, healthFiles>>
    <2>1. /\ health' = health /\ active' = active /\ recovery' = recovery
      BY <1>2 DEF healthFiles
    <2>2. Newest' = Newest
      BY <2>1 DEF Newest
    <2> QED
      BY <1>1, <1>2, <2>1, <2>2
         DEF ControllerType, Kept, Admissible, Untrusted, Recorded, Remembered
  <1>3. CASE /\ health.pending # {} /\ probation' = FALSE
             /\ Commit([health EXCEPT !.pending = {}])
    <2> DEFINE record == [health EXCEPT !.pending = {}]
    <2>1. /\ record \in Health /\ record.pending = {}
          /\ record.quarantined = health.quarantined
          /\ record.safeMode = health.safeMode
      BY DEF ControllerType, Health
    <2>2. Recorded /\ Commit(record) /\ barred' \subseteq record.quarantined
      BY <1>3, <2>1 DEF Kept, Untrusted, Recorded
    <2> HIDE DEF record
    <2>3. /\ active' \in Health \cup {None} /\ recovery' \in Health \cup {None}
          /\ health' \in Health /\ health'.pending = {}
          /\ health'.safeMode = record.safeMode
          /\ Recorded' /\ Remembered' /\ barred' \subseteq Newest'.quarantined
          /\ ~health'.safeMode => interrupted' = {}
      BY <1>1, <2>1, <2>2, CommitKeeps
    <2> QED
      BY <1>1, <1>3, <2>3 DEF ControllerType, Kept, Admissible
  <1>4. CASE CommitFails
    <2>1. /\ active' \in Health \cup {None} /\ recovery' \in Health \cup {None}
          /\ health' \in Health /\ health'.safeMode
          /\ probation' = FALSE
          /\ Untrusted' \/ Recorded'
          /\ Remembered' /\ barred' \subseteq Newest'.quarantined
      BY <1>4, FailedCommitKeeps
    <2> QED
      BY <1>1, <2>1 DEF ControllerType, Kept, Admissible
  <1> QED
    BY <1>2, <1>3, <1>4 DEF DropPending

\* setFailedState, with a plan or without one.
LEMMA FailKeeps ==
    ASSUME ControllerType, Kept, interrupted' = interrupted,
           snapshots' = snapshots, Fail
    PROVE  ControllerType' /\ Kept' /\ Admissible'
  <1>1. CASE artifact # None /\ Retain
    BY <1>1, RetainKeeps
  <1>2. CASE /\ artifact = None /\ DropPending /\ state' = "unavailable"
             /\ UNCHANGED <<artifact, activating, barred>>
    BY <1>2, DropKeeps
  <1> QED
    BY <1>1, <1>2 DEF Fail

\* beginHydration keeps the plan without its third parties.
LEMMA BeginKeeps ==
    ASSUME ControllerType, Kept, interrupted' = interrupted, BeginHydration
    PROVE  ControllerType' /\ Kept' /\ Admissible' /\ snapshots' = snapshots
  <1>1. snapshots' = snapshots
    BY DEF BeginHydration
  <1>2. CASE artifact # None /\ Retain
    BY <1>1, <1>2, RetainKeeps
  <1>3. CASE /\ artifact = None /\ state' = "hydrating"
             /\ UNCHANGED <<artifact, health, healthFiles, probation, activating,
                            barred>>
    <2>1. Newest' = Newest
      BY <1>3 DEF healthFiles, Newest
    <2> QED
      BY <1>1, <1>3, <2>1
         DEF healthFiles, ControllerType, Kept, Admissible, Untrusted, Recorded,
             Remembered
  <1> QED
    BY <1>1, <1>2, <1>3 DEF BeginHydration

\* acceptSnapshots, whether it succeeds or not.
LEMMA AcceptKeeps ==
    ASSUME ControllerType, Kept, interrupted' = interrupted, NEW join \in Join,
           AcceptSnapshots(join) \/ RejectSnapshots(join)
    PROVE  ControllerType' /\ Kept' /\ Admissible' /\ rest' = rest
  <1>1. Desired[join] \in SUBSET Package /\ rest' = rest
    BY JoinAssumption DEF AcceptSnapshots, RejectSnapshots
  <1>2. CASE Fail /\ UNCHANGED snapshots
    BY <1>1, <1>2, FailKeeps
  <1>3. CASE /\ snapshots' = join
             /\ PublishEither(join, Desired[join], "authoritative", TRUE)
    BY <1>1, <1>3, PublishKeeps
  <1> QED
    BY <1>2, <1>3 DEF AcceptSnapshots, RejectSnapshots, PublishEither

-----------------------------------------------------------------------------
(* ComponentRuntime1 and the probation timer *)

\* A commit that failed: what the plan shows is decided by the rebuild.
LEMMA OrSafeModeKeeps ==
    ASSUME ControllerType, Kept, interrupted' = interrupted, OrSafeMode
    PROVE  ControllerType' /\ Kept' /\ rest' = "rebuild"
  <1>1. /\ artifact' = artifact /\ snapshots' = snapshots /\ state' = state
        /\ activating' = activating /\ barred' = barred /\ rest' = "rebuild"
        /\ CommitFails
    BY DEF OrSafeMode, plan
  <1>2. /\ active' \in Health \cup {None} /\ recovery' \in Health \cup {None}
        /\ health' \in Health /\ health'.safeMode
        /\ probation' = FALSE
        /\ Untrusted' \/ Recorded'
        /\ Remembered' /\ barred' \subseteq Newest'.quarantined
    BY <1>1, FailedCommitKeeps
  <1> QED
    BY <1>1, <1>2 DEF ControllerType, Kept

\* authorizeSurfacePlan records an activation before it answers.
LEMMA AuthorizeKeeps ==
    ASSUME ControllerType, Kept, Admissible, interrupted' = interrupted,
           rest = "nothing", AuthorizeSurfacePlan
    PROVE  ControllerType' /\ Kept' /\ (rest' # "rebuild" => Admissible')
           /\ rest' \in {"nothing", "rebuild"}
  <1> DEFINE next == [health EXCEPT !.pending = @ \cup artifact.packages]
  <1>1. /\ state = "authoritative" /\ artifact # None /\ ~health.safeMode
        /\ artifact.packages \subseteq Package
        /\ artifact.packages \cap health.quarantined = {}
    BY DEF AuthorizeSurfacePlan, serving, Kept, ControllerType, Plans
  <1>2. /\ next \in Health
        /\ next.pending = health.pending \cup artifact.packages
        /\ next.quarantined = health.quarantined
        /\ next.safeMode = health.safeMode
    BY <1>1 DEF ControllerType, Health
  <1>3. Recorded /\ interrupted = {}
    BY <1>1 DEF Kept, Untrusted
  <1>4. CASE /\ IF next = health THEN UNCHANGED <<health, healthFiles>> ELSE Commit(next)
             /\ probation' = (next.pending # {})
             /\ activating' = artifact.packages
             /\ UNCHANGED <<plan, rest, barred>>
    <2> HIDE DEF next
    <2>1. /\ artifact' = artifact /\ snapshots' = snapshots /\ state' = state
          /\ rest' = rest /\ barred' = barred
      BY <1>4 DEF plan
    <2>2. /\ active' \in Health \cup {None} /\ recovery' \in Health \cup {None}
          /\ health' \in Health
          /\ health'.pending = next.pending
          /\ health'.quarantined = next.quarantined
          /\ health'.safeMode = next.safeMode
          /\ Recorded' /\ Remembered' /\ barred' \subseteq Newest'.quarantined
          /\ ~health'.safeMode => interrupted' = {}
      <3>1. CASE next = health
        <4>1. health' = health /\ active' = active /\ recovery' = recovery
          BY <1>4, <3>1 DEF healthFiles
        <4>2. Newest' = Newest
          BY <4>1 DEF Newest
        <4> QED
          BY <1>2, <1>3, <1>4, <2>1, <3>1, <4>1, <4>2
             DEF ControllerType, Kept, Recorded, Remembered
      <3>2. CASE next # health
        <4>1. Commit(next) /\ activating' \subseteq next.pending
          BY <1>2, <1>4, <3>2
        <4>2. barred' \subseteq next.quarantined
          BY <1>2, <1>3, <2>1 DEF Kept, Recorded
        <4> QED
          BY <1>2, <1>3, <4>1, <4>2, CommitKeeps
      <3> QED
        BY <3>1, <3>2
    <2>3. probation' \in BOOLEAN /\ (next.pending # {} => probation')
      BY <1>4
    <2>4. ControllerType' /\ Kept'
      BY <1>1, <1>4, <2>1, <2>2, <2>3 DEF ControllerType, Kept
    <2>5. Admissible'
      BY <1>1, <1>2, <2>1, <2>2, <2>3 DEF Admissible
    <2> QED
      BY <2>1, <2>4, <2>5
  <1>5. CASE OrSafeMode
    BY <1>5, OrSafeModeKeeps
  <1> QED
    BY <1>4, <1>5 DEF AuthorizeSurfacePlan

\* A change of the record that leaves the plan as it is.
LEMMA RecordKeeps ==
    ASSUME ControllerType, Kept, Recorded, interrupted' = interrupted,
           UNCHANGED plan, probation' \in BOOLEAN,
           NEW record \in Health, Commit(record),
           record.safeMode = health.safeMode,
           activating' \subseteq activating,
           ~health.safeMode => activating' \subseteq record.pending,
           barred' \subseteq record.quarantined,
           artifact = None /\ ~health.safeMode => record.pending = {}
    PROVE  /\ ControllerType' /\ Kept'
           /\ health'.pending = record.pending
           /\ health'.quarantined = record.quarantined
           /\ health'.safeMode = health.safeMode
  <1>1. /\ active' \in Health \cup {None} /\ recovery' \in Health \cup {None}
        /\ health' \in Health
        /\ health'.quarantined = record.quarantined
        /\ health'.pending = record.pending
        /\ health'.safeMode = record.safeMode
        /\ Recorded' /\ Remembered' /\ barred' \subseteq Newest'.quarantined
        /\ ~health'.safeMode => interrupted' = {}
    BY CommitKeeps
  <1>2. artifact' = artifact /\ snapshots' = snapshots /\ state' = state
    BY DEF plan
  <1>3. record.quarantined \subseteq Package
    BY DEF Health
  <1> QED
    BY <1>1, <1>2, <1>3 DEF ControllerType, Kept

\* The fields of the record in memory.
LEMMA HealthFields ==
    ASSUME ControllerType
    PROVE  /\ health \in Health /\ health.safeMode \in BOOLEAN
           /\ health.pending \subseteq Package /\ health.quarantined \subseteq Package
           /\ Kept /\ health.pending # {} => Recorded
           /\ Kept /\ health.quarantined # {} => Recorded
           /\ Kept /\ ~health.safeMode => Recorded
  BY DEF ControllerType, Health, Kept, Untrusted

\* What is in progress is pending, unless the record is no longer trusted.
LEMMA InProgressIsPending ==
    ASSUME Kept, Recorded, ~health.safeMode PROVE activating \subseteq health.pending
  BY DEF Kept, Recorded, Remembered

\* cancelSurfacePlanAuthorization ends what it takes off the record.
LEMMA CancelKeeps ==
    ASSUME ControllerType, Kept, Admissible, interrupted' = interrupted,
           rest = "nothing", CancelSurfacePlanAuthorization
    PROVE  ControllerType' /\ Kept' /\ (rest' # "rebuild" => Admissible')
           /\ rest' \in {"nothing", "rebuild"}
  <1> DEFINE record == [health EXCEPT !.pending = {}]
  <1>1. Recorded
    BY HealthFields DEF CancelSurfacePlanAuthorization
  <1>2. /\ record \in Health /\ record.pending = {}
        /\ record.quarantined = health.quarantined
        /\ record.safeMode = health.safeMode
    BY HealthFields DEF Health
  <1>3. CASE /\ Commit(record) /\ probation' = FALSE /\ activating' = {}
             /\ UNCHANGED <<plan, rest, barred>>
    <2> HIDE DEF record
    <2>1. barred' \subseteq record.quarantined
      BY <1>1, <1>2, <1>3 DEF Kept, Recorded
    <2>2. /\ ControllerType' /\ Kept'
          /\ health'.pending = {}
          /\ health'.quarantined = health.quarantined
          /\ health'.safeMode = health.safeMode
      BY <1>1, <1>2, <1>3, <2>1, RecordKeeps
    <2> QED
      BY <1>3, <2>2 DEF Admissible, plan
  <1>4. CASE OrSafeMode
    BY <1>4, OrSafeModeKeeps
  <1> QED
    BY <1>3, <1>4 DEF CancelSurfacePlanAuthorization

\* activationStable ends one activation.
LEMMA StableKeeps ==
    ASSUME ControllerType, Kept, Admissible, interrupted' = interrupted,
           rest = "nothing", NEW package, ActivationStable(package)
    PROVE  ControllerType' /\ Kept' /\ (rest' # "rebuild" => Admissible')
           /\ rest' \in {"nothing", "rebuild"}
  <1> DEFINE record == [health EXCEPT !.pending = @ \ {package}]
  <1>1. Recorded /\ package \in health.pending /\ state = "authoritative"
        /\ artifact # None
    BY HealthFields DEF ActivationStable, serving, Kept
  <1>2. /\ record \in Health /\ record.pending = health.pending \ {package}
        /\ record.quarantined = health.quarantined
        /\ record.safeMode = health.safeMode
    BY HealthFields DEF Health
  <1>3. CASE /\ Commit(record) /\ probation' = (probation /\ health'.pending # {})
             /\ activating' = activating \ {package}
             /\ UNCHANGED <<plan, rest, barred>>
    <2> HIDE DEF record
    <2>1. barred' \subseteq record.quarantined
      BY <1>1, <1>2, <1>3 DEF Kept, Recorded
    <2>2. ~health.safeMode => activating' \subseteq record.pending
      BY <1>1, <1>2, <1>3, InProgressIsPending
    <2>3. probation' \in BOOLEAN
      BY <1>3
    <2>4. /\ ControllerType' /\ Kept'
          /\ health'.pending = record.pending
          /\ health'.quarantined = health.quarantined
          /\ health'.safeMode = health.safeMode
      BY <1>1, <1>2, <1>3, <2>1, <2>2, <2>3, RecordKeeps
    <2>5. probation /\ health'.pending # {} => probation'
      BY <1>3
    <2> QED
      BY <1>2, <1>3, <2>4, <2>5 DEF Admissible, plan
  <1>4. CASE OrSafeMode
    BY <1>4, OrSafeModeKeeps
  <1> QED
    BY <1>3, <1>4 DEF ActivationStable

\* A quarantine is followed by a rebuild; until then the plan may show
\* what is quarantined.
LEMMA QuarantineKeeps ==
    ASSUME ControllerType, Kept, interrupted' = interrupted, Recorded,
           artifact = None /\ ~health.safeMode => health.pending = {},
           NEW packages \in SUBSET Package, NEW armed \in BOOLEAN,
           Quarantine(packages, armed)
    PROVE  ControllerType' /\ Kept' /\ rest' = "rebuild"
  <1> DEFINE record == Quarantined(packages)
  <1>1. /\ record \in Health /\ record.pending = health.pending \ packages
        /\ record.quarantined = health.quarantined \cup packages
        /\ record.safeMode = health.safeMode
    BY HealthFields DEF Health, Quarantined
  <1>2. CASE /\ Commit(record) /\ probation' = armed /\ rest' = "rebuild"
             /\ activating' = activating \ packages
             /\ barred' = barred \cup packages
             /\ UNCHANGED plan
    <2> HIDE DEF record
    <2>1. barred' \subseteq record.quarantined
      BY <1>1, <1>2 DEF Kept, Recorded
    <2>2. ~health.safeMode => activating' \subseteq record.pending
      BY <1>1, <1>2, InProgressIsPending
    <2>3. artifact = None /\ ~health.safeMode => record.pending = {}
      BY <1>1
    <2> QED
      BY <1>1, <1>2, <2>1, <2>2, <2>3, RecordKeeps
  <1>3. CASE OrSafeMode
    BY <1>3, OrSafeModeKeeps
  <1> QED
    BY <1>2, <1>3 DEF Quarantine

\* activationFailed.
LEMMA FailedKeeps ==
    ASSUME ControllerType, Kept, Admissible, interrupted' = interrupted,
           NEW package \in Package, ActivationFailed(package)
    PROVE  ControllerType' /\ Kept' /\ rest' = "rebuild"
  <1>1. state = "authoritative" /\ artifact # None /\ artifact.packages # {}
    BY DEF ActivationFailed, serving, Kept
  <1>2. Recorded
    BY <1>1, HealthFields DEF Admissible
  <1> QED
    BY <1>1, <1>2, QuarantineKeeps DEF ActivationFailed, ControllerType

\* quarantinePending.
LEMMA ProbationKeeps ==
    ASSUME ControllerType, Kept, Admissible, interrupted' = interrupted,
           rest = "nothing", ProbationExpires
    PROVE  ControllerType' /\ Kept' /\ (rest' # "rebuild" => Admissible')
           /\ rest' \in {"nothing", "rebuild"}
  <1>1. CASE /\ health.pending = {} /\ probation' = FALSE
             /\ UNCHANGED <<plan, health, healthFiles, rest, activating, barred>>
    <2>1. Newest' = Newest
      BY <1>1 DEF healthFiles, Newest
    <2> QED
      BY <1>1, <2>1 DEF plan, healthFiles, ControllerType, Kept, Admissible,
                        Untrusted, Recorded, Remembered
  <1>2. CASE health.pending # {} /\ Quarantine(health.pending, FALSE)
    BY <1>2, HealthFields, QuarantineKeeps DEF Kept
  <1> QED
    BY <1>1, <1>2 DEF ProbationExpires

\* retryComponent.
LEMMA RetryKeeps ==
    ASSUME ControllerType, Kept, Admissible, interrupted' = interrupted,
           NEW package, RetryComponent(package)
    PROVE  ControllerType' /\ Kept' /\ rest' = "rebuild"
  <1> DEFINE record == [health EXCEPT !.quarantined = @ \ {package}]
  <1>1. Recorded /\ package \in health.quarantined
    BY HealthFields DEF RetryComponent
  <1>2. /\ record \in Health /\ record.pending = health.pending
        /\ record.quarantined = health.quarantined \ {package}
        /\ record.safeMode = health.safeMode
    BY HealthFields DEF Health
  <1>3. CASE /\ Commit(record) /\ rest' = "rebuild"
             /\ barred' = barred \ {package}
             /\ UNCHANGED <<plan, probation, activating>>
    <2> HIDE DEF record
    <2>1. barred' \subseteq record.quarantined
      BY <1>1, <1>2, <1>3 DEF Kept, Recorded
    <2>2. ~health.safeMode => activating' \subseteq record.pending
      BY <1>1, <1>2, <1>3, InProgressIsPending
    <2>3. probation' \in BOOLEAN /\ activating' \subseteq activating
      BY <1>3 DEF ControllerType
    <2>4. artifact = None /\ ~health.safeMode => record.pending = {}
      BY <1>2 DEF Kept
    <2>5. UNCHANGED plan
      BY <1>3
    <2> QED
      BY <1>1, <1>2, <1>3, <2>1, <2>2, <2>3, <2>4, <2>5, RecordKeeps
  <1>4. CASE OrSafeMode
    BY <1>4, OrSafeModeKeeps
  <1> QED
    BY <1>3, <1>4 DEF RetryComponent

\* Without snapshots there is no plan, so a rebuild has nothing to do.
LEMMA RebuildKeeps ==
    ASSUME ControllerType, Kept, interrupted' = interrupted,
           RebuildAuthoritativePlan
    PROVE  ControllerType' /\ Kept' /\ Admissible' /\ rest' = "nothing"
  <1>1. CASE snapshots = None
    <2>1. /\ UNCHANGED <<plan, health, healthFiles, probation, activating, barred>>
          /\ rest' = "nothing"
      BY <1>1 DEF RebuildAuthoritativePlan
    <2>2. Newest' = Newest /\ artifact = None
      BY <1>1, <2>1 DEF healthFiles, Newest, ControllerType
    <2> QED
      BY <1>1, <2>1, <2>2 DEF plan, healthFiles, ControllerType, Kept, Admissible,
                              Untrusted, Recorded, Remembered
  <1>2. CASE snapshots # None
    <2>1. /\ snapshots \in Join /\ snapshots' = snapshots /\ rest' = "nothing"
          /\ PublishEither(snapshots, Desired[snapshots], "authoritative", TRUE)
      BY <1>2 DEF RebuildAuthoritativePlan, ControllerType
    <2>2. Desired[snapshots] \in SUBSET Package
      BY <2>1, JoinAssumption
    <2> QED
      BY <2>1, <2>2, PublishKeeps
  <1> QED
    BY <1>1, <1>2

-----------------------------------------------------------------------------
(* Starting and stopping *)

\* What a start writes of a record with activations that were interrupted.
LEMMA InterruptedRecord ==
    ASSUME NEW old \in Health, old.revision < MaxHealthRevision
    PROVE  LET next == [old EXCEPT !.revision = @ + 1, !.pending = {},
                                   !.quarantined = @ \cup old.pending]
           IN  /\ next \in Health /\ next.revision = old.revision + 1
               /\ next.quarantined = old.quarantined \cup old.pending
               /\ next.pending = {} /\ next.safeMode = old.safeMode
  <1>1. old.revision + 1 \in 0..MaxHealthRevision
    BY HealthAssumption DEF Health
  <1> QED
    BY <1>1 DEF Health

\* An activation that the crash interrupted is quarantined before anything is
\* shown, or the record is not trusted.
LEMMA StartKeeps ==
    ASSUME active \in Health \cup {None}, recovery \in Health \cup {None},
           artifact = None, snapshots = None, probation \in BOOLEAN,
           activating = {}, interrupted \subseteq Package,
           barred \subseteq Package, rest = "nothing",
           Remembered, barred \subseteq Newest.quarantined,
           InitializeRuntimeHealth
    PROVE  /\ ControllerType' /\ Kept' /\ Admissible'
           /\ rest' = "nothing" /\ interrupted' \subseteq Package
  <1>1. /\ Newest \in Health /\ Newest.pending \subseteq Package
        /\ Newest.quarantined \subseteq Package /\ Newest.safeMode \in BOOLEAN
        /\ Newest.revision \in 0..MaxHealthRevision
    BY NewestIsRecord DEF Health
  <1>2. ASSUME NEW next, next \in Health, Starts(next)
        PROVE  /\ health' = next /\ state' = "hydrating" /\ artifact' = None
               /\ snapshots' = None /\ probation' \in BOOLEAN
               /\ rest' = "nothing" /\ activating' = {}
    BY <1>2 DEF Starts
  <1>3. CASE UNCHANGED <<healthFiles, interrupted, barred>> /\ Starts(RefusedHealth)
    <2>1. Newest' = Newest
      BY <1>3 DEF healthFiles, Newest
    <2>2. /\ RefusedHealth.safeMode /\ RefusedHealth.quarantined = {}
          /\ RefusedHealth.pending = {}
      BY DEF RefusedHealth, NoHealth
    <2>3. /\ active' = active /\ recovery' = recovery /\ interrupted' = interrupted
          /\ barred' = barred
      BY <1>3 DEF healthFiles
    <2> QED
      BY <1>2, <1>3, <2>1, <2>2, <2>3, NoHealthType
         DEF ControllerType, Kept, Admissible, Untrusted, Remembered
  <1>4. CASE /\ LoadSucceeds
             /\ Starts([Newest EXCEPT !.safeMode = @ \/ Newest.pending # {}])
             /\ UNCHANGED <<interrupted, barred>>
    <2> DEFINE next == [Newest EXCEPT !.safeMode = Newest.safeMode \/ Newest.pending # {}]
    <2>1. /\ next \in Health /\ next.revision = Newest.revision
          /\ next.quarantined = Newest.quarantined /\ next.pending = Newest.pending
          /\ Newest.safeMode => next.safeMode
          /\ ~next.safeMode => Newest.pending = {} /\ ~Newest.safeMode
      BY <1>1 DEF Health
    <2>2. Starts(next)
      BY <1>4
    <2> HIDE DEF next
    <2>3. /\ active' \in Health \cup {None} /\ recovery' \in Health \cup {None}
          /\ Newest' = Newest
      <3>1. CASE active = None /\ recovery = None
        <4>1. active' = None /\ recovery' = None
          BY <1>4, <3>1 DEF LoadSucceeds
        <4> QED
          BY <3>1, <4>1 DEF Newest
      <3>2. CASE ~(active = None /\ recovery = None)
        <4>1. active' = Newest /\ recovery' = Newest
          BY <1>4, <3>2 DEF LoadSucceeds
        <4>2. Newest' = active'
          BY <1>1, <4>1, NoneIsNothing DEF Newest
        <4> QED
          BY <1>1, <4>1, <4>2
      <3> QED
        BY <3>1, <3>2
    <2> QED
      BY <1>2, <1>4, <2>1, <2>2, <2>3
         DEF ControllerType, Kept, Admissible, Recorded, Remembered
  <1>5. CASE /\ Newest.pending # {}
             /\ Newest.revision < MaxHealthRevision
             /\ Starts([Newest EXCEPT !.revision = @ + 1, !.pending = {},
                                      !.quarantined = @ \cup Newest.pending])
             /\ recovery' = health'
             /\ active' \in {Newest, health'}
             /\ interrupted' = interrupted \ Newest.pending
             /\ barred' = barred \cup Newest.pending
    <2> DEFINE next == [Newest EXCEPT !.revision = Newest.revision + 1, !.pending = {},
                          !.quarantined = Newest.quarantined \cup Newest.pending]
    <2>1. /\ next \in Health /\ next.revision = Newest.revision + 1
          /\ next.quarantined = Newest.quarantined \cup Newest.pending
          /\ next.pending = {} /\ next.safeMode = Newest.safeMode
      BY <1>1, <1>5, InterruptedRecord
    <2>2. Starts(next)
      BY <1>5
    <2> HIDE DEF next
    <2>3. health' = next /\ recovery' = next /\ active' \in {Newest, next}
      BY <1>2, <1>5, <2>1, <2>2
    <2>4. Newest' = next
      <3>1. recovery' # None /\ active' # None
        BY <1>1, <2>1, <2>3, NoneIsNothing
      <3>2. CASE active' = Newest
        <4>1. recovery'.revision > active'.revision
          BY <1>1, <2>1, <2>3, <3>2
        <4> QED
          BY <2>3, <3>1, <4>1 DEF Newest
      <3>3. CASE active' = next
        BY <2>3, <3>1, <3>3 DEF Newest
      <3> QED
        BY <2>3, <3>2, <3>3
    <2> QED
      BY <1>1, <1>2, <1>5, <2>1, <2>2, <2>3, <2>4
         DEF ControllerType, Kept, Admissible, Recorded, Remembered
  <1> QED
    BY <1>3, <1>4, <1>5 DEF InitializeRuntimeHealth

-----------------------------------------------------------------------------
(* The invariant *)

PlanInv ==
    /\ TypeInv
    /\ Remembered
    /\ barred \subseteq Newest.quarantined
    /\ state = "down" => activating = {}
    /\ state # "down" => Kept
    /\ state # "down" /\ rest # "rebuild" => Admissible

\* What the controller did not touch, and that it is up.
HydratorType ==
    /\ retry \in BOOLEAN /\ present \in BOOLEAN
    /\ rest \in {"nothing", "rebuild", "refresh"}
    /\ interrupted \subseteq Package
    /\ calls \subseteq FetchCall /\ OneChain
    /\ catalog \in 0..MaxCatalog
    /\ revision \in 0..MaxRevision
    /\ validated \in 0..catalog
    /\ outages \in 0..MaxOutages
    /\ changed \subseteq {"manager", "config"}
    /\ owners \in Seq(BOOLEAN)

\* A step after which the coordinator is up.
LEMMA UpInvariant ==
    ASSUME ControllerType', Kept', HydratorType', rest' # "rebuild" => Admissible'
    PROVE  PlanInv'
  BY DEF ControllerType, Kept, HydratorType, PlanInv, TypeInv

\* A coordinator that is up.
LEMMA UpTypes ==
    ASSUME PlanInv, state # "down"
    PROVE  ControllerType /\ Kept /\ HydratorType
           /\ (rest # "rebuild" => Admissible)
  BY DEF ControllerType, HydratorType, PlanInv, TypeInv

\* Superseding a chain leaves none of the present generation.
LEMMA SupersededCalls ==
    ASSUME calls \subseteq FetchCall,
           NEW kept \in SUBSET {[c EXCEPT !.fresh = FALSE] : c \in calls}
    PROVE  \A c \in kept : c \in FetchCall /\ ~c.fresh
  <1> SUFFICES ASSUME NEW c \in kept PROVE c \in FetchCall /\ ~c.fresh
    OBVIOUS
  <1>1. PICK d \in calls : c = [d EXCEPT !.fresh = FALSE]
    OBVIOUS
  <1> QED
    BY <1>1 DEF FetchCall

\* A new chain supersedes the one under way.
LEMMA RefreshKeeps ==
    ASSUME ControllerType, Kept, HydratorType, interrupted' = interrupted, Refresh,
           UNCHANGED services,
           changed' \subseteq {"manager", "config"}, owners' \in Seq(BOOLEAN)
    PROVE  PlanInv'
  <1>1. ControllerType' /\ Kept' /\ Admissible'
    BY BeginKeeps DEF Refresh
  <1>2. PICK kept \in SUBSET {[c EXCEPT !.fresh = FALSE] : c \in calls} :
            calls' = kept \cup {FirstCall}
    BY DEF Refresh
  <1>3. \A c \in kept : c \in FetchCall /\ ~c.fresh
    BY SupersededCalls DEF HydratorType
  <1>4. FirstCall \in FetchCall
    <2>1. 0 \in 0..MaxCatalog /\ 0 \in 0..MaxRevision
      BY RuntimeAssumption
    <2> QED
      BY <2>1 DEF FirstCall, FetchCall
  <1>5. calls' \subseteq FetchCall /\ OneChain'
    BY <1>2, <1>3, <1>4 DEF OneChain
  <1>6. HydratorType'
    BY <1>5 DEF HydratorType, Refresh, BeginHydration, services, FetchCall
  <1> QED
    BY <1>1, <1>6, UpInvariant

\* A step that leaves the controller alone, up or down.
LEMMA ControllerRests ==
    ASSUME PlanInv, UNCHANGED controllerVars, HydratorType',
           state = "down" => calls' = calls
    PROVE  PlanInv'
  <1>1. /\ state' = state /\ artifact' = artifact /\ snapshots' = snapshots
        /\ health' = health /\ active' = active /\ recovery' = recovery
        /\ probation' = probation /\ rest' = rest /\ activating' = activating
        /\ interrupted' = interrupted /\ barred' = barred
    BY DEF controllerVars, plan, healthFiles
  <1>2. Newest' = Newest
    BY <1>1 DEF Newest
  <1>3. TypeInv'
    BY <1>1 DEF HydratorType, PlanInv, TypeInv, FetchCall
  <1> QED
    BY <1>1, <1>2, <1>3
       DEF PlanInv, Kept, Admissible, Untrusted, Recorded, Remembered

\* What the hydrator and the services have, up or down.
LEMMA Types ==
    ASSUME PlanInv PROVE HydratorType
  BY DEF PlanInv, TypeInv, HydratorType

\* The services change on their own.
LEMMA ServicesKeep == ASSUME PlanInv, Services PROVE PlanInv'
  <1>0. HydratorType
    BY Types
  <1>1. UNCHANGED controllerVars /\ UNCHANGED hydrator
    BY DEF Services, CatalogChanges, ConfigurationChanges, ConfigurationValidates,
           SourceLost, SourceBack
  <1>2. /\ retry' = retry /\ calls' = calls /\ rest' = rest
        /\ interrupted' = interrupted
    BY <1>1 DEF hydrator, controllerVars
  <1>3. \A service \in {"manager", "config"} :
            Told(service) \subseteq {"manager", "config"}
    BY <1>0 DEF HydratorType, Told
  <1>4. owners' \in Seq(BOOLEAN)
    <2>1. \A b \in BOOLEAN : Append(owners, b) \in Seq(BOOLEAN)
      BY <1>0, AppendProperties DEF HydratorType
    <2>2. owners' \in {owners, Append(owners, TRUE), Append(owners, FALSE)}
      BY DEF Services, CatalogChanges, ConfigurationChanges, ConfigurationValidates,
             SourceLost, SourceBack
    <2> QED
      BY <1>0, <2>1, <2>2 DEF HydratorType
  <1>5. /\ catalog' \in 0..MaxCatalog /\ validated' \in 0..catalog'
        /\ revision' \in 0..MaxRevision /\ outages' \in 0..MaxOutages
        /\ present' \in BOOLEAN
    <2>1. /\ {MaxCatalog, MaxRevision, MaxOutages} \subseteq Nat
          /\ catalog \in 0..MaxCatalog /\ validated \in 0..catalog
          /\ revision \in 0..MaxRevision /\ outages \in 0..MaxOutages
          /\ present \in BOOLEAN
      BY <1>0, RuntimeAssumption DEF HydratorType
    <2>2. CASE CatalogChanges
      BY <2>1, <2>2 DEF CatalogChanges
    <2>3. CASE ConfigurationChanges
      BY <2>1, <2>3 DEF ConfigurationChanges
    <2>4. CASE ConfigurationValidates
      BY <2>1, <2>4 DEF ConfigurationValidates
    <2>5. CASE SourceLost
      <3>1. /\ catalog' = catalog /\ revision' = revision /\ validated' = validated
            /\ present' = FALSE /\ outages < MaxOutages /\ outages' = outages + 1
        BY <2>5 DEF SourceLost
      <3>2. outages' \in 0..MaxOutages
        <4>1. MaxOutages \in Nat /\ outages \in Nat
          BY <2>1
        <4> QED
          BY <3>1, <4>1
      <3> QED
        BY <2>1, <3>1, <3>2
    <2>6. CASE SourceBack
      <3>1. /\ catalog' = catalog /\ revision' = revision /\ validated' = validated
            /\ present' = TRUE /\ outages' = outages
        BY <2>6 DEF SourceBack
      <3> QED
        BY <2>1, <3>1
    <2> QED
      BY <2>2, <2>3, <2>4, <2>5, <2>6 DEF Services
  <1>6. changed' \subseteq {"manager", "config"}
    BY <1>0, <1>3 DEF HydratorType, Services, CatalogChanges, ConfigurationChanges,
                      ConfigurationValidates, SourceLost, SourceBack
  <1>7. HydratorType'
    BY <1>0, <1>2, <1>4, <1>5, <1>6 DEF HydratorType, OneChain, FetchCall
  <1> QED
    BY <1>1, <1>2, <1>7, ControllerRests

\* A step of a chain replaces it by one further on, or ends it.
LEMMA AdvanceKeepsCalls ==
    ASSUME HydratorType, NEW c \in calls, c.fresh,
           NEW stage \in {"catalog", "properties", "snapshot"},
           NEW next, \/ next = [c EXCEPT !.stage = stage, !.catalog = catalog,
                                        !.revision = revision]
                     \/ next = [c EXCEPT !.stage = stage, !.revision = revision]
    PROVE  /\ Finished(c) \cup {next} \subseteq FetchCall
           /\ \A d, e \in Finished(c) \cup {next} : d.fresh /\ e.fresh => d = e
           /\ next.stage = stage
           /\ next.catalog \in {c.catalog, catalog}
  <1>1. /\ c \in FetchCall /\ catalog \in 0..MaxCatalog
        /\ revision \in 0..MaxRevision
    BY DEF HydratorType
  <1>2. /\ next \in FetchCall /\ next.stage = stage
        /\ next.catalog \in {c.catalog, catalog}
    BY <1>1 DEF FetchCall
  <1>3. \A d \in Finished(c) : d \in FetchCall /\ ~d.fresh
    BY DEF HydratorType, OneChain, Finished
  <1> QED
    BY <1>2, <1>3

\* A reply of the present chain.
LEMMA AnsweredKeeps == ASSUME PlanInv, Answered PROVE PlanInv'
  <1>1. PICK c \in calls :
            /\ idle /\ c.fresh
            /\ CatalogAnswers(c) \/ PropertiesAnswer(c) \/ SnapshotAnswers(c)
            /\ UNCHANGED <<services, signals, interrupted>>
    BY DEF Answered, Fresh
  <1>2. /\ ControllerType /\ Kept /\ HydratorType /\ Admissible
        /\ state # "down" /\ rest = "nothing"
    BY <1>1, UpTypes DEF idle
  <1>3. /\ present' = present /\ catalog' = catalog /\ revision' = revision
        /\ validated' = validated /\ outages' = outages
        /\ changed' = changed /\ owners' = owners /\ interrupted' = interrupted
    BY <1>1 DEF services, signals
  <1>4. ASSUME UNCHANGED <<controllerVars, retry>>,
               calls' \subseteq FetchCall /\ OneChain'
        PROVE  PlanInv'
    <2>1. rest' = rest /\ retry' = retry
      BY <1>4 DEF controllerVars
    <2>2. HydratorType'
      BY <1>2, <1>3, <1>4, <2>1 DEF HydratorType, FetchCall
    <2> QED
      BY <1>2, <1>4, <2>2, ControllerRests
  <1>5. CASE CatalogAnswers(c)
    <2>1. calls' = Finished(c) \cup {[c EXCEPT !.stage = "properties",
                                              !.catalog = catalog,
                                              !.revision = revision]}
      BY <1>5 DEF CatalogAnswers, Advance
    <2>2. calls' \subseteq FetchCall /\ OneChain'
      BY ZenonT(60), <1>1, <1>2, <2>1, AdvanceKeepsCalls DEF OneChain
    <2> QED
      BY <1>4, <1>5, <2>2 DEF CatalogAnswers, Advance
  <1>6. CASE PropertiesAnswer(c)
    <2>1. calls' = Finished(c) \cup {[c EXCEPT !.stage = "snapshot",
                                              !.revision = revision]}
      BY <1>6 DEF PropertiesAnswer
    <2>2. calls' \subseteq FetchCall /\ OneChain'
      BY ZenonT(60), <1>1, <1>2, <2>1, AdvanceKeepsCalls DEF OneChain
    <2> QED
      BY <1>4, <1>6, <2>2 DEF PropertiesAnswer
  <1>7. CASE SnapshotAnswers(c)
    <2>1. <<c.catalog, revision>> \in Join
      BY <1>2, RuntimeAssumption DEF HydratorType, FetchCall
    <2>2. ControllerType' /\ Kept' /\ Admissible' /\ rest' = rest
      BY <1>2, <1>3, <1>7, <2>1, AcceptKeeps DEF SnapshotAnswers
    <2>3. calls' \subseteq calls /\ retry' = retry
      BY <1>7 DEF SnapshotAnswers, Finished
    <2>4. HydratorType'
      BY <1>2, <1>3, <2>2, <2>3 DEF HydratorType, OneChain, FetchCall
    <2> QED
      BY <2>2, <2>4, UpInvariant
  <1> QED
    BY <1>1, <1>5, <1>6, <1>7

\* A reply of the present chain that does not fit, or none.
LEMMA RefusedKeeps == ASSUME PlanInv, Refused PROVE PlanInv'
  <1>1. PICK c \in calls :
            /\ idle
            /\ HydrationFails(c) \/ SnapshotRejected(c)
            /\ UNCHANGED <<services, signals, interrupted>>
    BY DEF Refused
  <1>2. /\ ControllerType /\ Kept /\ HydratorType /\ Admissible
        /\ state # "down" /\ rest = "nothing"
    BY <1>1, UpTypes DEF idle
  <1>3. /\ present' = present /\ catalog' = catalog /\ revision' = revision
        /\ validated' = validated /\ outages' = outages
        /\ changed' = changed /\ owners' = owners /\ interrupted' = interrupted
    BY <1>1 DEF services, signals
  <1>4. ControllerType' /\ Kept' /\ Admissible' /\ rest' = rest
    <2>1. CASE HydrationFails(c)
      BY <1>2, <1>3, <2>1, FailKeeps DEF HydrationFails
    <2>2. CASE SnapshotRejected(c)
      <3>1. <<c.catalog, revision>> \in Join
        BY <1>2, RuntimeAssumption DEF HydratorType, FetchCall
      <3> QED
        BY <1>2, <1>3, <2>2, <3>1, AcceptKeeps DEF SnapshotRejected
    <2> QED
      BY <1>1, <2>1, <2>2
  <1>5. calls' \subseteq calls /\ retry' = TRUE
    BY <1>1 DEF HydrationFails, SnapshotRejected, Finished
  <1>6. HydratorType'
    BY <1>2, <1>3, <1>4, <1>5 DEF HydratorType, OneChain, FetchCall
  <1> QED
    BY <1>4, <1>6, UpInvariant

\* A reply of a superseded chain changes nothing.
LEMMA DroppedKeeps == ASSUME PlanInv, Dropped PROVE PlanInv'
  <1>1. /\ calls' \subseteq calls /\ state # "down"
        /\ UNCHANGED <<controllerVars, retry, services, signals>>
    BY DEF Dropped, Finished, idle
  <1>2. HydratorType'
    BY <1>1, Types DEF HydratorType, OneChain, FetchCall, controllerVars, services,
                       signals
  <1> QED
    BY <1>1, <1>2, ControllerRests

\* sourceOwnerChanged publishes the failure.
LEMMA OwnerKeeps == ASSUME PlanInv, SourceOwnerChanged PROVE PlanInv'
  <1>1. /\ idle /\ owners # <<>> /\ owners' = Tail(owners) /\ SourceUnavailable
        /\ rest' = IF Head(owners) THEN "refresh" ELSE "nothing"
        /\ retry' = ~Head(owners)
        /\ UNCHANGED <<services, changed, interrupted>>
    BY DEF SourceOwnerChanged
  <1>2. ControllerType /\ Kept /\ HydratorType
    BY <1>1, UpTypes DEF idle
  <1>3. ControllerType' /\ Kept' /\ Admissible'
    BY <1>1, <1>2, FailKeeps DEF SourceUnavailable
  <1>4. Head(owners) \in BOOLEAN /\ owners' \in Seq(BOOLEAN)
    BY <1>1, <1>2, HeadTailProperties DEF HydratorType
  <1>5. PICK kept \in SUBSET {[c EXCEPT !.fresh = FALSE] : c \in calls} : calls' = kept
    BY DEF SourceOwnerChanged
  <1>6. calls' \subseteq FetchCall /\ OneChain'
    BY <1>2, <1>5, SupersededCalls DEF HydratorType, OneChain
  <1>7. retry' \in BOOLEAN /\ rest' \in {"nothing", "refresh"}
    BY <1>1
  <1>8. HydratorType'
    BY <1>1, <1>2, <1>4, <1>6, <1>7 DEF HydratorType, services, FetchCall
  <1> QED
    BY <1>3, <1>8, UpInvariant

\* ComponentRuntime1, the probation timer and the rebuild.
LEMMA ServeKeeps == ASSUME PlanInv, Serve PROVE PlanInv'
  <1>1. /\ UNCHANGED <<hydrator, services, signals, interrupted>>
        /\ Call \/ ProbationExpires \/ RebuildAuthoritativePlan
    BY DEF Serve
  <1>2. state # "down"
    BY <1>1 DEF Call, AuthorizeSurfacePlan, CancelSurfacePlanAuthorization,
                ActivationStable, ActivationFailed, RetryComponent,
                ProbationExpires, RebuildAuthoritativePlan, serving, idle,
                PlanInv, TypeInv
  <1>3. ControllerType /\ Kept /\ HydratorType /\ (rest # "rebuild" => Admissible)
    BY <1>2, UpTypes
  <1>4. /\ ControllerType' /\ Kept' /\ (rest' # "rebuild" => Admissible')
        /\ rest' \in {"nothing", "rebuild"}
    <2>1. CASE AuthorizeSurfacePlan
      BY <1>1, <1>3, <2>1, AuthorizeKeeps DEF AuthorizeSurfacePlan, serving, idle
    <2>2. CASE CancelSurfacePlanAuthorization
      BY <1>1, <1>3, <2>2, CancelKeeps
         DEF CancelSurfacePlanAuthorization, serving, idle
    <2>3. ASSUME NEW package \in Package, ActivationStable(package)
          PROVE  /\ ControllerType' /\ Kept' /\ (rest' # "rebuild" => Admissible')
                 /\ rest' \in {"nothing", "rebuild"}
      BY <1>1, <1>3, <2>3, StableKeeps DEF ActivationStable, serving, idle
    <2>4. ASSUME NEW package \in Package, ActivationFailed(package)
          PROVE  ControllerType' /\ Kept' /\ rest' = "rebuild"
      BY <1>1, <1>3, <2>4, FailedKeeps DEF ActivationFailed, serving, idle
    <2>5. ASSUME NEW package \in Package, RetryComponent(package)
          PROVE  ControllerType' /\ Kept' /\ rest' = "rebuild"
      BY <1>1, <1>3, <2>5, RetryKeeps DEF RetryComponent, idle
    <2>6. CASE ProbationExpires
      BY <1>1, <1>3, <2>6, ProbationKeeps DEF ProbationExpires, idle
    <2>7. CASE RebuildAuthoritativePlan
      BY <1>1, <1>3, <2>7, RebuildKeeps
    <2> QED
      BY <1>1, <2>1, <2>2, <2>3, <2>4, <2>5, <2>6, <2>7 DEF Call
  <1>5. HydratorType'
    BY <1>1, <1>3, <1>4
       DEF HydratorType, OneChain, FetchCall, hydrator, services, signals
  <1> QED
    BY <1>4, <1>5, UpInvariant

\* What was activating when it stopped is still pending on disk.
LEMMA StopKeeps == ASSUME PlanInv, Stop PROVE PlanInv'
  <1>1. /\ state' = "down" /\ artifact' = None /\ snapshots' = None
        /\ health' = NoHealth /\ probation' = FALSE /\ rest' = "nothing"
        /\ interrupted' = interrupted \cup activating /\ activating' = {}
        /\ active' = active /\ recovery' = recovery /\ barred' = barred
        /\ calls' = {} /\ retry' = FALSE /\ changed' = {} /\ owners' = <<>>
        /\ UNCHANGED services
    BY DEF Stop, Crash, healthFiles
  <1>2. Newest' = Newest
    BY <1>1 DEF Newest
  <1>3. catalog' = catalog /\ revision' = revision /\ validated' = validated
        /\ outages' = outages /\ present' = present
    BY <1>1 DEF services
  <1>4. owners' \in Seq(BOOLEAN)
    BY <1>1, EmptySeq
  <1>5. TypeInv'
    BY <1>1, <1>3, <1>4, NoHealthType DEF PlanInv, TypeInv, OneChain
  <1>6. Remembered' /\ barred' \subseteq Newest'.quarantined
    BY <1>1, <1>2 DEF PlanInv, Remembered, Kept
  <1> QED
    BY <1>1, <1>5, <1>6 DEF PlanInv

\* A start finds what the crash left.
LEMMA StartStepKeeps == ASSUME PlanInv, Start PROVE PlanInv'
  <1>1. /\ InitializeRuntimeHealth /\ state = "down"
        /\ calls' = {FirstCall}
        /\ UNCHANGED <<retry, services, signals>>
    BY DEF Start, InitializeRuntimeHealth
  <1>2. HydratorType
    BY Types
  <1>3. /\ ControllerType' /\ Kept' /\ Admissible'
        /\ rest' = "nothing" /\ interrupted' \subseteq Package
    BY <1>1, StartKeeps DEF PlanInv, TypeInv
  <1>4. FirstCall \in FetchCall
    <2>1. 0 \in 0..MaxCatalog /\ 0 \in 0..MaxRevision
      BY RuntimeAssumption
    <2> QED
      BY <2>1 DEF FirstCall, FetchCall
  <1>5. calls' \subseteq FetchCall /\ OneChain'
    BY <1>1, <1>4 DEF OneChain
  <1>6. /\ retry' = retry /\ catalog' = catalog /\ revision' = revision
        /\ validated' = validated /\ outages' = outages /\ present' = present
        /\ changed' = changed /\ owners' = owners
    BY <1>1 DEF services, signals
  <1>7. HydratorType'
    BY <1>2, <1>3, <1>5, <1>6 DEF HydratorType, FetchCall
  <1> QED
    BY <1>3, <1>7, UpInvariant

\* Nothing is recorded or shown before the first start.
LEMMA InitPlanInv == Init => PlanInv
  <1> SUFFICES ASSUME Init PROVE PlanInv
    OBVIOUS
  <1>1. /\ active = None /\ recovery = None /\ state = "down" /\ artifact = None
        /\ snapshots = None /\ health = NoHealth /\ probation = FALSE
        /\ rest = "nothing" /\ activating = {} /\ interrupted = {} /\ barred = {}
        /\ calls = {} /\ retry = FALSE /\ catalog = 0 /\ revision = 0
        /\ validated = 0 /\ present = TRUE /\ outages = 0 /\ changed = {}
        /\ owners = <<>>
    BY DEF Init, ControllerInit
  <1>2. owners \in Seq(BOOLEAN)
    BY <1>1, EmptySeq
  <1>3. 0 \in 0..MaxCatalog /\ 0 \in 0..MaxRevision /\ 0 \in 0..MaxOutages
    BY RuntimeAssumption
  <1>4. /\ catalog \in 0..MaxCatalog /\ revision \in 0..MaxRevision
        /\ validated \in 0..catalog /\ outages \in 0..MaxOutages
    BY <1>1, <1>3
  <1>5. calls \subseteq FetchCall /\ OneChain
    BY <1>1 DEF OneChain
  <1>6. probation \in BOOLEAN /\ retry \in BOOLEAN /\ present \in BOOLEAN
    BY <1>1
  <1>7. TypeInv
    BY <1>1, <1>2, <1>4, <1>5, <1>6, NoHealthType DEF TypeInv
  <1> QED
    BY <1>1, <1>7 DEF PlanInv, Remembered

\* Every step keeps the invariant.
LEMMA StepKeeps == ASSUME PlanInv, [Next]_vars PROVE PlanInv'
  <1>1. CASE RetryTimerFires
    <2>1. /\ Refresh /\ UNCHANGED <<services, signals, interrupted>> /\ idle
      BY <1>1 DEF RetryTimerFires
    <2>2. ControllerType /\ Kept /\ HydratorType
      BY <2>1, UpTypes DEF idle
    <2>3. changed' \subseteq {"manager", "config"} /\ owners' \in Seq(BOOLEAN)
      BY <2>1, <2>2 DEF HydratorType, signals
    <2> QED
      BY <2>1, <2>2, <2>3, RefreshKeeps
  <1>2. ASSUME NEW service \in changed, PropertiesChanged(service) PROVE PlanInv'
    <2>1. /\ Refresh /\ UNCHANGED <<services, owners, interrupted>> /\ idle
          /\ changed' = changed \ {service}
      BY <1>2 DEF PropertiesChanged
    <2>2. ControllerType /\ Kept /\ HydratorType
      BY <2>1, UpTypes DEF idle
    <2>3. changed' \subseteq {"manager", "config"} /\ owners' \in Seq(BOOLEAN)
      BY <2>1, <2>2 DEF HydratorType
    <2> QED
      BY <2>1, <2>2, <2>3, RefreshKeeps
  <1>3. CASE RefreshAppeared
    <2>1. /\ Refresh /\ UNCHANGED <<services, signals, interrupted>>
          /\ rest = "refresh"
      BY <1>3 DEF RefreshAppeared
    <2>2. state # "down"
      BY <2>1 DEF PlanInv, TypeInv
    <2>3. ControllerType /\ Kept /\ HydratorType
      BY <2>2, UpTypes
    <2>4. changed' \subseteq {"manager", "config"} /\ owners' \in Seq(BOOLEAN)
      BY <2>1, <2>3 DEF HydratorType, signals
    <2> QED
      BY <2>1, <2>3, <2>4, RefreshKeeps
  <1>4. CASE SourceOwnerChanged
    BY <1>4, OwnerKeeps
  <1>5. CASE Answered
    BY <1>5, AnsweredKeeps
  <1>6. CASE Refused
    BY <1>6, RefusedKeeps
  <1>7. CASE Dropped
    BY <1>7, DroppedKeeps
  <1>8. CASE Serve
    BY <1>8, ServeKeeps
  <1>9. CASE Services
    BY <1>9, ServicesKeep
  <1>10. CASE Start
    BY <1>10, StartStepKeeps
  <1>11. CASE Stop
    BY <1>11, StopKeeps
  <1>12. CASE UNCHANGED vars
    <2>1. UNCHANGED <<controllerVars, hydrator, services, signals>>
      BY <1>12 DEF vars
    <2>2. HydratorType'
      BY <2>1, Types DEF HydratorType, OneChain, FetchCall, controllerVars, hydrator,
                         services, signals
    <2> QED
      BY <2>1, <2>2, ControllerRests DEF hydrator
  <1> QED
    BY <1>1, <1>2, <1>3, <1>4, <1>5, <1>6, <1>7, <1>8, <1>9, <1>10, <1>11, <1>12
       DEF Next, Hydrate

\* The invariant holds of every behaviour.
LEMMA AlwaysPlanInv == Spec => []PlanInv
  <1>1. Init => PlanInv
    BY InitPlanInv
  <1>2. PlanInv /\ [Next]_vars => PlanInv'
    BY StepKeeps
  <1> QED
    BY <1>1, <1>2, PTL DEF Spec

-----------------------------------------------------------------------------
(* What follows *)

\* Every variable is in its range, and there is at most one chain of calls of
\* the present generation (generation_).
THEOREM TypeCorrect == Spec => []TypeOK
  <1>1. PlanInv => TypeOK
    <2> SUFFICES ASSUME PlanInv PROVE TypeOK
      OBVIOUS
    <2> DEFINE fresh == {c \in calls : c.fresh}
    <2>1. fresh = {} \/ \E c \in calls : fresh = {c}
      BY DEF PlanInv, TypeInv, OneChain
    <2>2. Cardinality(fresh) <= 1
      <3>1. CASE fresh = {}
        BY <3>1, FS_EmptySet
      <3>2. ASSUME NEW c \in calls, fresh = {c}
            PROVE  Cardinality(fresh) <= 1
        <4>1. Cardinality({c}) = 1
          BY FS_Singleton
        <4> QED
          BY <3>2, <4>1
      <3> QED
        BY <2>1, <3>1, <3>2
    <2> HIDE DEF fresh
    <2>3. Cardinality({c \in calls : c.fresh}) <= 1
      BY <2>2 DEF fresh
    <2> QED
      BY <2>3 DEF PlanInv, TypeInv, TypeOK, Plans
  <1> QED
    BY <1>1, AlwaysPlanInv, PTL

\* A published plan shows a third party only while it is authoritative, the
\* record is trusted and the package is not quarantined, and what is in
\* probation is in that plan with its deadline running (publishPlan,
\* rebuildAuthoritativePlan, preparePending).
THEOREM ShownAlwaysAdmissible == Spec => []ShownIsAdmissible
  <1>1. PlanInv => ShownIsAdmissible
    BY DEF PlanInv, Admissible, ShownIsAdmissible, ProbationIsTimed, idle
  <1> QED
    BY <1>1, AlwaysPlanInv, PTL

\* An activation the shell was authorized for is on disk until it has ended,
\* however often the coordinator is killed (authorizeSurfacePlan,
\* initializeRuntimeHealth).
THEOREM InterruptedRemembered == Spec => []InterruptedNeverForgotten
  <1>1. PlanInv => InterruptedNeverForgotten
    BY DEF PlanInv, Remembered, InterruptedNeverForgotten
  <1> QED
    BY <1>1, AlwaysPlanInv, PTL

\* A recorded quarantine lasts across crashes and changes of the plan until the
\* exact package is retried (filterQuarantined, retryComponent).
THEOREM QuarantinesHold == Spec => []QuarantineHolds
  <1>1. PlanInv => QuarantineHolds
    <2> SUFFICES ASSUME PlanInv PROVE QuarantineHolds
      OBVIOUS
    <2>1. ASSUME idle, artifact # None PROVE artifact.packages \cap barred = {}
      <3>1. Kept /\ Admissible
        BY <2>1 DEF PlanInv, idle
      <3>2. CASE artifact.packages = {}
        BY <3>2
      <3>3. CASE artifact.packages # {}
        <4>1. ~health.safeMode /\ artifact.packages \cap health.quarantined = {}
          BY <2>1, <3>1, <3>3 DEF Admissible
        <4>2. barred \subseteq health.quarantined
          BY <3>1, <4>1 DEF Kept, Untrusted, Recorded
        <4> QED
          BY <4>1, <4>2
      <3> QED
        BY <3>2, <3>3
    <2> QED
      BY <2>1 DEF PlanInv, QuarantineHolds
  <1> QED
    BY <1>1, AlwaysPlanInv, PTL

-----------------------------------------------------------------------------
(* What is joined *)

\* A chain that has listed the catalog has the catalog there is, or a signal
\* that supersedes it is under way.
JoinInv ==
    \A c \in calls : c.fresh /\ c.stage # "catalog" =>
        \/ c.catalog = catalog /\ present
        \/ changed # {}
        \/ owners # <<>>

\* Chains that have listed nothing yet claim nothing.
LEMMA FirstCallsJoin ==
    ASSUME \A c \in calls' : ~c.fresh \/ c.stage = "catalog"
    PROVE  JoinInv'
  BY DEF JoinInv

\* What a chain has read does not change, nor does what is on its way.
LEMMA FewerCallsJoin ==
    ASSUME JoinInv, calls' \subseteq calls, UNCHANGED <<services, signals>>
    PROVE  JoinInv'
  <1>1. /\ catalog' = catalog /\ present' = present
        /\ changed' = changed /\ owners' = owners
    BY DEF services, signals
  <1> QED
    BY <1>1 DEF JoinInv

\* A new chain starts with the catalog.
LEMMA RefreshJoins ==
    ASSUME calls \subseteq FetchCall, Refresh
    PROVE  JoinInv'
  <1>1. PICK kept \in SUBSET {[c EXCEPT !.fresh = FALSE] : c \in calls} :
            calls' = kept \cup {FirstCall}
    BY DEF Refresh
  <1>2. \A c \in kept : ~c.fresh
    BY SupersededCalls
  <1>3. FirstCall.stage = "catalog"
    BY DEF FirstCall
  <1> QED
    BY <1>1, <1>2, <1>3, FirstCallsJoin

\* A reply that lists the catalog shows the one there is.
LEMMA AnsweredJoins == ASSUME PlanInv, JoinInv, Answered PROVE JoinInv'
  <1>1. PICK c \in calls :
            /\ c.fresh
            /\ CatalogAnswers(c) \/ PropertiesAnswer(c) \/ SnapshotAnswers(c)
            /\ UNCHANGED <<services, signals, interrupted>>
    BY DEF Answered, Fresh
  <1>2. HydratorType
    BY Types
  <1>3. /\ catalog' = catalog /\ present' = present
        /\ changed' = changed /\ owners' = owners
    BY <1>1 DEF services, signals
  <1>4. \A d \in Finished(c) : ~d.fresh
    BY <1>1, <1>2 DEF HydratorType, OneChain, Finished
  <1>5. CASE CatalogAnswers(c)
    <2> DEFINE next == [c EXCEPT !.stage = "properties", !.catalog = catalog,
                                 !.revision = revision]
    <2>1. present /\ calls' = Finished(c) \cup {next}
      BY <1>5 DEF CatalogAnswers, Advance
    <2>2. next.catalog = catalog
      BY <1>2 DEF HydratorType, FetchCall
    <2> HIDE DEF next
    <2> QED
      BY <1>3, <1>4, <2>1, <2>2 DEF JoinInv
  <1>6. CASE PropertiesAnswer(c)
    <2> DEFINE next == [c EXCEPT !.stage = "snapshot", !.revision = revision]
    <2>1. calls' = Finished(c) \cup {next} /\ c.stage = "properties"
      BY <1>6 DEF PropertiesAnswer
    <2>2. next.catalog = c.catalog
      BY <1>2 DEF HydratorType, FetchCall
    <2>3. \/ c.catalog = catalog /\ present
          \/ changed # {} \/ owners # <<>>
      BY <1>1, <2>1 DEF JoinInv
    <2> HIDE DEF next
    <2> QED
      BY <1>3, <1>4, <2>1, <2>2, <2>3 DEF JoinInv
  <1>7. CASE SnapshotAnswers(c)
    <2>1. calls' \subseteq calls
      BY <1>7 DEF SnapshotAnswers, Finished
    <2> QED
      BY <1>1, <2>1, FewerCallsJoin
  <1> QED
    BY <1>1, <1>5, <1>6, <1>7

\* A service that changes or leaves says so before it answers anything else.
LEMMA ServicesJoin == ASSUME PlanInv, JoinInv, Services PROVE JoinInv'
  <1>1. HydratorType
    BY Types
  <1>2. calls' = calls
    BY DEF Services, CatalogChanges, ConfigurationChanges, ConfigurationValidates,
           SourceLost, SourceBack, hydrator
  <1>3. calls # {} => state # "down"
    BY DEF PlanInv, TypeInv
  <1> SUFFICES ASSUME NEW c \in calls, c.fresh, c.stage # "catalog"
               PROVE  (\/ c.catalog = catalog /\ present
                       \/ changed # {}
                       \/ owners # <<>>)'
    BY <1>2 DEF JoinInv
  <1>4. \/ c.catalog = catalog /\ present
        \/ changed # {} \/ owners # <<>>
    BY DEF JoinInv
  <1>5. CASE CatalogChanges
    <2>1. owners' = owners /\ changed' = Told("manager")
      BY <1>5 DEF CatalogChanges
    <2>2. changed \subseteq Told("manager") /\ (present => Told("manager") # {})
      BY <1>3 DEF Told
    <2> QED
      BY <1>4, <2>1, <2>2
  <1>6. CASE ConfigurationChanges \/ ConfigurationValidates
    <2>1. /\ owners' = owners /\ changed' = Told("config")
          /\ catalog' = catalog /\ present' = present
      BY <1>6 DEF ConfigurationChanges, ConfigurationValidates
    <2>2. changed \subseteq Told("config")
      BY DEF Told
    <2> QED
      BY <1>4, <2>1, <2>2
  <1>7. CASE SourceLost \/ SourceBack
    <2>1. owners' \in {Append(owners, TRUE), Append(owners, FALSE)}
      BY <1>3, <1>7 DEF SourceLost, SourceBack
    <2>2. \A b \in BOOLEAN : Append(owners, b) # <<>>
      BY <1>1, AppendProperties DEF HydratorType
    <2> QED
      BY <2>1, <2>2
  <1> QED
    BY <1>5, <1>6, <1>7 DEF Services

\* Every step keeps what is joined true.
LEMMA StepJoins == ASSUME PlanInv, JoinInv, [Next]_vars PROVE JoinInv'
  <1>1. calls \subseteq FetchCall
    BY DEF PlanInv, TypeInv
  <1>2. CASE Refresh
    BY <1>1, <1>2, RefreshJoins
  <1>3. CASE SourceOwnerChanged
    <2>1. PICK kept \in SUBSET {[c EXCEPT !.fresh = FALSE] : c \in calls} : calls' = kept
      BY <1>3 DEF SourceOwnerChanged
    <2> QED
      BY <1>1, <2>1, SupersededCalls, FirstCallsJoin
  <1>4. CASE Answered
    BY <1>4, AnsweredJoins
  <1>5. CASE Refused \/ Dropped
    <2>1. calls' \subseteq calls /\ UNCHANGED <<services, signals>>
      BY <1>5 DEF Refused, Dropped, HydrationFails, SnapshotRejected, Finished
    <2> QED
      BY <2>1, FewerCallsJoin
  <1>6. CASE Serve \/ UNCHANGED vars
    <2>1. calls' = calls /\ UNCHANGED <<services, signals>>
      BY <1>6 DEF Serve, vars, hydrator
    <2> QED
      BY <2>1, FewerCallsJoin
  <1>7. CASE Services
    BY <1>7, ServicesJoin
  <1>8. CASE Start
    BY <1>8, FirstCallsJoin DEF Start, FirstCall
  <1>9. CASE Stop
    BY <1>9, FirstCallsJoin DEF Stop
  <1> QED
    BY <1>2, <1>3, <1>4, <1>5, <1>6, <1>7, <1>8, <1>9
       DEF Next, Hydrate, RetryTimerFires, PropertiesChanged, RefreshAppeared

\* Only the last reply of the present chain changes what is joined.
LEMMA AcceptedFromSnapshot ==
    ASSUME [Next]_vars, snapshots' \notin {snapshots, None}
    PROVE  \E c \in calls :
              /\ c.fresh /\ c.stage = "snapshot" /\ SnapshotMatches(c)
              /\ snapshots' = <<c.catalog, revision>>
  <1>1. ~Serve
    BY DEF Serve, Call, AuthorizeSurfacePlan, CancelSurfacePlanAuthorization,
           ActivationStable, ActivationFailed, RetryComponent, ProbationExpires,
           RebuildAuthoritativePlan, Quarantine, OrSafeMode, plan
  <1>2. ~Services /\ ~Dropped /\ ~UNCHANGED vars
    BY DEF Services, CatalogChanges, ConfigurationChanges, ConfigurationValidates,
           SourceLost, SourceBack, Dropped, vars, controllerVars, plan
  <1>3. ~Refresh /\ ~SourceOwnerChanged
    BY DEF Refresh, BeginHydration, SourceOwnerChanged, SourceUnavailable
  <1>4. ~Stop
    BY DEF Stop, Crash
  <1>5. ~Start
    BY DEF Start, InitializeRuntimeHealth, Starts
  <1>6. CASE Answered
    <2>1. PICK c \in calls :
              /\ c.fresh
              /\ CatalogAnswers(c) \/ PropertiesAnswer(c) \/ SnapshotAnswers(c)
      BY <1>6 DEF Answered, Fresh
    <2>2. ~CatalogAnswers(c) /\ ~PropertiesAnswer(c)
      BY DEF CatalogAnswers, PropertiesAnswer, Advance, controllerVars, plan
    <2> QED
      BY <2>1, <2>2 DEF SnapshotAnswers, AcceptSnapshots
  <1>7. CASE Refused
    <2>1. PICK c \in calls : c.fresh /\ (HydrationFails(c) \/ SnapshotRejected(c))
      BY <1>7 DEF Refused, Fresh
    <2> QED
      BY <2>1 DEF HydrationFails, SnapshotRejected, RejectSnapshots
  <1> QED
    BY <1>1, <1>2, <1>3, <1>4, <1>5, <1>6, <1>7
       DEF Next, Hydrate, RetryTimerFires, PropertiesChanged, RefreshAppeared

\* A plan joins one generation of its sources: what a hydration accepts was
\* validated against the catalog it listed, and is what the services have
\* unless a signal that starts a new chain is under way
\* (fetchConfigurationSnapshot, generation_).
THEOREM AcceptedJoinCurrent == Spec => AcceptedJoinIsCurrent
  <1>1. ASSUME PlanInv, JoinInv, [Next]_vars
        PROVE  [snapshots' \notin {snapshots, None} =>
                  /\ snapshots'[1] = validated
                  /\ changed = {} /\ owners = <<>> =>
                        snapshots' = <<catalog, revision>>]_vars
    <2> SUFFICES ASSUME snapshots' \notin {snapshots, None}
                 PROVE  /\ snapshots'[1] = validated
                        /\ changed = {} /\ owners = <<>> =>
                              snapshots' = <<catalog, revision>>
      OBVIOUS
    <2>1. PICK c \in calls :
              /\ c.fresh /\ c.stage = "snapshot" /\ SnapshotMatches(c)
              /\ snapshots' = <<c.catalog, revision>>
      BY <1>1, AcceptedFromSnapshot
    <2>2. \/ c.catalog = catalog /\ present
          \/ changed # {} \/ owners # <<>>
      BY <1>1, <2>1 DEF JoinInv
    <2> QED
      BY <2>1, <2>2 DEF SnapshotMatches
  <1>2. Init => JoinInv
    BY DEF Init, JoinInv
  <1>3. PlanInv /\ JoinInv /\ [Next]_vars => JoinInv'
    BY StepJoins
  <1> QED
    BY <1>1, <1>2, <1>3, AlwaysPlanInv, PTL DEF Spec, AcceptedJoinIsCurrent
=============================================================================
