----------------------- MODULE DisplayConfirmation -----------------------
(***************************************************************************)
(* The display preview of the compositor service: a monitor-only candidate *)
(* goes live while the durable configuration stays where it was, and its   *)
(* owner has until a deadline to keep it.  Keeping, reverting, the         *)
(* deadline, the loss of the owner's bus name and the periodic check of    *)
(* the live target all end the same preview; exactly one of them may win,  *)
(* and from the commit decision on none of them may take it back.          *)
(*                                                                         *)
(* The service is single-threaded: a handler runs to its end before the    *)
(* next one starts, but it blocks on Hyprland, on the bus and on the disk, *)
(* and while it does the deadline passes, the owner leaves, a monitor is   *)
(* unplugged, a file is edited and the process is killed.  A handler is    *)
(* therefore a sequence of steps at those points.  The authority and the   *)
(* activation backend are seen from outside, with the outcomes that        *)
(* ConfigurationTransaction and ManagedActivation show them to have.       *)
(***************************************************************************)
EXTENDS Naturals

CONSTANTS
    MaxGeneration,  \* bound: generations prepared in a behaviour
    None            \* no confirmation, no terminal record

VARIABLES
    \* the service
    confirmation,   \* displayConfirmation_
    state,          \* displayConfirmationState_
    terminal,       \* displayTerminal_
    timer,          \* whether displayConfirmationTimer_ is armed
    watch,          \* whether displayOwnerWatcher_ exists
    available,      \* snapshot_.available
    step,           \* where the running handler stands
    ending,         \* the action a running revert was asked for
    \* the authority and the compositor
    authority,      \* what is committed, and the journal
    authorityFailed,\* Impl::failed, until the next start
    live,           \* the generation Hyprland shows
    generations,    \* generations prepared so far
    \* the world around the service
    deadline,       \* of the current confirmation
    ownerPresent,   \* whether the owner's unique name is on the bus
    ownerLost,      \* whether its loss is still to be delivered
    topologyExact,  \* whether the previewed outputs are still connected
    targetExact,    \* whether the published entrypoint is untouched
    \* history
    terminated,     \* previews whose termination has started
    decided,        \* previews whose commit decision may exist
    outcomes        \* terminal records the service has kept

service == <<confirmation, state, terminal, timer, watch, available, ending>>
store == <<authority, authorityFailed, live, generations>>
world == <<ownerPresent, ownerLost, topologyExact, targetExact>>
history == <<terminated, decided, outcomes>>
vars == <<service, step, store, deadline, world, history>>

Generation == 1..MaxGeneration
Action == {"confirmed", "reverted", "expired"}

Installed(t) == [token |-> t, terminating |-> FALSE, rolledBack |-> FALSE]
NoJournal(applied) ==
    [applied |-> applied, pending |-> 0, phase |-> "idle"]
pending == authority.pending

\* acceptUnreconciled: unavailable until the journal is reconciled.
AcceptUnreconciled ==
    /\ available' = FALSE
    /\ state' = "failed"

Abandon ==
    /\ AcceptUnreconciled
    /\ step' = "idle"
    /\ UNCHANGED <<confirmation, terminal, timer, watch, ending>>

Continue(next) ==
    /\ step' = next
    /\ UNCHANGED service

-----------------------------------------------------------------------------
(* What the authority and the activation backend may answer *)

\* LiveActivationBackend::rollback: it proves the prior side, or it fails
\* with the prior side live or not.
RollbackSucceeds ==
    /\ targetExact
    /\ live' = authority.applied
RollbackFails == live' \in {live, authority.applied}

\* abortApply, and its failures: refused, or the removal left undecided.
AbortSucceeds ==
    /\ ~authorityFailed
    /\ authority' = NoJournal(authority.applied)
    /\ UNCHANGED authorityFailed
AbortFails ==
    /\ authority' \in
           {authority} \cup
           (IF authorityFailed THEN {} ELSE {NoJournal(authority.applied)})
    /\ authorityFailed' = TRUE

-----------------------------------------------------------------------------
(* PreviewDisplayConfiguration *)

\* The guards up to prepareDisplayApply, and the prepared generation.
Preview ==
    /\ step = "idle"
    /\ confirmation = None
    /\ available
    /\ authority = NoJournal(live) /\ ~authorityFailed
    /\ targetExact
    /\ generations < MaxGeneration
    /\ generations' = generations + 1
    /\ \/ /\ authority' = [authority EXCEPT !.pending = generations + 1,
                                            !.phase = "prepared"]
          /\ Continue("activating")
          /\ UNCHANGED authorityFailed
       \/ /\ authority' \in {authority,
                 [authority EXCEPT !.pending = generations + 1,
                                   !.phase = "prepared"]}
          /\ authorityFailed' = TRUE
          /\ Abandon
    /\ ownerPresent' = TRUE
    /\ topologyExact' = TRUE
    /\ UNCHANGED <<live, deadline, ownerLost, targetExact, history>>

\* activate: proved live, or cleaned up, with or without a rollback.
ActivatePreview ==
    /\ step = "activating"
    /\ \/ live' = pending /\ Continue("proving")
       \/ live' \in {live, pending} /\ Continue("cleaning")
       \/ live' = live /\ Continue("aborting")
    /\ UNCHANGED <<authority, authorityFailed, generations, deadline, world,
                   history>>

\* The topology proof, then the capability with its deadline and its watch.
ProvePreview ==
    /\ step = "proving"
    /\ \/ /\ topologyExact /\ targetExact
          /\ confirmation' = Installed(pending)
          /\ state' = "awaiting-confirmation"
          /\ terminal' = None
          /\ watch' = TRUE
          /\ ownerLost' = FALSE
          /\ deadline' = "running"
          /\ step' = "starting"
          /\ UNCHANGED <<timer, available, ending>>
       \/ /\ Continue("cleaning")
          /\ UNCHANGED <<deadline, ownerLost>>
    /\ UNCHANGED <<store, ownerPresent, topologyExact, targetExact, history>>

\* Faulty variant of CleanPreview: a failed rollback is ignored.
CleanPreviewIgnoring ==
    /\ step = "cleaning"
    /\ \/ RollbackSucceeds
       \/ RollbackFails
    /\ Continue("aborting")
    /\ UNCHANGED <<authority, authorityFailed, generations, deadline, world,
                   history>>

\* rollbackAndAbort.
CleanPreview ==
    /\ step = "cleaning"
    /\ \/ RollbackSucceeds /\ Continue("aborting")
       \/ RollbackFails /\ Abandon
    /\ UNCHANGED <<authority, authorityFailed, generations, deadline, world,
                   history>>

AbortPreview ==
    /\ step = "aborting"
    /\ \/ AbortSucceeds /\ Continue("idle")
       \/ AbortFails /\ Abandon
    /\ UNCHANGED <<live, generations, deadline, world, history>>

\* revertDisplayConfirmation up to the rollback.
BeginRevert(action) ==
    /\ confirmation' = [confirmation EXCEPT !.terminating = TRUE]
    /\ state' = "reverting"
    /\ ending' = action
    /\ step' = "reverting"
    /\ terminated' = terminated \cup {confirmation.token}
    /\ UNCHANGED <<terminal, watch, available>>

RevertNow(action) ==
    /\ BeginRevert(action)
    /\ UNCHANGED <<timer, store, deadline, world, decided, outcomes>>

\* Only a capability still in time is offered.
StartPreview ==
    /\ step = "starting"
    /\ IF deadline = "passed" THEN RevertNow("expired")
       ELSE Continue("probing") /\ UNCHANGED <<store, deadline, world, history>>

\* displayOwnerStillPresent: a bounded call, which may also just time out.
ProbeOwner ==
    /\ step = "probing"
    /\ \/ /\ ownerPresent
          /\ Continue("arming")
          /\ UNCHANGED <<store, deadline, world, history>>
       \/ RevertNow("reverted")

\* Faulty variant of ArmTimer: the deadline is checked but no timer started.
ArmNothing ==
    /\ step = "arming"
    /\ IF deadline = "passed" THEN RevertNow("expired")
       ELSE /\ available' = TRUE
            /\ step' = "idle"
            /\ UNCHANGED <<confirmation, state, terminal, timer, watch, ending,
                           store, deadline, world, history>>

ArmTimer ==
    /\ step = "arming"
    /\ IF deadline = "passed" THEN RevertNow("expired")
       ELSE /\ timer' = TRUE
            /\ available' = TRUE
            /\ step' = "idle"
            /\ UNCHANGED <<confirmation, state, terminal, watch, ending, store,
                           deadline, world, history>>

-----------------------------------------------------------------------------
(* revertDisplayConfirmation *)

RevertLive ==
    /\ step = "reverting"
    /\ IF confirmation.rolledBack
       THEN Continue("revoking") /\ UNCHANGED live
       ELSE \/ /\ RollbackSucceeds
               /\ confirmation' = [confirmation EXCEPT !.rolledBack = TRUE]
               /\ step' = "revoking"
               /\ UNCHANGED <<state, terminal, timer, watch, available, ending>>
            \/ RollbackFails /\ Abandon
    /\ UNCHANGED <<authority, authorityFailed, generations, deadline, world,
                   history>>

\* Faulty variant of RevertJournal: the outcome does not wait for the abort.
RevertJournalOptimistic ==
    /\ step = "revoking"
    /\ AbortSucceeds \/ AbortFails
    /\ terminal' = [token |-> confirmation.token, action |-> ending]
    /\ outcomes' = outcomes \cup {<<confirmation.token, ending>>}
    /\ confirmation' = None
    /\ state' = "idle"
    /\ timer' = FALSE
    /\ watch' = FALSE
    /\ ownerLost' = FALSE
    /\ deadline' = "none"
    /\ available' = TRUE
    /\ step' = "idle"
    /\ UNCHANGED <<ending, live, generations, ownerPresent, topologyExact,
                   targetExact, terminated, decided>>

\* The capability, its timer and its watch go only with the journal.
RevertJournal ==
    /\ step = "revoking"
    /\ \/ /\ AbortSucceeds
          /\ terminal' = [token |-> confirmation.token, action |-> ending]
          /\ outcomes' = outcomes \cup {<<confirmation.token, ending>>}
          /\ confirmation' = None
          /\ state' = "idle"
          /\ timer' = FALSE
          /\ watch' = FALSE
          /\ ownerLost' = FALSE
          /\ deadline' = "none"
          /\ available' = TRUE
          /\ step' = "idle"
          /\ UNCHANGED ending
       \/ AbortFails /\ Abandon /\ UNCHANGED <<outcomes, ownerLost, deadline>>
    /\ UNCHANGED <<live, generations, ownerPresent, topologyExact, targetExact,
                   terminated, decided>>

-----------------------------------------------------------------------------
(* ConfirmDisplayConfiguration *)

\* Faulty variant of Confirm: a started termination is not looked at.
ConfirmTerminating ==
    /\ step = "idle"
    /\ confirmation # None
    /\ IF deadline = "passed" THEN RevertNow("expired")
       ELSE Continue("confirming") /\ UNCHANGED <<store, deadline, world, history>>

\* A matching call of the owner: refused once termination has started,
\* reverted past the deadline.
Confirm ==
    /\ step = "idle"
    /\ confirmation # None
    /\ ~confirmation.terminating
    /\ IF deadline = "passed" THEN RevertNow("expired")
       ELSE Continue("confirming") /\ UNCHANGED <<store, deadline, world, history>>

\* displayTopologyStillExact.
ProveConfirmed ==
    /\ step = "confirming"
    /\ IF deadline = "passed" THEN RevertNow("expired")
       ELSE \/ /\ topologyExact /\ targetExact
               /\ Continue("asking")
               /\ UNCHANGED <<store, deadline, world, history>>
            \/ RevertNow("reverted")

\* The owner is asked for again after the proof, which blocked the thread.
AskOwner ==
    /\ step = "asking"
    /\ \/ /\ ownerPresent
          /\ Continue("deciding")
          /\ UNCHANGED <<store, deadline, world, history>>
       \/ RevertNow("reverted")

DecideDeadline ==
    /\ step = "deciding"
    /\ IF deadline = "passed" THEN RevertNow("expired")
       ELSE Continue("committing") /\ UNCHANGED <<store, deadline, world, history>>

\* Every way back is revoked before anything else is done with a decision.
RevokeCapability ==
    /\ confirmation' = None
    /\ timer' = FALSE
    /\ watch' = FALSE
    /\ ownerLost' = FALSE
    /\ deadline' = "none"
    /\ decided' = decided \cup {confirmation.token}

Commit ==
    /\ step = "committing"
    /\ \/ /\ ~authorityFailed
          /\ authority' = NoJournal(pending)
          /\ RevokeCapability
          /\ state' = "committing"
          /\ step' = "finalizing"
          /\ UNCHANGED <<terminal, available, ending, authorityFailed, terminated>>
       \/ /\ authority' \in {[authority EXCEPT !.phase = "committing"],
                             [authority EXCEPT !.phase = "maybe"]}
          /\ authorityFailed' = TRUE
          /\ RevokeCapability
          /\ AcceptUnreconciled
          /\ step' = "idle"
          /\ UNCHANGED <<terminal, ending, terminated>>
       \/ /\ authorityFailed' \in {authorityFailed, TRUE}
          /\ BeginRevert("reverted")
          /\ UNCHANGED <<timer, authority, deadline, ownerLost, decided>>
    /\ UNCHANGED <<live, generations, ownerPresent, topologyExact, targetExact,
                   outcomes>>

\* finalizeCommitted.
FinalizeConfirmed ==
    /\ step = "finalizing"
    /\ \/ /\ targetExact
          /\ terminal' = [token |-> authority.applied, action |-> "confirmed"]
          /\ outcomes' = outcomes \cup {<<authority.applied, "confirmed">>}
          /\ state' = "idle"
          /\ available' = TRUE
          /\ step' = "idle"
          /\ UNCHANGED <<confirmation, timer, watch, ending>>
       \/ Abandon /\ UNCHANGED outcomes
    /\ UNCHANGED <<store, deadline, world, terminated, decided>>

-----------------------------------------------------------------------------
(* The other handlers that end a preview, and those that must not *)

\* RevertDisplayConfiguration, also as a retry of a failed revert.
Revert ==
    /\ step = "idle"
    /\ confirmation # None
    /\ RevertNow("reverted")

\* handleDisplayConfirmationTimeout: a single shot.
Timeout ==
    /\ step = "idle"
    /\ timer /\ deadline = "passed"
    /\ timer' = FALSE
    /\ BeginRevert("expired")
    /\ UNCHANGED <<store, deadline, world, decided, outcomes>>

\* handleDisplayOwnerLoss: the bus reports a name once.
OwnerLoss ==
    /\ step = "idle"
    /\ watch /\ ownerLost
    /\ ownerLost' = FALSE
    /\ BeginRevert("reverted")
    /\ UNCHANGED <<timer, store, deadline, ownerPresent, topologyExact,
                   targetExact, decided, outcomes>>

\* refreshManagementStatus: the poll sees that the target is not exact.
Poll ==
    /\ step = "idle"
    /\ confirmation # None
    /\ ~targetExact \/ live # confirmation.token
    /\ RevertNow("reverted")

\* Apply, Recover and the shared visual reconciler, with the ends they have.
Apply ==
    /\ step = "idle"
    /\ confirmation = None
    /\ available
    /\ authority = NoJournal(live) /\ ~authorityFailed
    /\ generations < MaxGeneration
    /\ generations' = generations + 1
    /\ \/ /\ targetExact
          /\ authority' = NoJournal(generations + 1)
          /\ live' = generations + 1
          /\ UNCHANGED <<service, authorityFailed>>
       \/ /\ authority' \in {[authority EXCEPT !.pending = generations + 1,
                                               !.phase = phase] :
                                phase \in {"prepared", "maybe", "committing"}}
          /\ authorityFailed' \in BOOLEAN
          /\ live' \in {live, generations + 1}
          /\ AcceptUnreconciled
          /\ UNCHANGED <<confirmation, terminal, timer, watch, ending>>
    /\ UNCHANGED <<step, deadline, world, history>>

-----------------------------------------------------------------------------
(* The world *)

Tick ==
    /\ deadline = "running"
    /\ deadline' = "passed"
    /\ UNCHANGED <<service, step, store, world, history>>

OwnerLeaves ==
    /\ ownerPresent
    /\ ownerPresent' = FALSE
    /\ ownerLost' = watch
    /\ UNCHANGED <<service, step, store, deadline, topologyExact, targetExact,
                   history>>

TopologyChanges ==
    /\ topologyExact' = ~topologyExact
    /\ UNCHANGED <<service, step, store, deadline, ownerPresent, ownerLost,
                   targetExact, history>>

EntrypointChanges ==
    /\ targetExact' = ~targetExact
    /\ UNCHANGED <<service, step, store, deadline, ownerPresent, ownerLost,
                   topologyExact, history>>

Crash ==
    /\ step # "down"
    /\ confirmation' = None
    /\ state' = "idle"
    /\ terminal' = None
    /\ timer' = FALSE
    /\ watch' = FALSE
    /\ available' = FALSE
    /\ ending' = "reverted"
    /\ step' = "down"
    /\ authorityFailed' = FALSE
    /\ deadline' = "none"
    /\ ownerLost' = FALSE
    /\ UNCHANGED <<authority, live, generations, ownerPresent, topologyExact,
                   targetExact, history>>

\* The side startup finds decided.
StartupSides ==
    CASE authority.phase \in {"idle", "prepared"} -> {authority.applied}
      [] authority.phase = "committing" -> {authority.pending}
      [] authority.phase = "maybe" -> {authority.applied, authority.pending}

\* initializeAuthority and reconcileStartup.
Restart ==
    /\ step = "down"
    /\ \E side \in StartupSides :
          /\ authority' = NoJournal(side)
          /\ IF targetExact THEN live' = side /\ available' = TRUE
             ELSE UNCHANGED <<live, available>>
    /\ step' = "idle"
    /\ UNCHANGED <<confirmation, state, terminal, timer, watch, ending,
                   authorityFailed, generations, deadline, world, history>>

-----------------------------------------------------------------------------
Init ==
    /\ confirmation = None
    /\ state = "idle"
    /\ terminal = None
    /\ timer = FALSE
    /\ watch = FALSE
    /\ available = TRUE
    /\ step = "idle"
    /\ ending = "reverted"
    /\ authority = NoJournal(0)
    /\ authorityFailed = FALSE
    /\ live = 0
    /\ generations = 0
    /\ deadline = "none"
    /\ ownerPresent = TRUE
    /\ ownerLost = FALSE
    /\ topologyExact = TRUE
    /\ targetExact = TRUE
    /\ terminated = {}
    /\ decided = {}
    /\ outcomes = {}

Handler ==
    \/ ActivatePreview \/ ProvePreview \/ CleanPreview \/ AbortPreview
    \/ StartPreview \/ ProbeOwner \/ ArmTimer
    \/ RevertLive \/ RevertJournal
    \/ ProveConfirmed \/ AskOwner \/ DecideDeadline \/ Commit
    \/ FinalizeConfirmed

Call == Preview \/ Confirm \/ Revert \/ Apply

World == Tick \/ OwnerLeaves \/ TopologyChanges \/ EntrypointChanges

Next ==
    \/ Handler
    \/ Call
    \/ Timeout \/ OwnerLoss \/ Poll
    \/ World
    \/ Crash \/ Restart

Spec == Init /\ [][Next]_vars

\* A handler runs to its end, time passes, and an expired timer fires.
Certain == {"handler", "timeout", "tick"}

CertainStep(name) ==
    CASE name = "handler" -> Handler
      [] name = "timeout" -> Timeout
      [] name = "tick" -> Tick

LiveSpec == Spec /\ \A name \in Certain : WF_vars(CertainStep(name))

-----------------------------------------------------------------------------
(* Properties *)

Phase == {"idle", "prepared", "maybe", "committing"}
HandlerStep ==
    {"activating", "proving", "cleaning", "aborting", "starting", "probing",
     "arming", "reverting", "revoking", "confirming", "asking", "deciding",
     "committing", "finalizing"}

\* Every variable is in its range, and the capability, its journal, its watch
\* and its deadline come and go together (displayConfirmation_).
TypeOK ==
    /\ confirmation \in {None} \cup
           [token: Generation, terminating: BOOLEAN, rolledBack: BOOLEAN]
    /\ state \in {"idle", "awaiting-confirmation", "reverting", "committing",
                  "failed"}
    /\ terminal \in {None} \cup [token: Generation, action: Action]
    /\ timer \in BOOLEAN
    /\ available \in BOOLEAN
    /\ step \in {"idle", "down"} \cup HandlerStep
    /\ ending \in Action \ {"confirmed"}
    /\ authority \in [applied: 0..MaxGeneration, pending: 0..MaxGeneration,
                      phase: Phase]
    /\ authorityFailed \in BOOLEAN
    /\ {live, generations} \subseteq 0..MaxGeneration
    /\ deadline \in {"none", "running", "passed"}
    /\ {ownerPresent, ownerLost, topologyExact, targetExact} \subseteq BOOLEAN
    /\ {terminated, decided} \subseteq SUBSET Generation
    /\ outcomes \subseteq Generation \X Action
    /\ watch = (confirmation # None)
    /\ (deadline = "none") = (confirmation = None)
    /\ confirmation # None => authority.pending \in {0, confirmation.token}

\* Keeping and taking back exclude each other: a preview whose termination
\* has started, by whichever handler and however often it failed, is never
\* committed, and one whose commit decision may exist is never terminated
\* (terminationStarted, and the capability revoked by ConfirmDisplay...).
TerminationExcludesDecision == terminated \cap decided = {}

\* What the service keeps as the outcome of a preview, and replays to a
\* repeated call, stays true across crashes: a confirmed layout is committed,
\* a reverted or expired one is not and has no journal that could still
\* commit it (DisplayTerminal).
OutcomesHold ==
    \A outcome \in outcomes :
        IF outcome[2] = "confirmed" THEN authority.applied >= outcome[1]
        ELSE outcome[1] \notin {authority.applied, authority.pending, live}

\* A preview offered for confirmation always has something that ends it: the
\* timer runs, the journal can be aborted, and the loss of its owner is
\* either in the future or still to be delivered (the owner is probed after
\* the watch is installed).
AwaitingIsGuarded ==
    step = "idle" /\ state = "awaiting-confirmation" =>
        /\ confirmation # None
        /\ ~confirmation.terminating
        /\ timer
        /\ authority.pending = confirmation.token
        /\ authority.phase = "prepared"
        /\ ownerPresent \/ ownerLost

\* A service that accepts ordinary mutations has no unconfirmed layout live,
\* no journal and no failure behind it; every cleanup that did not succeed
\* ends unavailable (acceptUnreconciled).
AvailableIsSettled ==
    step = "idle" /\ available /\ confirmation = None =>
        /\ authority = NoJournal(live)
        /\ ~authorityFailed
        /\ state = "idle"

\* Between two handlers the service is in one of its resting states, and each
\* is safe to stay in: a preview on offer is guarded, a service that takes
\* ordinary mutations is settled (acceptUnreconciled takes the rest).
RestIsSafe ==
    /\ TypeOK
    /\ AwaitingIsGuarded
    /\ AvailableIsSettled

\* All of this together is what makes a preview safe to try.
PreviewIsSafe ==
    /\ RestIsSafe
    /\ TerminationExcludesDecision
    /\ OutcomesHold

\* A preview ends without anyone's help: it is settled one way or the other,
\* or the service says that it needs attention (handleDisplay...Timeout).
PreviewEnds ==
    state \in {"awaiting-confirmation", "reverting", "committing"}
        ~> state \in {"idle", "failed"}

=============================================================================
