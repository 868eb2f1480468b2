----------------------- MODULE ComponentRuntimeClient -----------------------
(***************************************************************************)
(* The shell's client of ComponentRuntime1, the bars that show what its    *)
(* plan lists, and the coordinator at the other end of the bus as far as   *)
(* the interface shows it (ComponentPlanController has the rest).          *)
(*                                                                         *)
(* A plan is the set of third-party packages in it; its revision is        *)
(* derived from its content, so it is the plan itself.  Messages of one    *)
(* sender arrive in their order.  An answer of an earlier generation is    *)
(* dropped by its handler; here it is no longer awaited from the moment    *)
(* the generation counter moves, which is the same.                        *)
(***************************************************************************)
EXTENDS Naturals, Sequences, SequencesExt

CONSTANTS
    None,
    Package,
    MaxHealthRevision,  \* bound on the commits of the health record
    MaxEvents,          \* bound on joins accepted or lost, restarts and retries
    MaxScreenChanges,   \* bound on screens coming and going
    MaxTimeouts         \* bound on calls that are given up

VARIABLES
    coordinator,
    requests,           \* calls under way
    replies,            \* replies and signals under way
    client,
    shell,              \* the bars: screens, what they show, running timers
    bounds              \* events, screen changes and timeouts so far

vars == <<coordinator, requests, replies, client, shell, bounds>>

Plan == SUBSET Package

-----------------------------------------------------------------------------
(* The coordinator.  Each operator takes it, with the signals it has sent  *)
(* in this step, to what it becomes.                                       *)

HealthSignal(k) ==
    [kind |-> "health", health |-> k.health, safeMode |-> k.safeMode]

PlanSignal(k) == [kind |-> "plan", plan |-> k.plan, state |-> k.state]

Signalled(k, signal) == [k EXCEPT !.sent = Append(@, signal)]

\* commitHealth: recorded, or the record fails and nothing is trusted.
Commits(k, next) ==
    IF k.health < MaxHealthRevision
    THEN LET t == [next EXCEPT !.health = @ + 1] IN Signalled(t, HealthSignal(t))
    ELSE LET t == [k EXCEPT !.safeMode = TRUE] IN Signalled(t, HealthSignal(t))

Committed(k) == ~k.safeMode

\* publishPlan.
Publishes(k, packages, state, trusted) ==
    LET wanted == IF trusted /\ ~k.safeMode THEN packages \ k.quarantined ELSE {}
        pending == IF k.plan # None /\ k.plan # wanted THEN {} ELSE k.pending \cap wanted
        recorded == IF pending = k.pending THEN k
                    ELSE Commits(k, [k EXCEPT !.pending = pending])
        next == IF Committed(recorded) THEN wanted ELSE {}
        published == [recorded EXCEPT !.plan = next, !.state = state,
                                      !.stable = IF next = k.plan THEN @ ELSE {}]
        failed == pending # k.pending /\ ~Committed(recorded)
    IN IF next # k.plan \/ state # k.state \/ failed
       THEN Signalled(published, PlanSignal(published)) ELSE published

Rebuilt(k) ==
    IF k.join = None THEN k ELSE Publishes(k, k.join, "authoritative", TRUE)

\* setFailedState: the plan is kept without its third parties.
Retracted(k) ==
    IF k.plan # None THEN Publishes(k, k.plan, "retained", FALSE)
    ELSE LET state == "unavailable" IN
         IF k.state = state THEN k
         ELSE LET t == [k EXCEPT !.state = state] IN Signalled(t, PlanSignal(t))

Serving(k, plan) == k.state = "authoritative" /\ k.plan = plan

Quarantines(k, packages) ==
    Rebuilt(Commits(k, [k EXCEPT !.quarantined = @ \cup packages,
                                 !.pending = @ \ packages,
                                 !.stable = @ \ packages]))

Nothing == [properties |-> None, states |-> None]

Fails(k) == [coordinator |-> k, ok |-> FALSE, value |-> Nothing]
Answers(k, value) == [coordinator |-> k, ok |-> TRUE, value |-> value]
Done(k) == Answers(k, Nothing)

GetAll(k) ==
    Answers(k, [Nothing EXCEPT !.properties =
        [plan |-> k.plan, state |-> k.state, health |-> k.health,
         safeMode |-> k.safeMode]])

GetSurfacePlan(k, revision) ==
    IF k.plan # None /\ k.plan = revision THEN Done(k) ELSE Fails(k)

ListComponentRuntimeStates(k, revision) ==
    IF revision = k.health
    THEN Answers(k, [Nothing EXCEPT !.states = k.quarantined]) ELSE Fails(k)

AuthorizeSurfacePlan(k, plan) ==
    IF k.safeMode \/ ~Serving(k, plan) THEN Fails(k)
    ELSE LET next == [k EXCEPT !.pending = @ \cup plan, !.stable = @ \ plan]
             done == IF next.pending = k.pending THEN k ELSE Commits(k, next)
         IN IF Committed(done) THEN Done(done) ELSE Fails(Rebuilt(done))

CancelSurfacePlanAuthorization(k, plan) ==
    IF ~Serving(k, plan) THEN Fails(k)
    ELSE LET next == [k EXCEPT !.pending = {}, !.stable = {}]
             done == IF k.pending = {} THEN [k EXCEPT !.stable = {}] ELSE Commits(k, next)
         IN IF Committed(done) THEN Done(done) ELSE Fails(Rebuilt(done))

ActivationStable(k, package, plan) ==
    IF ~(Serving(k, plan) /\ package \in plan \cap k.pending) THEN Fails(k)
    ELSE LET done == Commits(k, [k EXCEPT !.pending = @ \ {package},
                                          !.stable = @ \cup {package}])
         IN IF Committed(done) THEN Done(done) ELSE Fails(Rebuilt(done))

ActivationFailed(k, package, plan) ==
    IF Serving(k, plan) /\ package \in plan
    THEN Done(Quarantines(k, {package})) ELSE Fails(k)

RetryComponent(k, package, revision) ==
    IF revision # k.health \/ package \notin k.quarantined THEN Fails(k)
    ELSE LET done == Commits(k, [k EXCEPT !.quarantined = @ \ {package}])
         IN IF Committed(done) THEN Done(Rebuilt(done)) ELSE Fails(Rebuilt(done))

Handled(k, call) ==
    CASE call.method = "GetAll" -> GetAll(k)
      [] call.method = "GetSurfacePlan" -> GetSurfacePlan(k, call.plan)
      [] call.method = "ListComponentRuntimeStates" ->
             ListComponentRuntimeStates(k, call.health)
      [] call.method = "AuthorizeSurfacePlan" -> AuthorizeSurfacePlan(k, call.plan)
      [] call.method = "CancelSurfacePlanAuthorization" ->
             CancelSurfacePlanAuthorization(k, call.plan)
      [] call.method = "ActivationStable" -> ActivationStable(k, call.package, call.plan)
      [] call.method = "ActivationFailed" -> ActivationFailed(k, call.package, call.plan)
      [] call.method = "RetryComponent" -> RetryComponent(k, call.package, call.health)

-----------------------------------------------------------------------------
(* The client.  Each operator takes it, with the calls it has sent and the *)
(* methods whose answers it no longer awaits, to what it becomes.          *)

Reads == {"GetAll", "GetSurfacePlan"}
States == {"ListComponentRuntimeStates"}
Authorization == {"AuthorizeSurfacePlan"}
Retry == {"RetryComponent"}

\* The others are sent and forgotten.
Awaited == Reads \cup States \cup Authorization \cup Retry
Reading == Reads \cup States

Call(method, plan, health, package) ==
    [method |-> method, plan |-> plan, health |-> health, package |-> package,
     fresh |-> TRUE]

\* A read nobody awaits has no effect anywhere.
Outdated(calls, methods) ==
    SelectSeq([i \in DOMAIN calls |->
                   [calls[i] EXCEPT !.fresh = @ /\ calls[i].method \notin methods]],
              LAMBDA call : call.fresh \/ call.method \notin Reading)

Current(c) ==
    /\ c.available
    /\ c.accepted # None
    /\ c.whole
    /\ c.state = "authoritative"
    /\ c.plan = c.accepted

\* barInstances, the third parties.
Offered(c) == IF Current(c) /\ c.authorized THEN c.accepted ELSE {}

Outdates(c, methods) ==
    [c EXCEPT !.stale = @ \cup methods, !.out = Outdated(@, methods)]

Sends(c, call) == [c EXCEPT !.out = Append(@, call)]

Unauthorized(c) ==
    Outdates([c EXCEPT !.authorized = FALSE, !.busy = FALSE], Authorization)

refreshProperties(c) == Sends(Outdates(c, Reads), Call("GetAll", None, None, None))

fetchPlan(c, plan) ==
    Sends(Outdates(c, Reads), Call("GetSurfacePlan", plan, None, None))

fetchRuntimeStates(c, health) ==
    Sends(Outdates(c, States), Call("ListComponentRuntimeStates", None, health, None))

retainBuiltinsOnly(c) ==
    IF c.accepted \in {None, {}} \/ ~c.whole THEN c
    ELSE [c EXCEPT !.whole = FALSE, !.later = TRUE]

RetryReleased(c) ==
    IF c.retrying = None THEN c ELSE Outdates([c EXCEPT !.retrying = None], Retry)

\* publishStateIfChanged: the shell is told when the plan's standing changed.
StateTold(before, c) ==
    [c EXCEPT !.later = @ \/ Current(c) # Current(before) \/ c.state # before.state]

invalidateRuntime(c) ==
    LET kept == RetryReleased(retainBuiltinsOnly(
                    Unauthorized(Outdates(c, Reads \cup States))))
    IN StateTold(c, [kept EXCEPT
           !.available = FALSE, !.plan = c.accepted,
           !.state = IF c.accepted = None THEN "unavailable" ELSE "retained",
           !.serverHealth = 0, !.healthOk = FALSE, !.safeMode = TRUE, !.states = {}])

invalidatePlan(c) ==
    [retainBuiltinsOnly(Unauthorized(Outdates(c, Reads))) EXCEPT !.later = TRUE]

invalidateRuntimeHealth(c) ==
    RetryReleased([Outdates(c, States) EXCEPT !.healthOk = FALSE, !.states = {}])

serviceOwnerChanged(c, owned) ==
    IF owned THEN refreshProperties(invalidateRuntime(c)) ELSE invalidateRuntime(c)

applyProperties(c, p) ==
    LET known == [c EXCEPT !.plan = p.plan, !.state = p.state]
        moved == p.state # "authoritative" \/ p.plan # c.accepted
        held  == IF moved THEN Unauthorized(known) ELSE known
        told  == StateTold(c, [held EXCEPT !.serverHealth = p.health,
                                           !.safeMode = p.safeMode])
        read  == IF c.healthOk /\ p.health = c.serverHealth THEN told
                 ELSE fetchRuntimeStates(
                          [told EXCEPT !.healthOk = FALSE, !.states = {}], p.health)
        full  == IF p.plan = None \/ (c.whole /\ p.plan = c.accepted) THEN read
                 ELSE fetchPlan(read, p.plan)
    IN StateTold(full, [full EXCEPT !.available = TRUE])

acceptPlan(c, plan) ==
    [Unauthorized(c) EXCEPT !.accepted = plan, !.whole = TRUE, !.later = TRUE]

\* The rest of a signal is what the client had.
propertiesChanged(c, signal) ==
    applyProperties(c,
        IF signal.kind = "plan"
        THEN [plan |-> signal.plan, state |-> signal.state,
              health |-> c.serverHealth, safeMode |-> c.safeMode]
        ELSE [plan |-> c.plan, state |-> c.state,
              health |-> signal.health, safeMode |-> signal.safeMode])

Propertied(c, ok, properties) ==
    IF ok THEN applyProperties(c, properties) ELSE invalidateRuntime(c)

Planned(c, call, ok) ==
    IF call.plan # c.plan THEN c
    ELSE IF ok THEN acceptPlan(c, call.plan) ELSE refreshProperties(invalidatePlan(c))

Listed(c, call, ok, states) ==
    IF call.health # c.serverHealth THEN c
    ELSE IF ok THEN [c EXCEPT !.states = states, !.healthOk = TRUE]
    ELSE invalidateRuntimeHealth(c)

Authorized(c, call, ok) ==
    IF call.plan # c.accepted \/ ~Current(c) THEN c
    ELSE LET idle == [c EXCEPT !.busy = FALSE] IN
         IF ok THEN [idle EXCEPT !.authorized = TRUE, !.later = TRUE]
         ELSE refreshProperties(idle)

Retried(c) == refreshProperties([c EXCEPT !.retrying = None])

Received(c, call, ok, value) ==
    CASE call.method = "GetAll" -> Propertied(c, ok, value.properties)
      [] call.method = "GetSurfacePlan" -> Planned(c, call, ok)
      [] call.method = "ListComponentRuntimeStates" -> Listed(c, call, ok, value.states)
      [] call.method = "AuthorizeSurfacePlan" -> Authorized(c, call, ok)
      [] call.method = "RetryComponent" -> Retried(c)

authorizeCurrentPlan(c) ==
    IF ~Current(c) \/ c.busy \/ c.authorized THEN c
    ELSE IF c.accepted = {} THEN [c EXCEPT !.authorized = TRUE]
    ELSE Sends(Outdates([c EXCEPT !.busy = TRUE], Authorization),
               Call("AuthorizeSurfacePlan", c.accepted, None, None))

\* Faulty variant of cancelCurrentPlanAuthorization: the answer under way is
\* still taken.
CancelledOnly(c) ==
    IF ~Current(c) \/ ~(c.busy \/ c.authorized) THEN c
    ELSE Sends([c EXCEPT !.authorized = FALSE, !.busy = FALSE, !.later = TRUE],
               Call("CancelSurfacePlanAuthorization", c.accepted, None, None))

cancelCurrentPlanAuthorization(c) ==
    IF ~Current(c) \/ ~(c.busy \/ c.authorized) THEN c
    ELSE Sends([Unauthorized(c) EXCEPT !.later = TRUE],
               Call("CancelSurfacePlanAuthorization", c.accepted, None, None))

Reports(c, method, package) ==
    IF package \in Offered(c)
    THEN Sends(c, Call(method, c.accepted, None, package)) ELSE c

reportActivationStable(c, package) == Reports(c, "ActivationStable", package)
reportActivationFailed(c, package) == Reports(c, "ActivationFailed", package)

retryComponent(c, package) ==
    Sends(Outdates([c EXCEPT !.retrying = package], Retry),
          Call("RetryComponent", None, c.serverHealth, package))

authorizeRuntimePlan(c, screens) ==
    IF screens THEN authorizeCurrentPlan(c) ELSE cancelCurrentPlanAuthorization(c)

-----------------------------------------------------------------------------
Init ==
    /\ coordinator = [up |-> TRUE, join |-> None, plan |-> None, state |-> "hydrating",
                      quarantined |-> {}, pending |-> {}, stable |-> {}, health |-> 1,
                      safeMode |-> FALSE, sent |-> <<>>]
    /\ client = [available |-> FALSE, accepted |-> None, whole |-> TRUE, plan |-> None,
                 state |-> "hydrating", authorized |-> FALSE, busy |-> FALSE,
                 healthOk |-> FALSE, serverHealth |-> 0, safeMode |-> TRUE,
                 states |-> {}, retrying |-> None, later |-> FALSE,
                 out |-> <<>>, stale |-> {}]
    /\ requests = <<Call("GetAll", None, None, None)>>
    /\ replies = <<>>
    /\ shell = [screens |-> TRUE, shown |-> {}, starting |-> {}]
    /\ bounds = [events |-> 0, screens |-> 0, timeouts |-> 0]

Counted(bound, max) ==
    /\ bounds[bound] < max
    /\ bounds' = [bounds EXCEPT ![bound] = @ + 1]

\* The coordinator is k after this step, which also puts these messages on
\* the bus behind the signals it sent.
CoordinatorStep(k, answers) ==
    /\ coordinator' = [k EXCEPT !.sent = <<>>]
    /\ replies' = replies \o k.sent \o answers

\* The client is c after this step; the bars follow what it offers, and a
\* widget that appears is loaded.
ClientStep(next, screens, starting, calls, answers) == \E c \in {next} :
    /\ client' = [c EXCEPT !.out = <<>>, !.stale = {}]
    /\ requests' = Outdated(calls, c.stale) \o c.out
    /\ replies' = SelectSeq(answers, LAMBDA message :
                       message.kind # "reply" \/ message.call.method \notin c.stale)
    /\ LET shown == IF screens THEN Offered(c) ELSE {} IN
       shell' = [screens |-> screens, shown |-> shown,
                 starting |-> (starting \cap shown) \cup (shown \ shell.shown)]

Reply(call, ok, value) == [kind |-> "reply", call |-> call, ok |-> ok, value |-> value]

Answer(call, ok, value) ==
    IF call.fresh /\ call.method \in Awaited THEN <<Reply(call, ok, value)>> ELSE <<>>

\* A call reaches the coordinator, or the bus has nobody to give it to.
CallHandled ==
    /\ requests # <<>>
    /\ requests' = Tail(requests)
    /\ LET call == Head(requests) IN
       \E a \in {IF coordinator.up THEN Handled(coordinator, call) ELSE Fails(coordinator)} :
          CoordinatorStep(a.coordinator, Answer(call, a.ok, a.value))
    /\ UNCHANGED <<client, shell, bounds>>

\* The controller accepts a joined catalog and configuration.
JoinAccepted(plan) ==
    /\ coordinator.up
    /\ Counted("events", MaxEvents)
    /\ CoordinatorStep(Rebuilt([coordinator EXCEPT !.join = plan]), <<>>)
    /\ UNCHANGED <<requests, client, shell>>

sourceUnavailable ==
    /\ coordinator.up
    /\ Counted("events", MaxEvents)
    /\ CoordinatorStep(Retracted(coordinator), <<>>)
    /\ UNCHANGED <<requests, client, shell>>

\* The 8 s of probation are over: quarantinePending.
ProbationExpired ==
    /\ coordinator.up /\ coordinator.pending # {}
    /\ Committed(coordinator)
    /\ CoordinatorStep(Quarantines(coordinator, coordinator.pending), <<>>)
    /\ UNCHANGED <<requests, client, shell, bounds>>

\* What was in probation is quarantined when the record is read again.
CoordinatorCrash ==
    /\ coordinator.up
    /\ Counted("events", MaxEvents)
    /\ coordinator.health < MaxHealthRevision
    /\ LET k == coordinator
           read == [k EXCEPT !.up = FALSE, !.join = None, !.plan = None,
                             !.state = "hydrating", !.stable = {}]
           settled == IF k.pending = {} THEN read
                      ELSE [read EXCEPT !.quarantined = @ \cup k.pending,
                                        !.pending = {}, !.health = @ + 1]
           unanswered == FoldSeq(LAMBDA call, answers : Answer(call, FALSE, Nothing) \o answers,
                                 <<>>, requests)
       IN /\ coordinator' = settled
          /\ replies' = replies \o unanswered \o <<[kind |-> "owner", owned |-> FALSE]>>
    /\ requests' = <<>>
    /\ UNCHANGED <<client, shell>>

CoordinatorStart ==
    /\ ~coordinator.up
    /\ coordinator' = [coordinator EXCEPT !.up = TRUE]
    /\ replies' = Append(replies, [kind |-> "owner", owned |-> TRUE])
    /\ UNCHANGED <<requests, client, shell, bounds>>

MessageReceived ==
    /\ replies # <<>>
    /\ LET message == Head(replies)
           c == CASE message.kind = "reply" ->
                         Received(client, message.call, message.ok, message.value)
                  [] message.kind = "owner" -> serviceOwnerChanged(client, message.owned)
                  [] message.kind \in {"plan", "health"} -> propertiesChanged(client, message)
       IN ClientStep(c, shell.screens, shell.starting, requests, Tail(replies))
    /\ UNCHANGED <<coordinator, bounds>>

\* A call is given up after callTimeoutMs; its answer, if it comes, is lost.
CallTimedOut(method) ==
    /\ Counted("timeouts", MaxTimeouts)
    /\ \E call \in {requests[i] : i \in DOMAIN requests}
                \cup {replies[i].call : i \in {j \in DOMAIN replies : replies[j].kind = "reply"}} :
          /\ call.method = method /\ call.fresh
          /\ ClientStep(Received(Outdates(client, {method}), call, FALSE, Nothing),
                        shell.screens, shell.starting, requests, replies)
    /\ UNCHANGED coordinator

\* Qt.callLater: once, after the handler that asked for it.
AuthorizedLater ==
    /\ client.later
    /\ ClientStep(authorizeRuntimePlan([client EXCEPT !.later = FALSE], shell.screens),
                  shell.screens, shell.starting, requests, replies)
    /\ UNCHANGED <<coordinator, bounds>>

onScreensChanged ==
    /\ Counted("screens", MaxScreenChanges)
    /\ ClientStep(authorizeRuntimePlan(client, ~shell.screens),
                  ~shell.screens, shell.starting, requests, replies)
    /\ UNCHANGED coordinator

\* The stabilization timer of a widget runs out, or it does not load.
WidgetReported(package, c) ==
    /\ package \in shell.starting
    /\ ClientStep(c, shell.screens,
                  shell.starting \ {package}, requests, replies)
    /\ UNCHANGED <<coordinator, bounds>>

reportStable(package) ==
    WidgetReported(package, reportActivationStable(client, package))
reportFailure(package) ==
    WidgetReported(package, reportActivationFailed(client, package))

UserRetries(package) ==
    /\ client.available /\ client.healthOk /\ ~client.safeMode
    /\ client.retrying = None
    /\ package \in client.states
    /\ Counted("events", MaxEvents)
    /\ ClientStep(retryComponent(client, package), shell.screens, shell.starting,
                  requests, replies)
    /\ UNCHANGED coordinator

System ==
    \/ CallHandled
    \/ ProbationExpired
    \/ CoordinatorStart
    \/ MessageReceived
    \/ AuthorizedLater
    \/ \E package \in Package : reportStable(package) \/ reportFailure(package)

Environment ==
    \/ \E plan \in Plan : JoinAccepted(plan)
    \/ sourceUnavailable
    \/ CoordinatorCrash
    \/ \E method \in Awaited : CallTimedOut(method)
    \/ onScreensChanged
    \/ \E package \in Package : UserRetries(package)

Next == System \/ Environment

Spec == Init /\ [][Next]_vars

-----------------------------------------------------------------------------
(***************************************************************************)
(* A package's code runs in the bars only while the coordinator knows it:  *)
(* the shell has told it beforehand, so that a package that takes the      *)
(* shell down is in the record of interrupted activations, or has told it  *)
(* afterwards that it was stable.  This must survive an authorization that *)
(* is withdrawn while its answer is under way, a plan that changes away    *)
(* and back to the same revision, calls that time out at one end and are   *)
(* served at the other, and restarts of the coordinator.                   *)
(***************************************************************************)
ThirdPartiesHold ==
    replies = <<>> =>
        /\ shell.shown \subseteq coordinator.pending \cup coordinator.stable
        /\ shell.shown # {} => ~coordinator.safeMode /\ Serving(coordinator, client.plan)

\* Nothing is under way and no timer runs.
AtRest ==
    /\ coordinator.up
    /\ requests = <<>> /\ replies = <<>>
    /\ ~client.later
    /\ shell.starting = {}
    /\ Committed(coordinator) => coordinator.pending = {}

(***************************************************************************)
(* With nothing left to do and no call given up on the way, the client's   *)
(* picture is the coordinator's: the plan is current exactly when the      *)
(* coordinator's is authoritative, what it lists runs in the bars, the     *)
(* quarantined packages it lists are the recorded ones, and no             *)
(* authorization or retry is waited for that nothing will answer.          *)
(***************************************************************************)
Converged ==
    AtRest /\ bounds.timeouts = 0 =>
        /\ Current(client) = (coordinator.state = "authoritative")
        /\ Current(client) => client.plan = coordinator.plan
        /\ client.healthOk => client.states = coordinator.quarantined
        /\ shell.shown = (IF shell.screens /\ Current(client)
                          THEN coordinator.plan ELSE {})
        /\ ~client.busy /\ client.retrying = None

BarsFollowThePlan == ThirdPartiesHold /\ Converged

=============================================================================
