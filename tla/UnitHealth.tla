----------------------------- MODULE UnitHealth -----------------------------
(***************************************************************************)
(* The health of the session's units on its way from systemd to the bar:   *)
(* SystemdUserManager and CoordinatorPolicy in the coordinator,            *)
(* CoordinatorClient and ShellRuntimeStatus in the bar's process, and the  *)
(* notice of shell.qml.                                                    *)
(*                                                                         *)
(* Each hop is a first-in first-out line: the bus keeps the order of       *)
(* systemd's signals and replies, and of the coordinator's with the change *)
(* of its owner.  systemd derives a unit's object path from its name, so   *)
(* the paths change once, from unknown to known (monitored).               *)
(***************************************************************************)
EXTENDS Naturals, Sequences, FiniteSets, SequencesExt

CONSTANTS
    None,
    OwnUnit,        \* hyprshelld-surfaced.service, whose failure the bar cannot show
    OtherUnits,     \* the other units of the policy
    Screens,        \* numbers of screens, in the order of Quickshell.screens
    MaxChanges      \* bound on what systemd, the user and the screens do

Units == {OwnUnit} \cup OtherUnits

VARIABLES
    units,          \* systemd: ActiveState of the units
    manager,        \* SystemdUserManager, with its outstanding ListUnitsByNames
    reports,        \* systemd to the coordinator: changes and unit lists
    coordinator,    \* its process, its policy and its restarts under way
    calls,          \* the client to the coordinator
    news,           \* the coordinator (and the bus about it) to the client
    client,         \* CoordinatorClient
    status,         \* ShellRuntimeStatus
    shell,          \* shell.qml
    events

vars == <<units, manager, reports, coordinator, calls, news, client, status,
          shell, events>>

UnitState == {"active", "failed", "other"}
CoordinatorState == {"active", "activating", "failed"}

\* An idle manager that has subscribed asks for the first list.
FreshManager == [monitored |-> FALSE, asked |-> "sent", late |-> FALSE, scheduled |-> FALSE]

NoCoordinator(process) ==
    [process |-> process, failed |-> {}, restarts |-> {}]

TypeOK ==
    /\ units \in [Units -> UnitState]
    /\ manager \in [monitored: BOOLEAN, asked: {"no", "sent", "answered"},
                    late: BOOLEAN, scheduled: BOOLEAN]
    /\ \A i \in DOMAIN reports :
           reports[i].kind = "list" => reports[i].units \in [Units -> UnitState]
    /\ coordinator.process \in {"starting", "serving", "waiting", "failed"}
    /\ coordinator.failed \in SUBSET Units
    /\ client.failed \in SUBSET Units
    /\ status \in [available: BOOLEAN, state: CoordinatorState,
                   poll: {"none", "asked"} \cup CoordinatorState]
    /\ shell \in [latched: BOOLEAN, visible: BOOLEAN,
                  screen: Screens \cup {0}, screens: SUBSET Screens]

Event == events < MaxChanges /\ events' = events + 1

-----------------------------------------------------------------------------
(* SystemdUserManager.                                                     *)

Idle(m) == m.asked = "no"

\* A list that is under way is late now; otherwise one is asked for soon.
ScheduleRefresh(m) ==
    [m EXCEPT !.late = @ \/ ~Idle(m), !.scheduled = @ \/ Idle(m)]

RequestSnapshot(m) ==
    LET n == [m EXCEPT !.scheduled = FALSE]
    IN IF Idle(m) THEN [n EXCEPT !.asked = "sent", !.late = FALSE] ELSE n

\* Faulty variant of SnapshotFinished: the list that was asked for before the
\* units' signals were connected is good enough.
SnapshotFinishedOnce(m) ==
    LET n == [m EXCEPT !.asked = "no", !.monitored = @ \/ ~m.late]
    IN IF m.late THEN RequestSnapshot(n) ELSE n

\* An older list than the last change is asked for again, and so is the first
\* one, read before the units' signals were connected.
SnapshotFinished(m) ==
    LET n == [m EXCEPT !.asked = "no", !.monitored = @ \/ ~m.late]
    IN IF m.late \/ ~m.monitored THEN RequestSnapshot(n) ELSE n

Adopted(m) == Idle(SnapshotFinished(m))

\* systemd answers ListUnitsByNames.
ListUnits ==
    /\ manager.asked = "sent"
    /\ manager' = [manager EXCEPT !.asked = "answered"]
    /\ reports' = Append(reports, [kind |-> "list", units |-> units])
    /\ UNCHANGED <<units, coordinator, calls, news, client, status, shell, events>>

RefreshDue ==
    /\ manager.scheduled
    /\ manager' = RequestSnapshot(manager)
    /\ UNCHANGED <<units, reports, coordinator, calls, news, client, status,
                   shell, events>>

\* PropertiesChanged of a connected unit, or JobRemoved of any of them.
Signalled(job) ==
    IF coordinator.process \in {"starting", "serving"} /\ (manager.monitored \/ job)
    THEN Append(reports, [kind |-> "changed"]) ELSE reports

UnitChanges ==
    \E u \in Units, state \in UnitState, job \in BOOLEAN :
        /\ state # units[u]
        /\ Event
        /\ units' = [units EXCEPT ![u] = state]
        /\ reports' = Signalled(job)
        /\ UNCHANGED <<manager, coordinator, calls, news, client, status, shell>>

-----------------------------------------------------------------------------
(* CoordinatorPolicy and CoordinatorService.                               *)

\* Only an active unit is forgiven: one that is restarting stays listed.
ApplySnapshot(failed, list) ==
    (failed \ {u \in Units : list[u] = "active"})
        \cup {u \in Units : list[u] = "failed"}

Publish(failed) == Append(news, [kind |-> "changed", failed |-> failed])

\* The first list starts the service: its objects and its name appear.
ApplyList(list) ==
    LET failed == ApplySnapshot(coordinator.failed, list)
    IN /\ coordinator' = [coordinator EXCEPT !.failed = failed, !.process = "serving"]
       /\ news' = CASE coordinator.process = "starting" ->
                         Append(news, [kind |-> "owner", present |-> TRUE])
                    [] coordinator.process = "serving" ->
                         IF failed = coordinator.failed THEN news
                         ELSE Publish(failed)

ManagerHears ==
    /\ reports # <<>>
    /\ LET report == Head(reports)
       IN IF report.kind = "changed"
          THEN /\ manager' = ScheduleRefresh(manager)
               /\ UNCHANGED <<coordinator, news>>
          ELSE /\ manager' = SnapshotFinished(manager)
               /\ IF Adopted(manager) THEN ApplyList(report.units)
                  ELSE UNCHANGED <<coordinator, news>>
    /\ reports' = Tail(reports)
    /\ UNCHANGED <<units, calls, client, status, shell, events>>

Reply(call, ok) == Append(news, [kind |-> "restarted", id |-> call.id, ok |-> ok])

\* A restart is refused for a unit the policy does not hold failed.
RestartComponent(call) ==
    IF call.unit \in coordinator.failed
    THEN /\ coordinator' = [coordinator EXCEPT
                !.restarts = @ \cup {[unit |-> call.unit, id |-> call.id,
                                      stage |-> "reset"]}]
         /\ UNCHANGED news
    ELSE /\ news' = Reply(call, FALSE)
         /\ UNCHANGED coordinator

ServiceHears ==
    /\ calls # <<>>
    /\ coordinator.process = "serving"
    /\ LET call == Head(calls)
       IN IF call.kind = "getAll"
          THEN /\ news' = Append(news, [kind |-> "all", refresh |-> call.refresh,
                                        ok |-> TRUE, failed |-> coordinator.failed])
               /\ UNCHANGED coordinator
          ELSE RestartComponent(call)
    /\ calls' = Tail(calls)
    /\ UNCHANGED <<units, manager, reports, client, status, shell, events>>

\* ResetFailedUnit, then RestartUnit; either may fail, and a time-out is a
\* failure of a step that systemd still takes.
RestartUnit ==
    \E restart \in coordinator.restarts :
        LET others == coordinator.restarts \ {restart}
            Becomes(state) ==
                /\ units' = [units EXCEPT ![restart.unit] = state]
                /\ reports' = IF state = units[restart.unit] THEN reports
                              ELSE Signalled(restart.stage = "restart")
            Done(ok) ==
                /\ coordinator' = [coordinator EXCEPT !.restarts = others]
                /\ news' = Reply(restart, ok)
            GoOn ==
                /\ coordinator' = [coordinator EXCEPT !.restarts =
                       others \cup {[restart EXCEPT !.stage = "restart"]}]
                /\ UNCHANGED news
        IN /\ \/ UNCHANGED <<units, reports>> /\ Done(FALSE)
              \/ /\ restart.stage = "reset"
                 /\ Becomes(IF units[restart.unit] = "failed" THEN "other"
                            ELSE units[restart.unit])
                 /\ GoOn \/ Done(FALSE)
              \/ /\ restart.stage = "restart"
                 /\ \E state \in UnitState : Becomes(state)
                 /\ \E ok \in BOOLEAN : Done(ok)
           /\ UNCHANGED <<manager, calls, client, status, shell, events>>

\* What the bus answers for a service that left without a reply.
Unanswered(call) ==
    IF call.kind = "getAll"
    THEN [kind |-> "all", refresh |-> call.refresh, ok |-> FALSE, failed |-> {}]
    ELSE [kind |-> "restarted", id |-> call.id, ok |-> FALSE]

Unanswereds(s) == [i \in DOMAIN s |-> Unanswered(s[i])]

\* A crash, or monitoringFailed; systemd restarts the unit or gives it up.
CoordinatorEnds ==
    /\ coordinator.process \in {"starting", "serving"}
    /\ Event
    /\ \E process \in {"waiting", "failed"} : coordinator' = NoCoordinator(process)
    /\ news' = IF coordinator.process = "starting" THEN news
               ELSE news \o SetToSeq({[kind |-> "restarted", id |-> r.id, ok |-> FALSE] :
                                         r \in coordinator.restarts})
                         \o Unanswereds(calls)
                         \o <<[kind |-> "owner", present |-> FALSE]>>
    /\ calls' = <<>>
    /\ reports' = <<>>
    /\ manager' = [FreshManager EXCEPT !.asked = "no"]
    /\ UNCHANGED <<units, client, status, shell>>

\* systemd after RestartSec, or a user who starts a failed coordinator.
CoordinatorStarts ==
    /\ coordinator.process \in {"waiting", "failed"}
    /\ coordinator' = NoCoordinator("starting")
    /\ manager' = FreshManager
    /\ UNCHANGED <<units, reports, calls, news, client, status, shell, events>>

\* ActiveState of hyprshelld.service (Type=dbus).
CoordinatorUnit ==
    CASE coordinator.process = "serving" -> "active"
      [] coordinator.process = "failed" -> "failed"
      [] coordinator.process \in {"starting", "waiting"} -> "activating"

-----------------------------------------------------------------------------
(* shell.qml and ShellRuntimeStatus; s is the bar's process: the client, the *)
(* poll of the coordinator's unit and the shell.                            *)

Displayable(failed) == failed \ {OwnUnit} # {}

HasDisplayableFailure(s) == s.shell.latched \/ Displayable(s.client.failed)

Dismissed(s) == [s EXCEPT !.shell.visible = FALSE, !.shell.screen = 0]

FirstScreen(screens) == CHOOSE i \in screens : \A j \in screens : i <= j

ShowFailureNotice(s) ==
    IF s.shell.screens = {} THEN s
    ELSE [s EXCEPT !.shell.visible = TRUE,
                   !.shell.screen = FirstScreen(s.shell.screens)]

ReconcileFailureNotice(s) ==
    IF HasDisplayableFailure(s) THEN s ELSE Dismissed(s)

SetLatched(failed, s) ==
    LET t == [s EXCEPT !.shell.latched = failed]
    IN IF failed = s.shell.latched THEN s
       ELSE IF failed THEN ShowFailureNotice(t) ELSE ReconcileFailureNotice(t)

ReconcileCoordinatorFailure(s) ==
    IF s.client.available THEN SetLatched(FALSE, s)
    ELSE IF ~s.status.available \/ s.status.state = "activating" THEN s
    ELSE SetLatched(s.status.state = "failed", s)

\* The poll runs while the client is unavailable; a change drops its reply.
SetActive(active, s) ==
    [s EXCEPT !.status.poll = IF active THEN "asked" ELSE "none",
              !.status.available = FALSE]

SetAvailable(available, s) ==
    IF available = s.client.available THEN s
    ELSE ReconcileCoordinatorFailure(
             SetActive(~available, [s EXCEPT !.client.available = available]))

PollAnswered(s) ==
    LET t == [s EXCEPT !.status.state = s.status.poll, !.status.poll = "none"]
    IN ReconcileCoordinatorFailure([t EXCEPT !.status.available = TRUE])

PollFailed(s) == [s EXCEPT !.status.poll = "none", !.status.available = FALSE]

-----------------------------------------------------------------------------
(* CoordinatorClient.                                                      *)

ClearError(s) == [s EXCEPT !.client.error = None]

\* The call of GetAll: without an owner the bus answers it.
Refresh(s) ==
    LET number == s.client.refresh + 1
        call == [kind |-> "getAll", refresh |-> number]
    IN [s EXCEPT !.client.refresh = number, !.sent = <<call>>]

\* An error that was shown for a unit goes with that unit's failure, and a
\* failure that is new is an epoch of its own.
ApplyProperties(failed, s) ==
    LET c == s.client
        turned == {u \in Units : (u \in failed) # (u \in c.failed)}
        Lapse(p) == [p EXCEPT !.lapsed = @ \/ p.unit \in turned]
        told == [s EXCEPT
            !.client.failed = failed,
            !.client.epochs = [u \in Units |-> IF u \in turned THEN @[u] + 1 ELSE @[u]],
            !.client.error =
                IF @ = None \/ @.unit \notin failed THEN None ELSE Lapse(@),
            !.client.pending = {Lapse(p) : p \in @}]
        changed == IF turned = {} THEN told
                   ELSE ReconcileFailureNotice(ReconcileCoordinatorFailure(told))
    IN IF Displayable(failed \ c.failed) THEN ShowFailureNotice(changed) ELSE changed

PropertiesChanged(failed, s) ==
    IF s.client.available THEN ApplyProperties(failed, s) ELSE Refresh(s)

ServiceOwnerChanged(present, s) ==
    LET t == ClearError(SetAvailable(FALSE,
                 [s EXCEPT !.client.owner = @ + 1, !.client.refresh = @ + 1]))
    IN IF present THEN Refresh(t) ELSE t

Refreshed(message, s) ==
    IF message.refresh # s.client.refresh THEN s
    ELSE IF message.ok THEN SetAvailable(TRUE, ApplyProperties(message.failed, s))
    ELSE SetAvailable(FALSE, s)

EpisodeIsCurrent(p, c) ==
    ~p.failed \/ (p.unit \in c.failed /\ c.epochs[p.unit] = p.epoch)

\* The reply to a restart, which is no longer pending.
Restarted(message, s) ==
    LET p == CHOOSE q \in s.client.pending : q.id = message.id
        t == [s EXCEPT !.client.pending = @ \ {p}]
    IN IF ~message.ok /\ p.owner = s.client.owner /\ EpisodeIsCurrent(p, s.client)
       THEN [t EXCEPT !.client.error = p] ELSE t

Handle(message, s) ==
    CASE message.kind = "owner" -> ServiceOwnerChanged(message.present, s)
      [] message.kind = "changed" -> PropertiesChanged(message.failed, s)
      [] message.kind = "all" -> Refreshed(message, s)
      [] message.kind = "restarted" -> Restarted(message, s)

Bar == [client |-> client, status |-> status, shell |-> shell, sent |-> <<>>]

Becomes(next) == \E s \in {next} :
    client' = s.client /\ status' = s.status /\ shell' = s.shell

\* What the bar sends reaches the coordinator, or the bus answers for it.
Send(sent, rest) ==
    IF coordinator.process = "serving"
    THEN calls' = calls \o sent /\ news' = rest
    ELSE news' = rest \o Unanswereds(sent) /\ UNCHANGED calls

ClientHears ==
    /\ news # <<>>
    /\ \E s \in {Handle(Head(news), Bar)} :
           Becomes(s) /\ Send(s.sent, Tail(news))
    /\ UNCHANGED <<units, manager, reports, coordinator, events>>

\* The page of the settings window offers a restart of a failed unit.
UserRestarts ==
    \E u \in client.failed :
        LET restart == [unit |-> u, id |-> events, epoch |-> client.epochs[u],
                        owner |-> client.owner, failed |-> TRUE, lapsed |-> FALSE]
        IN /\ client.available
           /\ Event
           /\ client' = [client EXCEPT !.error = None, !.pending = @ \cup {restart}]
           /\ Send(<<[kind |-> "restart", unit |-> u, id |-> events]>>, news)
           /\ UNCHANGED <<units, manager, reports, coordinator, status, shell>>

\* The timer of ShellRuntimeStatus, and the replies to it.
Poll ==
    /\ ~client.available
    /\ \/ status.poll = "none" /\ Becomes([Bar EXCEPT !.status.poll = "asked"])
       \/ /\ status.poll = "asked"
          /\ Becomes([Bar EXCEPT !.status.poll = CoordinatorUnit])
       \/ status.poll \in CoordinatorState /\ Becomes(PollAnswered(Bar))
       \/ status.poll # "none" /\ Becomes(PollFailed(Bar))
    /\ UNCHANGED <<units, manager, reports, coordinator, calls, news, events>>

\* A notice moves to another screen with the one it was on.
ScreensChange ==
    \E screens \in SUBSET Screens :
        LET s == [Bar EXCEPT !.shell.screens = screens]
        IN /\ screens # shell.screens
           /\ Event
           /\ Becomes(IF ~shell.visible \/ shell.screen \in screens THEN s
                      ELSE IF screens = {} THEN Dismissed(s)
                      ELSE [s EXCEPT !.shell.screen = FirstScreen(screens)])
           /\ UNCHANGED <<units, manager, reports, coordinator, calls, news>>

\* failureNoticeTimer.
NoticeExpires ==
    /\ shell.visible
    /\ Becomes(Dismissed(Bar))
    /\ UNCHANGED <<units, manager, reports, coordinator, calls, news, events>>

-----------------------------------------------------------------------------

\* A login: the coordinator and the bar start, and the bar asks first.
Init ==
    /\ units = [u \in Units |-> "active"]
    /\ manager = FreshManager
    /\ reports = <<>>
    /\ coordinator = NoCoordinator("starting")
    /\ calls = <<>>
    /\ client = [available |-> FALSE, failed |-> {}, error |-> None,
                 pending |-> {}, owner |-> 0, refresh |-> 1,
                 epochs |-> [u \in Units |-> 0]]
    /\ news = <<Unanswered([kind |-> "getAll", refresh |-> 1])>>
    /\ status = [available |-> FALSE, state |-> "activating", poll |-> "asked"]
    /\ shell = [latched |-> FALSE, visible |-> FALSE, screen |-> 0,
                screens |-> {FirstScreen(Screens)}]
    /\ events = 0

Next ==
    \/ ListUnits \/ RefreshDue \/ UnitChanges \/ ManagerHears \/ ServiceHears
    \/ RestartUnit \/ CoordinatorEnds \/ CoordinatorStarts \/ ClientHears
    \/ UserRestarts \/ Poll \/ ScreensChange \/ NoticeExpires

Spec == Init /\ [][Next]_vars

-----------------------------------------------------------------------------

\* systemd_user_manager.cpp: with nothing under way the coordinator holds
\* every failed unit, and none that is active: no change fell between a list
\* and the signals around it.
CoordinatorKnows ==
    /\ coordinator.process = "serving"
    /\ reports = <<>> /\ Idle(manager) /\ ~manager.scheduled
    => \A u \in Units :
           /\ units[u] = "failed" => u \in coordinator.failed
           /\ units[u] = "active" => u \notin coordinator.failed

\* coordinator_client.cpp: once it has heard everything, a client that says
\* it is available shows what the coordinator of now serves, whichever
\* coordinator answered which of its calls; and no restart is left pending.
ClientKnows ==
    /\ news = <<>> /\ calls = <<>>
    => /\ client.available =>
              coordinator.process = "serving" /\ client.failed = coordinator.failed
       /\ coordinator.process = "serving" => client.available
       /\ {p.id : p \in client.pending} = {r.id : r \in coordinator.restarts}

\* The failure of a restart is shown only for the failure of the unit that
\* the user wanted to end.
ErrorOfThisFailure ==
    client.error # None => ~client.error.lapsed /\ client.error.unit \in client.failed

\* shell.qml: a notice is on a screen that is there, about a failure that is
\* still known, and the coordinator is not held failed while it answers.
NoticeIsWarranted ==
    /\ shell.visible => shell.screen \in shell.screens /\ HasDisplayableFailure(Bar)
    /\ client.available => ~shell.latched

HealthIsShown ==
    /\ TypeOK
    /\ CoordinatorKnows
    /\ ClientKnows
    /\ ErrorOfThisFailure
    /\ NoticeIsWarranted

=============================================================================
