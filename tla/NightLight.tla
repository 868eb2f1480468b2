----------------------------- MODULE NightLight -----------------------------
(***************************************************************************)
(* The owner of the warm display filter in configd (HyprsunsetController)  *)
(* together with the service that drives it (ConfigService's runtime       *)
(* reconciliation).                                                        *)
(*                                                                         *)
(* The controller has three child processes: a probe for a hyprsunset that *)
(* someone else runs, the hyprsunset daemon it starts itself, and hyprctl, *)
(* which tells that daemon a temperature.  Every change of its state is a  *)
(* Qt signal connected to ConfigService::reconcileRuntime, so that in the  *)
(* middle of a handler of the controller the service calls back into       *)
(* setTemperature and setEnabled; a signal that these two emit in turn     *)
(* finds the reconciliation in progress and posts another one.  Operators  *)
(* on the record night are the functions of the code, and the parameter    *)
(* Emit is what a signal does: Reconcile in a handler that the event loop  *)
(* calls, PostReconcile inside a reconciliation.                           *)
(***************************************************************************)
EXTENDS Naturals

CONSTANTS
    Temperature,    \* temperatures a schedule asks for, a set of numbers
    Neutral,        \* the temperature hyprsunset starts with
    Near,           \* gradual changes smaller than this wait (25 K)
    MaxStartups,    \* maximumStartupAttempts
    MaxCommands,    \* maximumCommandAttempts
    MaxChanges      \* bound on what the user, the time and a restart change

VARIABLES
    night,          \* the controller and the service
    filter,         \* what the owned daemon shows; 0 is no filter (identity)
    changes

vars == <<night, filter, changes>>

States == {"Disabled", "Probing", "ExternalDaemon", "Starting", "Applying",
           "Ready", "RetryWaiting", "Stopping", "Failed"}
Timers == {"startupRetry", "commandRetry", "settle", "probeTimeout",
           "commandTimeout", "stopTimeout", "external"}
Level == Temperature \cup {0, Neutral}

Wish == [runs: BOOLEAN, temperature: Temperature, gradual: BOOLEAN]

Controller ==
    [enabled: BOOLEAN, state: States, desired: Level, current: Level,
     failing: BOOLEAN,              \* error_ is not empty
     startups: 0..MaxStartups,      \* startupAttempts_
     attempts: 0..MaxCommands + 1,  \* commandAttempts_
     superseded: BOOLEAN,           \* commandGeneration_ # desiredGeneration_
     kind: {"none", "temperature", "identity"}, sent: Level, timedOut: BOOLEAN,
     owns: BOOLEAN, stopRequested: BOOLEAN, daemonHandled: BOOLEAN,
     probeHandled: BOOLEAN, probeRestart: BOOLEAN,
     probe: {"none", "running"}, command: {"none", "running"},
     daemon: {"none", "starting", "running"},
     killed: SUBSET {"probe", "daemon", "command"},
     armed: SUBSET Timers,
     posted: SUBSET {"probe", "dispatch", "reconcile"},
     wish: Wish, published: States \X Level]

TypeOK ==
    /\ night \in Controller
    /\ filter \in Level
    /\ changes \in 0..MaxChanges

Stop(timers, n) == [n EXCEPT !.armed = @ \ timers]
Arm(timer, n) == [n EXCEPT !.armed = @ \cup {timer}]
Post(call, n) == [n EXCEPT !.posted = @ \cup {call}]

\* The rest of a function after the call that returned n; n is evaluated once.
Then(n, Rest(_)) == CHOOSE r \in {Rest(m) : m \in {n}} : TRUE

SetState(state, n, Emit(_)) ==
    LET Changed(m) == IF state = m.state THEN m
                      ELSE Emit(Stop({"external"}, [m EXCEPT !.state = state]))
        Watched(m) == IF state = "ExternalDaemon" /\ m.state = state /\ m.enabled
                      THEN Arm("external", m) ELSE m
    IN Then(Then(n, Changed), Watched)

SetError(failing, n, Emit(_)) ==
    LET Changed(m) == IF failing = m.failing THEN m
                      ELSE Emit([m EXCEPT !.failing = failing])
    IN Then(n, Changed)

SetCurrent(level, n, Emit(_)) ==
    LET Changed(m) == IF level = m.current THEN m
                      ELSE Emit([m EXCEPT !.current = level])
    IN Then(n, Changed)

BeginProbe(n, Emit(_)) ==
    IF ~n.enabled \/ n.owns THEN n
    ELSE IF n.probe # "none" THEN [n EXCEPT !.probeRestart = @ \/ n.probeHandled]
    ELSE LET m == [n EXCEPT !.probeHandled = FALSE, !.probeRestart = FALSE]
             s == IF m.state = "ExternalDaemon" THEN m
                  ELSE SetState("Probing", m, Emit)
         IN Arm("probeTimeout", [s EXCEPT !.probe = "running"])

\* The signal of SetState may start the command first; QProcess::start() of a
\* running process is then refused, and the attempt has been counted twice.
DispatchDesiredCommand(n, Emit(_)) ==
    LET Run(m) ==
            LET told == [m EXCEPT
                    !.kind = IF m.enabled THEN "temperature" ELSE "identity",
                    !.sent = IF m.enabled THEN m.desired ELSE 0,
                    !.superseded = FALSE,
                    !.timedOut = FALSE,
                    !.attempts = IF @ > MaxCommands THEN @ ELSE @ + 1]
                s == SetState(IF m.enabled THEN "Applying" ELSE "Stopping", told, Emit)
            IN Arm("commandTimeout", [s EXCEPT !.command = "running"])
        Start(m) == IF \/ ~m.owns \/ m.stopRequested
                       \/ m.daemon # "running" \/ m.command # "none"
                    THEN m ELSE Run(m)
    IN Then(n, Start)

FinishStoppedDaemon(n, Emit(_)) ==
    LET m == SetCurrent(0, [n EXCEPT !.stopRequested = FALSE, !.owns = FALSE], Emit)
    IN IF m.enabled THEN BeginProbe(m, Emit) ELSE SetState("Disabled", m, Emit)

\* terminate() sends SIGTERM, which a daemon may ignore until it is killed.
StopOwnedDaemon(n, Emit(_)) ==
    LET m == Stop({"settle", "commandRetry"}, n)
    IN IF m.daemon = "none" THEN FinishStoppedDaemon(m, Emit)
       ELSE Arm("stopTimeout",
                SetState("Stopping", [m EXCEPT !.stopRequested = TRUE], Emit))

-----------------------------------------------------------------------------
(* The service.                                                            *)

PostReconcile(n) == Post("reconcile", n)

Supersede(n) == [n EXCEPT !.superseded = TRUE, !.attempts = 0]

SetTemperature(temperature, n) ==
    LET changed == temperature # n.desired
        m == IF ~changed THEN n
             ELSE SetError(FALSE,
                     Supersede(Stop({"commandRetry"},
                                    [n EXCEPT !.desired = temperature])),
                     PostReconcile)
    IN IF /\ m.enabled /\ m.owns /\ m.daemon = "running" /\ ~m.stopRequested
          /\ changed \/ m.current # m.desired \/ m.state # "Ready"
          /\ m.state # "Failed"
          /\ "commandRetry" \notin m.armed
       THEN DispatchDesiredCommand(m, PostReconcile) ELSE m

Enable(n) ==
    LET m == [n EXCEPT !.startups = 0]
    IN IF m.owns /\ m.daemon # "none"
       THEN IF m.stopRequested THEN m ELSE DispatchDesiredCommand(m, PostReconcile)
       ELSE BeginProbe(m, PostReconcile)

CancelProbe(n) ==
    LET m == Stop({"probeTimeout"}, n)
    IN IF m.probe = "none" THEN m
       ELSE [m EXCEPT !.probeHandled = TRUE, !.probeRestart = FALSE,
                      !.killed = @ \cup {"probe"}]

\* Faulty variant of Disable: a busy hyprctl is not waited for.
DisableAtOnce(n) ==
    LET m == CancelProbe(n)
    IN IF ~m.owns
       THEN SetState(IF m.probe = "none" THEN "Disabled" ELSE "Stopping",
                     SetCurrent(0, m, PostReconcile), PostReconcile)
       ELSE IF m.command = "running" THEN StopOwnedDaemon(m, PostReconcile)
       ELSE DispatchDesiredCommand(SetState("Stopping", m, PostReconcile),
                                   PostReconcile)

Disable(n) ==
    LET m == CancelProbe(n)
    IN IF ~m.owns
       THEN SetState(IF m.probe = "none" THEN "Disabled" ELSE "Stopping",
                     SetCurrent(0, m, PostReconcile), PostReconcile)
       ELSE CASE m.daemon = "running" ->
                   DispatchDesiredCommand(SetState("Stopping", m, PostReconcile),
                                          PostReconcile)
              [] m.daemon = "starting" -> SetState("Stopping", m, PostReconcile)
              [] m.daemon = "none" -> StopOwnedDaemon(m, PostReconcile)

SetEnabled(enabled, n) ==
    IF enabled = n.enabled THEN n
    ELSE LET m == SetError(FALSE,
                     Supersede(Stop({"startupRetry", "commandRetry", "settle"},
                                    [n EXCEPT !.enabled = enabled])),
                     PostReconcile)
         IN IF enabled THEN Enable(m) ELSE Disable(m)

Distance(a, b) == IF a > b THEN a - b ELSE b - a

\* A gradual schedule does not trouble the daemon for a small step.
Target(n) ==
    IF /\ n.wish.gradual /\ n.current > 0
       /\ Distance(n.wish.temperature, n.current) < Near
    THEN n.current ELSE n.wish.temperature

Reconcile(n) ==
    LET Tell(m) == SetEnabled(m.wish.runs,
                       IF m.wish.runs THEN SetTemperature(Target(m), m) ELSE m)
        Publish(m) == [m EXCEPT !.published = <<m.state, m.current>>]
    IN Then(Then(n, Tell), Publish)

-----------------------------------------------------------------------------
(* The controller's handlers.                                              *)

ScheduleStartupRetry(n) ==
    LET m == SetCurrent(0, Stop({"settle"}, [n EXCEPT !.owns = FALSE]), Reconcile)
        failing == SetError(TRUE, m, Reconcile)
    IN IF ~m.enabled THEN SetState("Disabled", m, Reconcile)
       ELSE IF failing.startups >= MaxStartups
       THEN SetState("Failed", failing, Reconcile)
       ELSE Arm("startupRetry", SetState("RetryWaiting", failing, Reconcile))

StartOwnedDaemon(n) ==
    IF n.startups >= MaxStartups THEN SetState("Failed", n, Reconcile)
    ELSE [SetState("Starting",
                   [n EXCEPT !.startups = @ + 1, !.stopRequested = FALSE,
                             !.daemonHandled = FALSE, !.owns = TRUE],
                   Reconcile) EXCEPT !.daemon = "starting"]

HandleProbeFailure(n) ==
    LET m == Stop({"probeTimeout"}, [n EXCEPT !.probeHandled = TRUE])
    IN IF m.enabled THEN SetState("Failed", SetError(TRUE, m, Reconcile), Reconcile)
       ELSE m

\* The end of a probe that was given up: by a timeout or by a Disable.
HandleCancelledProbe(n) ==
    LET m == [n EXCEPT !.probeRestart = FALSE]
    IN IF ~m.enabled /\ m.state = "Stopping" THEN SetState("Disabled", m, Reconcile)
       ELSE IF n.probeRestart /\ m.enabled /\ ~m.owns THEN Post("probe", m)
       ELSE m

HandleProbeFinished(outcome, n) ==
    LET m == Stop({"probeTimeout"}, [n EXCEPT !.probeHandled = TRUE])
        external == SetCurrent(0, [m EXCEPT !.startups = 0, !.owns = FALSE], Reconcile)
    IN IF n.probeHandled THEN HandleCancelledProbe(n)
       ELSE IF ~m.enabled THEN m
       ELSE CASE outcome = "present" ->
                   SetState("ExternalDaemon", SetError(FALSE, external, Reconcile),
                            Reconcile)
              [] outcome = "absent" -> StartOwnedDaemon(m)
              [] outcome = "broken" -> HandleProbeFailure(m)

HandleDaemonStarted(n) ==
    IF n.enabled THEN Arm("settle", n)
    ELSE DispatchDesiredCommand(SetState("Stopping", n, Reconcile), Reconcile)

\* Faulty variant of DropCommand: the command outlives its daemon.
DropNothing(n) == n

DropCommand(n) ==
    IF n.command = "none" THEN n
    ELSE [Supersede(n) EXCEPT !.killed = @ \cup {"command"}]

HandleDaemonFinished(n) ==
    LET m == DropCommand(SetCurrent(0,
                 Stop({"settle", "stopTimeout"},
                      [n EXCEPT !.stopRequested = FALSE, !.daemonHandled = TRUE,
                                !.owns = FALSE]),
                 Reconcile))
    IN IF n.daemonHandled THEN n
       ELSE IF ~(n.stopRequested \/ ~n.enabled) THEN ScheduleStartupRetry(m)
       ELSE IF m.enabled THEN Post("probe", m)
       ELSE SetState("Disabled", m, Reconcile)

HandleDaemonFailedToStart(n) ==
    IF n.daemonHandled THEN n
    ELSE ScheduleStartupRetry([n EXCEPT !.daemonHandled = TRUE])

\* The retry timer and the state are set before the error, so that the
\* reconciliation the error causes does not start the command at once.
ScheduleCommandRetry(n) ==
    LET again == SetState(IF n.enabled THEN "Applying" ELSE "Stopping",
                          Arm("commandRetry", n), Reconcile)
        over == IF n.enabled THEN SetState("Failed", n, Reconcile)
                ELSE StopOwnedDaemon(n, Reconcile)
    IN IF ~n.owns \/ n.daemon # "running" THEN n
       ELSE SetError(TRUE, IF n.attempts < MaxCommands THEN again ELSE over, Reconcile)

CommandSucceeds(kind, sent, n) ==
    LET m == SetError(FALSE, [n EXCEPT !.attempts = 0, !.startups = 0], Reconcile)
    IN CASE kind = "temperature" /\ m.enabled ->
              SetState("Ready", SetCurrent(sent, m, Reconcile), Reconcile)
         [] kind = "identity" /\ ~m.enabled ->
              StopOwnedDaemon(SetCurrent(0, m, Reconcile), Reconcile)
         [] OTHER -> m

\* Faulty variant of HandleCommandFinished: a command for a state that is no
\* longer desired is dropped.
HandleCommandDropped(ok, n) ==
    LET m == Stop({"commandTimeout"},
                  [n EXCEPT !.kind = "none", !.sent = 0, !.timedOut = FALSE])
    IN IF n.superseded THEN m
       ELSE IF ok /\ ~n.timedOut THEN CommandSucceeds(n.kind, n.sent, m)
       ELSE ScheduleCommandRetry(m)

\* What became of a command for a state that is no longer desired does not
\* matter: the desired one is told instead.
HandleCommandFinished(ok, n) ==
    LET m == Stop({"commandTimeout"},
                  [n EXCEPT !.kind = "none", !.sent = 0, !.timedOut = FALSE])
    IN IF n.superseded THEN Post("dispatch", m)
       ELSE IF ok /\ ~n.timedOut THEN CommandSucceeds(n.kind, n.sent, m)
       ELSE ScheduleCommandRetry(m)

Kill(process, n) == [n EXCEPT !.killed = @ \cup {process}]

HandleTimeout(timer, n) ==
    CASE timer \in {"startupRetry", "external"} -> BeginProbe(n, Reconcile)
      [] timer \in {"commandRetry", "settle"} -> DispatchDesiredCommand(n, Reconcile)
      [] timer = "probeTimeout" ->
           IF n.probe = "none" THEN n
           ELSE HandleProbeFailure(Kill("probe", [n EXCEPT !.probeRestart = FALSE]))
      [] timer = "commandTimeout" ->
           IF n.command = "none" THEN n
           ELSE Kill("command", [n EXCEPT !.timedOut = TRUE])
      [] timer = "stopTimeout" ->
           IF n.daemon = "none" THEN n ELSE Kill("daemon", n)

-----------------------------------------------------------------------------
(* The event loop.                                                         *)

Handle(n) ==
    /\ night' = n
    /\ UNCHANGED changes

Ended(process, n) == [n EXCEPT ![process] = "none", !.killed = @ \ {process}]

ProbeFinishes(outcome) ==
    /\ night.probe = "running"
    /\ Handle(HandleProbeFinished(outcome, Ended("probe", night)))
    /\ UNCHANGED filter

ProbeFailsToStart ==
    /\ night.probe = "running"
    /\ Handle(HandleProbeFailure(Ended("probe", night)))
    /\ UNCHANGED filter

DaemonStarts ==
    /\ night.daemon = "starting"
    /\ filter' = Neutral
    /\ Handle(HandleDaemonStarted([night EXCEPT !.daemon = "running"]))

DaemonFailsToStart ==
    /\ night.daemon = "starting"
    /\ Handle(HandleDaemonFailedToStart(Ended("daemon", night)))
    /\ UNCHANGED filter

\* The daemon exits, asked to or not.
DaemonFinishes ==
    /\ night.daemon = "running"
    /\ filter' = 0
    /\ Handle(HandleDaemonFinished(Ended("daemon", night)))

\* A command that succeeded was obeyed, one that failed or was killed may
\* have been.
CommandFinishes(ok) ==
    /\ night.command = "running"
    /\ IF night.daemon = "running" THEN
           \/ filter' = night.sent
           \/ ~ok /\ UNCHANGED filter
       ELSE UNCHANGED filter
    /\ Handle(HandleCommandFinished(ok, Ended("command", night)))

TimerFires(timer) ==
    /\ timer \in night.armed
    /\ Handle(HandleTimeout(timer, Stop({timer}, night)))
    /\ UNCHANGED filter

Posted(call) ==
    /\ call \in night.posted
    /\ LET n == [night EXCEPT !.posted = @ \ {call}]
       IN Handle(CASE call = "probe" -> BeginProbe(n, Reconcile)
                   [] call = "dispatch" -> DispatchDesiredCommand(n, Reconcile)
                   [] call = "reconcile" -> Reconcile(n))
    /\ UNCHANGED filter

\* The user changes the settings, or the location becomes known or unknown.
Prefer(wish) ==
    /\ changes < MaxChanges
    /\ wish # night.wish
    /\ changes' = changes + 1
    /\ night' = Reconcile([night EXCEPT !.wish = wish])
    /\ UNCHANGED filter

\* The schedule asks for another temperature; nothing runs before the next
\* signal or the automation timer.
TimePasses(temperature) ==
    /\ changes < MaxChanges
    /\ temperature # night.wish.temperature
    /\ changes' = changes + 1
    /\ night' = [night EXCEPT !.wish.temperature = temperature]
    /\ UNCHANGED filter

AutomationTimer ==
    /\ Handle(Reconcile(night))
    /\ UNCHANGED filter

Idle(wish) ==
    [enabled |-> FALSE, state |-> "Disabled", desired |-> Neutral, current |-> 0,
     failing |-> FALSE, startups |-> 0, attempts |-> 0, superseded |-> FALSE,
     kind |-> "none", sent |-> 0, timedOut |-> FALSE,
     owns |-> FALSE, stopRequested |-> FALSE, daemonHandled |-> FALSE,
     probeHandled |-> FALSE, probeRestart |-> FALSE,
     probe |-> "none", command |-> "none", daemon |-> "none",
     killed |-> {}, armed |-> {}, posted |-> {},
     wish |-> wish, published |-> <<"Disabled", 0>>]

\* configd is killed and started again. The daemon dies with it
\* (PR_SET_PDEATHSIG), and the settings are what was persisted.
Restart ==
    /\ changes < MaxChanges
    /\ changes' = changes + 1
    /\ night' = Reconcile(Idle(night.wish))
    /\ filter' = 0

Init ==
    /\ \E wish \in Wish : night = Reconcile(Idle(wish))
    /\ filter = 0
    /\ changes = 0

Probes == ProbeFailsToStart \/ \E o \in {"present", "absent", "broken"} : ProbeFinishes(o)
Daemon == DaemonStarts \/ DaemonFailsToStart \/ DaemonFinishes
Command == \E ok \in BOOLEAN : CommandFinishes(ok)

Next ==
    \/ Probes
    \/ Daemon
    \/ Command
    \/ \E timer \in Timers : TimerFires(timer)
    \/ \E call \in {"probe", "dispatch", "reconcile"} : Posted(call)
    \/ \E wish \in Wish : Prefer(wish)
    \/ \E temperature \in Temperature : TimePasses(temperature)
    \/ AutomationTimer
    \/ Restart

Spec == Init /\ [][Next]_vars

\* Timers fire, posted calls run, and a killed process or one that is being
\* started ends or starts. Nothing else has to happen: a child may hang and a
\* daemon may ignore SIGTERM.
Certain ==
    ({"fires"} \X Timers) \cup ({"posted"} \X {"probe", "dispatch", "reconcile"})
    \cup ({"ends"} \X {"probe", "command", "daemon"}) \cup {<<"starts", "daemon">>}

Ends(process) ==
    /\ process \in night.killed
    /\ CASE process = "probe" -> Probes
         [] process = "command" -> Command
         [] process = "daemon" -> DaemonFinishes

CertainStep(step) ==
    CASE step[1] = "fires" -> TimerFires(step[2])
      [] step[1] = "posted" -> Posted(step[2])
      [] step[1] = "ends" -> Ends(step[2])
      [] step[1] = "starts" -> DaemonStarts \/ DaemonFailsToStart

LiveSpec == Spec /\ \A step \in Certain : WF_vars(CertainStep(step))

-----------------------------------------------------------------------------

\* The desired temperature is still being told, or will be.
Unsettled ==
    \/ night.command = "running"
    \/ "dispatch" \in night.posted
    \/ {"settle", "commandRetry"} \cap night.armed # {}

\* What the service publishes is the controller's state, however deep in a
\* reconciliation it was reached; and once the user is told that the filter
\* is ready, the daemon shows what was last asked for or is about to, whatever
\* became of commands that were superseded, timed out or outlived their daemon
\* (reconcileRuntime, handleCommandFinished).
ToldIsShown ==
    /\ TypeOK
    /\ "reconcile" \in night.posted \/ night.published = <<night.state, night.current>>
    /\ night.state = "Ready" =>
           /\ night.enabled
           /\ night.owns
           /\ night.daemon = "running"
           /\ ~night.stopRequested
           /\ ~Unsettled =>
                  filter = night.desired /\ night.current = night.desired

\* The controller asks its daemon to stop only after it has taken the filter
\* off the screen, or has used up its attempts to (stopOwnedDaemon).
FilterTakenOffFirst ==
    [][~night.stopRequested /\ night'.stopRequested
       => filter' = 0 \/ night'.attempts >= MaxCommands]_vars

Gone ==
    /\ ~night.owns
    /\ night.daemon = "none"
    /\ night.probe = "none"

\* Once the user leaves the settings alone, a filter that was turned off is
\* gone with its daemon and its probe, and one that was turned on gets
\* somewhere, over and over: nothing waits for an event that cannot come.
NightLightSettles ==
    /\ <>[](~night.enabled) => <>[]Gone
    /\ <>[]night.enabled => []<>(night.state \in {"Ready", "ExternalDaemon", "Failed"})

=============================================================================
