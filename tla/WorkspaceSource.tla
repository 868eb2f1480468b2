-------------------------- MODULE WorkspaceSource --------------------------
(***************************************************************************)
(* The workspaces the bar shows (surfaced/HyprlandWorkspaceSource.qml):    *)
(* an event stream tells that the desktop has changed, never what it is;   *)
(* that is asked for in four requests on sockets of their own, one after   *)
(* the other, while the desktop goes on changing.  The answers are put     *)
(* together in a snapshot (HyprlandWorkspaceProtocol.js), from which the   *)
(* bar takes its entries (WorkspaceProjection.js) and which the commands   *)
(* of the user are checked against.                                        *)
(*                                                                         *)
(* The counter of events is kept as what is compared of it: whether one    *)
(* came since the cycle began, and since the one of the snapshot did.      *)
(***************************************************************************)
EXTENDS Naturals, Sequences

CONSTANTS
    None,
    Monitor, Workspace, Window,
    MaxDesktopChanges,  \* bound: changes of the desktop and calls for attention
    MaxMoves,           \* bound: changes of the desktop
    MaxDisruptions      \* bound: sockets that fail and requests that time out

VARIABLES
    desktop,        \* what Hyprland has
    announced,      \* lines of the event stream under way
    source,         \* HyprlandWorkspaceSource
    calls,          \* history: windows that called, each with the snapshots it
                    \* may still be missing from before its call is over
    standing,       \* history: those to which nothing has happened since
    desktopBounds   \* changes with calls, changes and disruptions so far

history == <<calls, standing>>
vars == <<desktop, announced, source, history, desktopBounds>>

Commands == <<"status", "workspaces", "monitors", "clients">>
NoReads == [status |-> None, workspaces |-> None, monitors |-> None, clients |-> None]

\* The desktop the source finds (a bound): a workspace shown on each of two
\* monitors, a window on one that is not shown, and windows still to be opened.
FirstDesktop ==
    LET left == CHOOSE m \in Monitor : TRUE
        right == CHOOSE m \in Monitor \ {left} : TRUE
        listed == CHOOSE c \in Window : TRUE
    IN  [active |-> [m \in Monitor |-> IF m = left THEN 1 ELSE 2], focused |-> left,
         on |-> [w \in Workspace |-> IF w = 2 THEN right ELSE left],
         at |-> [c \in Window |-> IF c = listed THEN 3 ELSE None], focus |-> None]

\* emptySnapshot.
EmptySnapshot ==
    [on |-> [w \in Workspace |-> None], active |-> [m \in Monitor |-> None],
     focused |-> None, at |-> [c \in Window |-> None],
     monitor |-> [c \in Window |-> None], urgent |-> {}]

Init ==
    /\ desktop = FirstDesktop
    /\ announced = <<>>
    /\ source =
           [stream |-> "connecting",    \* _eventStream: none, connecting, ready
            cycle |-> FALSE,            \* _cycleActive
            undisturbed |-> FALSE,      \* _cycleEventGeneration = _eventGeneration
            stage |-> 0,                \* _cycleStage
            reads |-> NoReads,          \* _cyclePayloads, with the one under way
            request |-> None,           \* the command of _activeRequest
            answered |-> FALSE,         \* whether its response is under way
            queued |-> FALSE,           \* _refreshQueued
            refresh |-> "off",          \* refreshTimer: off, now, soon
            retry |-> FALSE, reconnect |-> FALSE, loss |-> FALSE,    \* timers
            later |-> <<>>,             \* Qt.callLater
            snapshot |-> EmptySnapshot, \* _snapshot
            urgent |-> [c \in Window |-> 0],    \* _urgentAddresses
            available |-> FALSE, failures |-> 0,
            fresh |-> FALSE]            \* no event since the snapshot's cycle began
    /\ calls = [c \in Window |-> 0]
    /\ standing = {}
    /\ desktopBounds = [changes |-> 0, moves |-> 0, disruptions |-> 0]

-----------------------------------------------------------------------------
(* The desktop: each change is told in lines, to whoever is connected      *)

FocusedWorkspace(d) == d.active[d.focused]

\* A window on the workspace that is shown takes the focus, if there is one.
Focused(d) ==
    LET there == {c \in Window : d.at[c] = FocusedWorkspace(d)}
    IN  [d EXCEPT !.focus = IF there = {} THEN None
                            ELSE IF @ \in there THEN @
                            ELSE CHOOSE c \in there : TRUE]

FocusLine(d) == [name |-> "activewindowv2", subject |-> d.focus]

Told(next, lines) ==
    /\ desktopBounds.changes < MaxDesktopChanges
    /\ desktop' = Focused(next)
    /\ announced' = IF source.stream # "ready" THEN <<>>
                    ELSE announced \o lines
                         \o (IF Focused(next).focus = desktop.focus THEN <<>>
                             ELSE <<FocusLine(Focused(next))>>)
    /\ UNCHANGED <<source, history>>

Change(next, lines) ==
    /\ desktopBounds.moves < MaxMoves
    /\ desktopBounds' = [desktopBounds EXCEPT !.changes = @ + 1, !.moves = @ + 1]
    /\ Told(next, lines)

Line(name, subject) == <<[name |-> name, subject |-> subject]>>

WorkspaceShown ==
    \E w \in Workspace :
        /\ desktop.on[w] # None /\ w # FocusedWorkspace(desktop)
        /\ Change([desktop EXCEPT !.active[desktop.on[w]] = w,
                                  !.focused = desktop.on[w]],
                  IF desktop.active[desktop.on[w]] = w
                  THEN Line("focusedmonv2", w) ELSE Line("workspacev2", w))

WindowMoved ==
    \E c \in Window, w \in Workspace :
        /\ desktop.at[c] \notin {None, w} /\ desktop.on[w] # None
        /\ Change([desktop EXCEPT !.at[c] = w], Line("movewindowv2", c))

WorkspaceMoved ==
    \E w \in Workspace, m \in Monitor :
        /\ desktop.on[w] \notin {None, m} /\ desktop.active[m] # None
        /\ desktop.active[desktop.on[w]] # w
        /\ Change([desktop EXCEPT !.on[w] = m], Line("moveworkspacev2", w))

MonitorRemoved ==
    \E m, other \in Monitor :
        /\ m # other /\ desktop.active[m] # None /\ desktop.active[other] # None
        /\ Change([desktop EXCEPT
                      !.active[m] = None, !.focused = other,
                      !.on = [w \in Workspace |->
                                  IF @[w] = m THEN other ELSE @[w]]],
                  Line("monitorremovedv2", m))

MonitorAdded ==
    \E m \in Monitor, w \in Workspace :
        /\ desktop.active[m] = None
        /\ \A other \in Monitor : desktop.active[other] # w
        /\ Change([desktop EXCEPT !.active[m] = w, !.on[w] = m],
                  Line("monitoraddedv2", m))

WindowOpened ==
    \E c \in Window, w \in Workspace :
        /\ desktop.at[c] = None /\ desktop.on[w] # None
        /\ Change([desktop EXCEPT !.at[c] = w], Line("openwindow", c))

WindowClosed ==
    \E c \in Window :
        /\ desktop.at[c] # None
        /\ Change([desktop EXCEPT !.at[c] = None], Line("closewindow", c))

\* A window may call before it is listed.
WindowCalls ==
    \E c \in Window :
        /\ c # desktop.focus
        /\ desktopBounds' = [desktopBounds EXCEPT !.changes = @ + 1]
        /\ Told(desktop, Line("urgent", c))

DesktopChanges ==
    \/ WorkspaceShown \/ WindowMoved \/ WorkspaceMoved \/ MonitorRemoved
    \/ MonitorAdded \/ WindowOpened \/ WindowClosed \/ WindowCalls

\* What each request is answered with.
Answer(command, d) ==
    CASE command = "status" -> "lua"
      [] command = "workspaces" -> d.on
      [] command = "monitors" -> [active |-> d.active, focused |-> d.focused]
      [] command = "clients" ->
             [at |-> d.at, focus |-> d.focus,
              monitor |-> [c \in Window |-> IF d.at[c] = None THEN None
                                            ELSE d.on[d.at[c]]]]

-----------------------------------------------------------------------------
(* HyprlandWorkspaceProtocol.js                                            *)

\* What buildSnapshot insists on; answers that were read of different desktops
\* mostly fail it, but not always.
Whole(reads) ==
    LET on == reads.workspaces
        active == reads.monitors.active
        clients == reads.clients
    IN  /\ \E m \in Monitor : active[m] # None
        /\ \A w \in Workspace : on[w] # None => active[on[w]] # None
        /\ \A m \in Monitor : active[m] # None => on[active[m]] = m
        /\ \A c \in Window : clients.at[c] # None =>
               /\ on[clients.at[c]] # None
               /\ clients.monitor[c] = on[clients.at[c]]

\* Faulty variant: the call of a window that is not listed yet is forgotten at
\* the next snapshot.
ReconcileUrgencyOfListed(urgent, reads) ==
    LET clients == reads.clients
        focused == reads.monitors.active[reads.monitors.focused]
    IN  [c \in Window |->
            IF clients.at[c] = None \/ c = clients.focus \/ clients.at[c] = focused
            THEN 0 ELSE urgent[c]]

\* reconcileUrgency: the call of a window that is not listed is forgotten at the
\* third snapshot.
ReconcileUrgency(urgent, reads) ==
    LET clients == reads.clients
        focused == reads.monitors.active[reads.monitors.focused]
    IN  [c \in Window |->
            IF clients.at[c] = None
            THEN IF urgent[c] = 0 THEN 0 ELSE urgent[c] - 1
            ELSE IF c = clients.focus \/ clients.at[c] = focused THEN 0
            ELSE urgent[c]]

ClearWorkspaceUrgency(urgent, snapshot, w) ==
    [c \in Window |-> IF snapshot.at[c] = w THEN 0 ELSE urgent[c]]

\* applyUrgentEvent: whose workspace a window is on is looked up in the
\* snapshot that is shown.
ApplyUrgentEvent(urgent, line, snapshot) ==
    CASE line.name = "urgent" -> [urgent EXCEPT ![line.subject] = 3]
      [] line.name \in {"closewindow", "activewindowv2"} ->
             [c \in Window |-> IF c = line.subject THEN 0 ELSE urgent[c]]
      [] line.name \in {"workspacev2", "focusedmonv2"} ->
             ClearWorkspaceUrgency(urgent, snapshot, line.subject)
      [] OTHER -> urgent

\* buildSnapshot with applyUrgency.
BuildSnapshot(reads, urgent) ==
    [on |-> reads.workspaces, active |-> reads.monitors.active,
     focused |-> reads.monitors.focused, at |-> reads.clients.at,
     monitor |-> reads.clients.monitor,
     urgent |-> {c \in Window : reads.clients.at[c] # None /\ urgent[c] > 0}]

FindMonitor(snapshot, m) == snapshot.active[m] # None
FindWorkspace(snapshot, m, w) == w # None /\ snapshot.on[w] = m
FindClient(snapshot, c) == snapshot.at[c] # None

-----------------------------------------------------------------------------
(* HyprlandWorkspaceSource.qml                                             *)

Live(s) == s.stream = "ready"

ActionsAvailable(s) ==
    s.available /\ Live(s) /\ ~s.cycle /\ ~s.queued /\ s.refresh = "off" /\ ~s.retry

\* A timer that runs is restarted only to fire sooner.
QueueRefresh(s, delay) ==
    IF ~Live(s) \/ s.cycle \/ s.refresh \in {"now", delay}
    THEN [s EXCEPT !.queued = TRUE]
    ELSE [s EXCEPT !.queued = TRUE, !.refresh = delay]

\* _eventGeneration += 1.
NewGeneration(s) == [s EXCEPT !.undisturbed = FALSE, !.fresh = FALSE]

CycleEnded(s) ==
    [s EXCEPT !.cycle = FALSE, !.request = None, !.answered = FALSE,
              !.stage = 0, !.reads = NoReads, !.undisturbed = FALSE]

\* Faulty variant of FailCycle: it is left at that while something is shown.
FailCycleWhileShown(s) ==
    [CycleEnded(s) EXCEPT
        !.queued = FALSE,
        !.failures = IF @ < 3 THEN @ + 1 ELSE 3,
        !.available = @ /\ s.failures + 1 < 3,
        !.retry = @ \/ (Live(s) /\ ~s.available)]

FailCycle(s) ==
    [CycleEnded(s) EXCEPT
        !.queued = FALSE,
        !.failures = IF @ < 3 THEN @ + 1 ELSE 3,
        !.available = @ /\ s.failures + 1 < 3,
        !.retry = @ \/ Live(s)]

DiscardInvalidatedCycle(s) ==
    QueueRefresh([CycleEnded(s) EXCEPT !.queued = TRUE], "now")

StartRequest(s, command) ==
    IF ~s.cycle \/ s.request # None THEN s
    ELSE [s EXCEPT !.request = command, !.answered = FALSE]

BeginCycle(s) ==
    IF ~Live(s) THEN s
    ELSE IF s.cycle THEN [s EXCEPT !.queued = TRUE]
    ELSE StartRequest([s EXCEPT !.retry = FALSE, !.cycle = TRUE, !.queued = FALSE,
                                !.undisturbed = TRUE, !.stage = 0,
                                !.reads = NoReads], "status")

AcceptResponse(s) ==
    IF ~s.undisturbed \/ ~Live(s) THEN DiscardInvalidatedCycle(s)
    ELSE [s EXCEPT !.stage = @ + 1,
                   !.later = Append(@, IF s.stage + 1 < Len(Commands)
                                       THEN Commands[s.stage + 2] ELSE "commit")]

Committed(s) ==
    LET urgent == ReconcileUrgency(s.urgent, s.reads)
    IN  [CycleEnded(s) EXCEPT !.snapshot = BuildSnapshot(s.reads, urgent),
                              !.urgent = urgent, !.available = TRUE,
                              !.failures = 0, !.fresh = TRUE]

\* buildSnapshot accepts what was read.
Complete(reads) ==
    (\A command \in DOMAIN reads : reads[command] # None) /\ Whole(reads)

CommitCycle(s) ==
    IF ~s.cycle THEN s
    ELSE IF ~s.undisturbed \/ ~Live(s) THEN DiscardInvalidatedCycle(s)
    ELSE IF ~Complete(s.reads) THEN FailCycle(s)
    ELSE IF s.queued THEN QueueRefresh(Committed(s), "now")
    ELSE Committed(s)

EventConnected(s) ==
    [NewGeneration(s) EXCEPT
        !.stream = "ready", !.reconnect = FALSE, !.loss = FALSE, !.queued = TRUE,
        !.later = Append(@, "refresh")]

HandleEventFailure(s) ==
    LET closed == [NewGeneration(s) EXCEPT !.stream = "none", !.queued = TRUE,
                                           !.refresh = "off"]
    IN  [(IF s.cycle THEN FailCycle(closed) ELSE closed)
             EXCEPT !.loss = TRUE, !.reconnect = TRUE]

\* A refresh that was put off, or the next step of a cycle.
RunLater(s) ==
    LET rest == [s EXCEPT !.later = Tail(@)]
    IN  CASE Head(s.later) = "refresh" -> QueueRefresh(rest, "now")
          [] Head(s.later) = "commit" -> CommitCycle(rest)
          [] OTHER -> StartRequest(rest, Head(s.later))

-----------------------------------------------------------------------------

Quiet == UNCHANGED <<desktop, announced, history, desktopBounds>>

Disruption ==
    /\ desktopBounds.disruptions < MaxDisruptions
    /\ desktopBounds' = [desktopBounds EXCEPT !.disruptions = @ + 1]

\* Hyprland has accepted the connection before it answers what is asked later.
StreamConnects ==
    /\ source.stream = "connecting"
    /\ source' = EventConnected(source)
    /\ Quiet

\* The connection is lost, refused or times out.
StreamFails ==
    /\ source.stream # "none"
    /\ Disruption
    /\ source' = HandleEventFailure(source)
    /\ announced' = <<>>
    /\ standing' = {}
    /\ UNCHANGED <<desktop, calls>>

LineHandled ==
    /\ announced # <<>>
    /\ LET line == Head(announced)
           s == NewGeneration(source)
       IN  /\ source' = QueueRefresh(
                  [s EXCEPT !.urgent = ApplyUrgentEvent(@, line, s.snapshot)], "soon")
           /\ calls' = CASE line.name = "urgent" -> [calls EXCEPT ![line.subject] = 3]
                         [] line.name \in {"closewindow", "activewindowv2"} ->
                                [c \in Window |-> IF c = line.subject THEN 0 ELSE calls[c]]
                         [] OTHER -> calls
           /\ standing' =
                  IF line.name = "urgent" THEN standing \cup {line.subject}
                  ELSE IF line.name \in {"openwindow", "moveworkspacev2"} THEN standing
                  ELSE IF line.subject \in Window THEN standing \ {line.subject}
                  ELSE {}
    /\ announced' = Tail(announced)
    /\ UNCHANGED <<desktop, desktopBounds>>

RequestAnswered ==
    /\ source.request # None /\ ~source.answered
    /\ source' = [source EXCEPT !.answered = TRUE,
                      !.reads[source.request] = Answer(source.request, desktop)]
    /\ Quiet

RequestSucceeded ==
    /\ source.answered
    /\ source' = AcceptResponse([source EXCEPT !.request = None, !.answered = FALSE])
    /\ Quiet

\* The request times out, or its response is cut short or too long.
RequestFailed ==
    /\ source.request # None
    /\ Disruption
    /\ source' = FailCycle(source)
    /\ UNCHANGED <<desktop, announced, history>>

\* The step that is run shows a new snapshot.
ShowsSnapshot ==
    /\ Head(source.later) = "commit" /\ source.cycle
    /\ source.undisturbed /\ Live(source) /\ Complete(source.reads)

Deferred ==
    /\ source.later # <<>>
    /\ source' = RunLater(source)
    /\ calls' = [c \in Window |->
                    IF ShowsSnapshot /\ source.reads.clients.at[c] = None /\ calls[c] > 0
                    THEN calls[c] - 1 ELSE calls[c]]
    /\ UNCHANGED <<desktop, announced, standing, desktopBounds>>

RefreshTimerFires ==
    /\ source.refresh # "off"
    /\ source' = BeginCycle([source EXCEPT !.refresh = "off"])
    /\ Quiet

RetryTimerFires ==
    /\ source.retry
    /\ source' = QueueRefresh([source EXCEPT !.retry = FALSE], "now")
    /\ Quiet

ReconnectTimerFires ==
    /\ source.reconnect
    /\ source' = [source EXCEPT !.reconnect = FALSE,
                      !.stream = IF @ = "none" THEN "connecting" ELSE @]
    /\ Quiet

LossTimerFires ==
    /\ source.loss
    /\ source' = [source EXCEPT !.loss = FALSE, !.available = @ /\ Live(source)]
    /\ Quiet

\* activateWorkspace and activateWindow dispatch only what the snapshot that is
\* shown allows; Hyprland then does it, if what is named is still there.
MayActivateWorkspace(s, m, w) ==
    FindMonitor(s, m) /\ FindWorkspace(s, m, w) /\ s.active[m] # w

MayActivateWindow(s, m, w, c) ==
    /\ FindMonitor(s, m) /\ FindWorkspace(s, m, w) /\ FindClient(s, c)
    /\ s.active[m] = w /\ s.at[c] = w /\ s.monitor[c] = m

WorkspaceActivated ==
    \E m \in Monitor, w \in Workspace :
        /\ ActionsAvailable(source) /\ MayActivateWorkspace(source.snapshot, m, w)
        /\ desktop.on[w] # None
        /\ Change([desktop EXCEPT !.active[desktop.on[w]] = w,
                                  !.focused = desktop.on[w]],
                  Line("workspacev2", w))

WindowActivated ==
    \E m \in Monitor, c \in Window :
        LET w == desktop.at[c]
        IN  /\ ActionsAvailable(source)
            /\ MayActivateWindow(source.snapshot, m, source.snapshot.active[m], c)
            /\ w # None
            /\ Change([desktop EXCEPT !.active[desktop.on[w]] = w,
                                      !.focused = desktop.on[w], !.focus = c],
                      Line("workspacev2", w))

Next ==
    \/ DesktopChanges
    \/ WorkspaceActivated \/ WindowActivated
    \/ StreamConnects \/ StreamFails \/ LineHandled
    \/ RequestAnswered \/ RequestSucceeded \/ RequestFailed
    \/ Deferred \/ RefreshTimerFires \/ RetryTimerFires
    \/ ReconnectTimerFires \/ LossTimerFires

Spec == Init /\ [][Next]_vars

-----------------------------------------------------------------------------
(* WorkspaceProjection.js                                                  *)

OutputAvailable(s, m) == s.active[m] # None /\ s.on[s.active[m]] = m

\* The entries of a bar, and the applications in one of them.
Entries(s, m) ==
    IF OutputAvailable(s, m) THEN {w \in Workspace : s.on[w] = m} ELSE {}
Applications(s, w) == {c \in Window : s.at[c] = w}

-----------------------------------------------------------------------------

\* Nothing is under way or waits for a timer.
Settled ==
    /\ announced = <<>>
    /\ Live(source) /\ ~source.cycle /\ source.later = <<>>
    /\ source.refresh = "off" /\ ~source.retry

\* However changes of the desktop fall between the requests, the events and the
\* answers, a source with nothing left to do shows what there is, and takes
\* actions (_acceptResponse, _commitCycle, _failCycle).
SettledIsCurrent ==
    Settled =>
        /\ ActionsAvailable(source)
        /\ source.snapshot.on = desktop.on
        /\ source.snapshot.active = desktop.active
        /\ source.snapshot.at = desktop.at

\* An action is only taken while no event is known that the snapshot may have
\* missed ("stale action was dispatched" of
\* tests/quickshell/hyprland-source-shell.qml).
ActsOnLatest == ActionsAvailable(source) => source.fresh

\* Every entry but the active one can be switched to, and every application of
\* the active one focused: no torn set of answers shows what a click would then
\* be refused for (buildSnapshot, activateWindow).
ShownCanBeActedOn ==
    \A m \in Monitor :
        LET s == source.snapshot
        IN  OutputAvailable(s, m) =>
                /\ \A w \in Entries(s, m) \ {s.active[m]} : MayActivateWorkspace(s, m, w)
                /\ \A c \in Applications(s, s.active[m]) :
                       MayActivateWindow(s, m, s.active[m], c)

\* The source never stops: a lost stream is connected again, a cycle goes on,
\* and what is shown without a stream is shown until the grace timer fires.
SourceGoesOn ==
    /\ source.stream = "none" => source.reconnect
    /\ source.cycle => \/ source.request # None
                       \/ \E i \in DOMAIN source.later : source.later[i] # "refresh"
    /\ source.available /\ ~Live(source) => source.loss

\* A window that has called for attention, and to which nothing has happened
\* since, is shown as urgent unless the user is looking at its workspace, even
\* if it called before it was listed; but three snapshots without it are the end
\* of its call ("test_unknownUrgencyExpiresAndKnownClears" of
\* tests/qml/tst_hyprland_protocol.qml), as are its focus and its closing, after
\* which it is not shown as urgent (applyUrgentEvent, reconcileUrgency).
CallsAreShown ==
    Settled =>
        \A c \in Window :
            /\ /\ c \in standing /\ calls[c] > 0
               /\ desktop.at[c] \notin {None, FocusedWorkspace(desktop)}
               => c \in source.snapshot.urgent
            /\ c \in source.snapshot.urgent =>
                   calls[c] > 0 /\ desktop.at[c] # FocusedWorkspace(desktop)

WorkspacesAreTrue ==
    /\ SettledIsCurrent
    /\ ActsOnLatest
    /\ ShownCanBeActedOn
    /\ SourceGoesOn
    /\ CallsAreShown

=============================================================================
