------------------------ MODULE InspectionSessions ------------------------
(***************************************************************************)
(* The package inspections of the component manager: a client hands in a   *)
(* package file, a transient systemd unit inspects a private copy of it,   *)
(* the client is sent the review, and the first installation that names    *)
(* the token takes the copy away.  Between any two of these the client may *)
(* cancel or leave the bus, the inspection expires, the manager is killed, *)
(* and what systemd answers arrives late, in the other order or not at all.*)
(*                                                                         *)
(* The manager handles one call, signal, reply or timeout at a time.  An   *)
(* installation is one handler too, but the manager can be killed in it,   *)
(* so it has two steps.                                                    *)
(***************************************************************************)
EXTENDS Naturals, FiniteSets

CONSTANTS
    MaxToken,       \* bound: inspections in a behaviour
    Sender,         \* unique bus names
    MaxActive,      \* maximumActiveSessions
    MaxPerSender,   \* maximumSessionsPerSender
    None

\* Inspections are numbered as they begin; the code's tokens are random.
Token == 1..MaxToken

ASSUME InspectionAssumption ==
    /\ MaxToken \in Nat
    /\ MaxActive \in Nat /\ MaxPerSender \in Nat
    /\ None \notin Token

VARIABLES
    \* the manager
    up,             \* whether it runs
    sessions,       \* Private::sessions
    lease,          \* the token whose artifact an installation holds
    launcher,       \* pendingByToken
    subscription,   \* to the signals of systemd
    \* around it
    units,          \* the inspector units
    bus,            \* replies and signals of systemd on their way
    directories,    \* session directories under the spool root
    gone,           \* clients that have left the bus
    \* history
    begun,          \* tokens that have been given out
    told,           \* what PackageInspectionFinished said of a token
    ended           \* inspections that are over for their client

manager == <<sessions, lease, launcher, subscription>>
history == <<begun, told, ended>>
vars == <<up, manager, units, bus, directories, gone, history>>

Session == [owner: Sender, complete: BOOLEAN, due: BOOLEAN]
Launch == [submitted: BOOLEAN, replied: BOOLEAN]
\* An entry that is absent is not a session or a launch.
ASSUME EntryAssumption == None \notin Session \cup Launch
Message == [kind: {"reply", "job"}, token: Token, ok: BOOLEAN]

Active(current) == {t \in Token : current[t] # None}
Without(current, tokens) ==
    [t \in Token |-> IF t \in tokens THEN None ELSE current[t]]
Due == {t \in Active(sessions) : sessions[t].due}
Idle == up /\ lease = None

Failed(tokens) ==
    [t \in Token |-> IF t \in tokens THEN told[t] \cup {"failure"} ELSE told[t]]

\* Sessions that end together: those that expire are announced, the others
\* end silently.  Their launches are cancelled, their directories removed.
Close(expired, others) ==
    /\ sessions' = Without(sessions, expired \cup others)
    /\ launcher' = Without(launcher, expired \cup others)
    /\ directories' = directories \ (expired \cup others)
    /\ told' = Failed(expired)
    /\ ended' = ended \cup expired \cup others

-----------------------------------------------------------------------------
(* Calls of clients.  Each of them starts with expireNow. *)

Room(s) ==
    LET kept == Active(sessions) \ Due IN
    /\ Cardinality(kept) < MaxActive
    /\ Cardinality({u \in kept : sessions[u].owner = s}) < MaxPerSender

Begin(s) ==
    /\ Idle
    /\ s \notin gone
    /\ begun < MaxToken
    /\ Room(s)
    /\ begun' = begun + 1
    /\ LET t == begun + 1 IN
       \/ \* The package cannot be staged or the launcher refuses.
          /\ Close(Due, {})
          /\ UNCHANGED <<subscription, units>>
       \/ /\ subscription # "failed"
          /\ sessions' = [Without(sessions, Due) EXCEPT ![t] =
                 [owner |-> s, complete |-> FALSE, due |-> FALSE]]
          /\ launcher' = [Without(launcher, Due) EXCEPT ![t] =
                 [submitted |-> subscription = "ready", replied |-> FALSE]]
          /\ directories' = (directories \ Due) \cup {t}
          /\ told' = Failed(Due)
          /\ ended' = ended \cup Due
          /\ subscription' =
                 IF subscription = "none" THEN "pending" ELSE subscription
          /\ units' = IF subscription = "ready"
                      THEN [units EXCEPT ![t] = "requested"] ELSE units
    /\ UNCHANGED <<up, lease, bus, gone>>

\* Only its owner can cancel an inspection.
Cancel(t) ==
    /\ Idle
    /\ t \in Active(sessions) \ Due
    /\ Close(Due, {t})
    /\ UNCHANGED <<up, lease, subscription, units, bus, gone, begun>>

\* Faulty variant of TakeForInstall: a retry of the owner may take it again.
TakeForInstallAgain(t) ==
    /\ Idle
    /\ t \in Active(sessions) \ Due
    /\ sessions[t].complete
    /\ sessions' = Without(sessions, Due)
    /\ launcher' = Without(launcher, Due)
    /\ directories' = directories \ Due
    /\ told' = Failed(Due)
    /\ ended' = ended \cup Due \cup {t}
    /\ lease' = t
    /\ UNCHANGED <<up, subscription, units, bus, gone, begun>>

\* InstallInspectedPackage, up to the installation: the artifact leaves the
\* table with its directory, unless it was tampered with.
TakeForInstall(t) ==
    /\ Idle
    /\ t \in Active(sessions) \ Due
    /\ sessions[t].complete
    /\ \/ Close(Due, {t}) /\ UNCHANGED lease
       \/ /\ sessions' = Without(sessions, Due \cup {t})
          /\ launcher' = Without(launcher, Due \cup {t})
          /\ directories' = directories \ Due
          /\ told' = Failed(Due)
          /\ ended' = ended \cup Due \cup {t}
          /\ lease' = t
    /\ UNCHANGED <<up, subscription, units, bus, gone, begun>>

\* The artifact goes out of scope, whether the installation worked or not.
InstallReturns ==
    /\ up
    /\ lease # None
    /\ directories' = directories \ {lease}
    /\ lease' = None
    /\ UNCHANGED <<up, sessions, launcher, subscription, units, bus, gone,
                   history>>

\* nameOwnerChanged: cancelAllForSender.
Vanish(s) ==
    /\ Idle
    /\ s \notin gone
    /\ gone' = gone \cup {s}
    /\ Close({}, {t \in Active(sessions) : sessions[t].owner = s})
    /\ UNCHANGED <<up, lease, subscription, units, bus, begun>>

\* Faulty variant of TimerExpires: an inspection that completed stays.
TimerExpiresPending ==
    /\ Idle
    /\ Due # {}
    /\ Close({t \in Due : ~sessions[t].complete}, {})
    /\ UNCHANGED <<up, lease, subscription, units, bus, gone, begun>>

TimerExpires ==
    /\ Idle
    /\ Due # {}
    /\ Close(Due, {})
    /\ UNCHANGED <<up, lease, subscription, units, bus, gone, begun>>

-----------------------------------------------------------------------------
(* Completions: launcherFinished, after the launch has been forgotten *)

Fails(tokens) == Close(tokens \cup (IF tokens \cap Due = {} THEN {} ELSE Due), {})

\* An outcome that comes too late expires the inspection; the review is sent,
\* and a session whose review cannot be sent is cancelled.
Succeeds(t) ==
    IF sessions[t].due THEN Close(Due, {})
    ELSE \/ Close({t}, {})
         \/ /\ sessions' = [sessions EXCEPT ![t].complete = TRUE]
            /\ launcher' = Without(launcher, {t})
            /\ told' = [told EXCEPT ![t] = @ \cup {"review"}]
            /\ UNCHANGED <<directories, ended>>
         \/ Close(Due, {t})

Completes(t, ok) == IF ok THEN Succeeds(t) ELSE Fails({t})

Ignore == UNCHANGED <<sessions, launcher, directories, told, ended>>

\* The reply to Subscribe: the launches that waited for it are submitted, or
\* they fail, and with them every later one.
SubscribeReplies(ok) ==
    /\ Idle
    /\ subscription = "pending"
    /\ LET waiting == Active(launcher) IN
       IF ok
       THEN /\ subscription' = "ready"
            /\ launcher' = [t \in Token |->
                   IF t \in waiting THEN [launcher[t] EXCEPT !.submitted = TRUE]
                   ELSE None]
            /\ units' = [t \in Token |->
                   IF t \in waiting THEN "requested" ELSE units[t]]
            /\ UNCHANGED <<sessions, directories, told, ended>>
       ELSE /\ subscription' = "failed"
            /\ Fails(waiting)
            /\ UNCHANGED units
    /\ UNCHANGED <<up, lease, bus, gone, begun>>

\* The reply to StartTransientUnit.
StartReplies(m) ==
    /\ Idle
    /\ m \in bus /\ m.kind = "reply"
    /\ bus' = bus \ {m}
    /\ IF launcher[m.token] = None THEN Ignore
       ELSE IF m.ok
       THEN /\ launcher' = [launcher EXCEPT ![m.token].replied = TRUE]
            /\ UNCHANGED <<sessions, directories, told, ended>>
       ELSE Fails({m.token})
    /\ UNCHANGED <<up, lease, subscription, units, gone, begun>>

StartTimesOut(t) ==
    /\ Idle
    /\ launcher[t] # None
    /\ launcher[t].submitted /\ ~launcher[t].replied
    /\ Fails({t})
    /\ UNCHANGED <<up, lease, subscription, units, bus, gone, begun>>

\* Faulty variant of JobRemoved: the unit is only known by its job.
JobRemovedByJob(m) ==
    /\ Idle
    /\ m \in bus /\ m.kind = "job"
    /\ bus' = bus \ {m}
    /\ IF launcher[m.token] # None /\ launcher[m.token].replied
       THEN Completes(m.token, m.ok) ELSE Ignore
    /\ UNCHANGED <<up, lease, subscription, units, gone, begun>>

\* The unit is known by its job or, before the reply that names the job has
\* arrived, by its name.
JobRemoved(m) ==
    /\ Idle
    /\ m \in bus /\ m.kind = "job"
    /\ bus' = bus \ {m}
    /\ IF launcher[m.token] # None THEN Completes(m.token, m.ok) ELSE Ignore
    /\ UNCHANGED <<up, lease, subscription, units, gone, begun>>

-----------------------------------------------------------------------------
(* systemd, time and the process *)

Send(kind, t, ok) ==
    bus' = IF up THEN bus \cup {[kind |-> kind, token |-> t, ok |-> ok]}
           ELSE bus

UnitStarts(t) ==
    /\ units[t] = "requested"
    /\ \/ units' = [units EXCEPT ![t] = "running"] /\ Send("reply", t, TRUE)
       \/ units' = [units EXCEPT ![t] = "ended"] /\ Send("reply", t, FALSE)
    /\ UNCHANGED <<up, manager, directories, gone, history>>

UnitEnds(t) ==
    /\ units[t] = "running"
    /\ units' = [units EXCEPT ![t] = "ended"]
    /\ \E ok \in BOOLEAN : Send("job", t, ok)
    /\ UNCHANGED <<up, manager, directories, gone, history>>

TimePasses(t) ==
    /\ up
    /\ sessions[t] # None /\ ~sessions[t].due
    /\ sessions' = [sessions EXCEPT ![t].due = TRUE]
    /\ UNCHANGED <<up, lease, launcher, subscription, units, bus, directories,
                   gone, history>>

Crash ==
    /\ up
    /\ up' = FALSE
    /\ sessions' = [t \in Token |-> None]
    /\ launcher' = [t \in Token |-> None]
    /\ lease' = None
    /\ subscription' = "none"
    /\ bus' = {}
    /\ ended' = 1..begun
    /\ UNCHANGED <<units, directories, gone, begun, told>>

\* The spool lock is taken and what an earlier manager left is removed.
Start ==
    /\ ~up
    /\ up' = TRUE
    /\ directories' = {}
    /\ UNCHANGED <<manager, units, bus, gone, history>>

Init ==
    /\ up = FALSE
    /\ sessions = [t \in Token |-> None]
    /\ launcher = [t \in Token |-> None]
    /\ lease = None
    /\ subscription = "none"
    /\ units = [t \in Token |-> "none"]
    /\ bus = {}
    /\ directories = {}
    /\ gone = {}
    /\ begun = 0 /\ ended = {}
    /\ told = [t \in Token |-> {}]

Next ==
    \/ Start
    \/ \E s \in Sender : Begin(s)
    \/ \E t \in Token : Cancel(t)
    \/ \E t \in Token : TakeForInstall(t)
    \/ InstallReturns
    \/ \E s \in Sender : Vanish(s)
    \/ TimerExpires
    \/ \E ok \in BOOLEAN : SubscribeReplies(ok)
    \/ \E m \in bus : StartReplies(m)
    \/ \E t \in Token : StartTimesOut(t)
    \/ \E m \in bus : JobRemoved(m)
    \/ \E t \in Token : UnitStarts(t)
    \/ \E t \in Token : UnitEnds(t)
    \/ \E t \in Token : TimePasses(t)
    \/ Crash

\* The clock runs, the expiry timer is armed for the lifetime of the manager,
\* and an installation returns.
Fairness ==
    /\ \A t \in Token : WF_vars(TimePasses(t))
    /\ WF_vars(TimerExpires)
    /\ WF_vars(InstallReturns)

Spec == Init /\ [][Next]_vars
LiveSpec == Spec /\ Fairness

-----------------------------------------------------------------------------
(* Properties *)

\* Every variable keeps its type, and the table of sessions its limits.
TypeOK ==
    /\ up \in BOOLEAN
    /\ sessions \in [Token -> Session \cup {None}]
    /\ Cardinality(Active(sessions)) <= MaxActive
    /\ \A s \in Sender :
           Cardinality({t \in Active(sessions) : sessions[t].owner = s})
               <= MaxPerSender
    /\ lease \in Token \cup {None}
    /\ launcher \in [Token -> Launch \cup {None}]
    /\ subscription \in {"none", "pending", "ready", "failed"}
    /\ units \in [Token -> {"none", "requested", "running", "ended"}]
    /\ bus \subseteq Message
    /\ directories \subseteq Token
    /\ gone \subseteq Sender
    /\ begun \in 0..MaxToken /\ ended \subseteq 1..begun
    /\ told \in [Token -> SUBSET {"review", "failure"}]

\* The launcher waits exactly for the inspections that are still pending: no
\* completion comes for one that ended otherwise, and none is missing.
LauncherFollowsSessions ==
    \A t \in Token :
        launcher[t] # None <=> sessions[t] # None /\ ~sessions[t].complete

\* The private copies on disk are those of the inspections that can still be
\* used, and the one an installation is reading.
DirectoriesBelong ==
    up => directories = Active(sessions) \cup ({lease} \ {None})

\* Only what its owner has been sent the review of is installed, and never
\* after that owner was told of a failure.
InstalledIsReviewed == lease # None => told[lease] = {"review"}

\* A launch that is pending can still complete: its subscription, its start
\* or its unit is under way, or the answer is; in particular a unit that ends
\* before the reply to its start has arrived is not forgotten.
PendingHasACause ==
    \A t \in Active(launcher) :
        IF ~launcher[t].submitted THEN subscription = "pending"
        ELSE \/ units[t] \in {"requested", "running"}
             \/ \E m \in bus : m.token = t

\* The manager's table, the launcher's, the spool directory and what the
\* client has been told agree on every inspection, whichever of a reply, a
\* signal, an expiry, a cancellation or a crash came first.
TablesAgree ==
    /\ TypeOK
    /\ LauncherFollowsSessions
    /\ DirectoriesBelong
    /\ InstalledIsReviewed
    /\ PendingHasACause

\* Once an inspection was cancelled, installed, lost or reported as failed,
\* no late event revives it, reports it again or installs it again.
EndedStaysEnded ==
    [][\A t \in ended :
           /\ sessions'[t] = None
           /\ told'[t] = told[t]
           /\ lease' = t => lease = t]_vars

\* Every inspection ends: a copy of a package is not kept for a client that
\* neither installs nor cancels it, whatever becomes of the inspector.
InspectionsEnd ==
    \A t \in Token : sessions[t] # None ~> sessions[t] = None
=============================================================================
