# A verification development of HyprGlassShell

HyprGlassShell is a shell for Hyprland made of small D-Bus services: one owns
the compositor's configuration, one the shell's settings, one the installed
component packages, and one decides which components the bar may show. This
directory holds TLA+ models of the services' state machines, TLC
configurations that check them, and proofs that TLAPS checks. Paths below are
relative to the repository root; `src/...` there is the program's own source
directory.

- [The system](#the-system): components, state, interactions, hazards
- [The models](#the-models): what each module stands for and how
- [The runs](#the-runs): what is checked, with which bounds and fairness
- [The proofs](#the-proofs)
- [Disagreements with the documentation](#disagreements-with-the-documentation)
- [What is not modelled](#what-is-not-modelled)
- [Plan](#plan)

## The system

Six processes share one session bus. Each is single-threaded: a Qt event loop
runs one handler at a time, and concurrency comes from other processes, from
replies and signals that are under way, from timers, and from crashes.

| Process | Keeps | Is asked to |
| --- | --- | --- |
| `compositord` | four state files, immutable generations, `hyprland.lua`, a live-activation bridge | replace, apply, recover, adopt, preview displays |
| `configd` | shell settings, component configuration, a night-light daemon | set properties, replace the configuration |
| `componentd` | installed packages, receipts, inspection sessions | inspect, install, remove, list |
| `hyprshelld` (coordinator) | unit states, a runtime-health record, the surface plan | restart units, authorize and report activations |
| `surfaced` | what the bar shows | (client of the above) |
| `settings` | edits in progress | (client of the above) |

### Components

**Configuration transaction** (`src/compositord/transaction.cpp`).
State: the parsed Desired, Activation, LastGood and Pending files with
`desired`, `applied`, `pending`, `failed`, `desiredSemanticallyMatchesApplied`.
Operations: `initialize` (reconcile a journal, load), `replaceSnapshot`,
`prepareApply`, `prepareRecovery`, `prepareDisplayApply`, `commitApply`,
`abortApply`. It writes through the store and publishes generations. Hard: any
write may fail before or after it became visible; a crash or a power loss may
fall between any two writes; the catalog may have been upgraded by the next
start. Correct when: a revision a client saw is never reused; a transaction its
caller was told is rolled back is never applied; a durable decision is never
lost; every namespace a crash may leave can be started from.

**Persistent store** (`src/compositord/store.cpp`). State: one directory.
Operations: `read`, `write` (temporary file, rename, directory sync), `remove`
(unlink, directory sync). Hard: a rename that is visible but not durable.

**Managed activation** (`src/compositord/entrypoint_publisher.cpp`,
`activation_backend.cpp`, `CompositorService::completePrepared`). State: the
entrypoint `hyprland.lua`, its ownership record, the displaced or staged file,
and the bridge (the live-activation journal). Operations: publish, prove,
commit, finalize; roll back, prove, abort; reconcile at startup. It drives the
transaction and Hyprland. Hard: a second journal next to the transaction's; the
user edits the same file; Hyprland may reload at any moment; two directories
with separate syncs. Correct when: no file of the user is lost; Hyprland never
stays with a loader that was never committed; a decision is never taken back.

**Hyprland IPC runtime** (`src/compositord/hyprland_ipc_runtime.cpp`). State: one
session, which pins a Hyprland by its instance directory, lock, event stream and
process. Operations: prepare (a first reload and what errors there are), prove (a second
reload, after the entrypoint was exchanged). Hard: a reload that is acknowledged but
not done, others that Hyprland does by itself, a Hyprland that is replaced by another
behind the same path. Correct when: what is proved is what Hyprland loaded.

**Display confirmation** (`src/compositord/compositor_service.cpp`). State: the
capability `displayConfirmation_`, its state, a timer, an owner watch, and the
last outcome. Operations: preview, confirm, revert, deadline, owner loss, poll,
ordinary apply, restart. Hard: handlers with blocking calls that a deadline or
an owner's loss overtakes; rollback and journal abort that fail separately.
Correct when: keeping and taking back exclude each other, an answered outcome
stays true, an unattended preview ends.

**Component plan runtime** (`src/coordinator/components/`). State: the plan and
its state, the snapshots it was built from, the health record (safe mode,
quarantine, pending activations) in two files, two timers. Operations: a chain
of asynchronous fetches; authorize, cancel, stable, failed, retry; probation
expiry; start. Hard: superseded replies, sources that leave the bus, a commit
that fails in the middle of a handler, a package that takes the shell or the
coordinator down. Correct when: only admissible third-party packages are shown,
an activation that was going on at a crash is remembered, and the plan follows
its sources.

**Unit coordinator** (`src/coordinator/`). State: a snapshot of systemd unit
states. Operations: restart, follow unit changes. Hard: replies older than a
change (`changeSerial_`), delayed replies to restart calls.

**Package store and inspection** (`src/componentd/`). State: package trees,
receipts, trash; sessions with a child process, a lease and an expiry.
Operations: inspect, cancel, install (one lease), remove, recover. Hard: several
renames with compensation that may fail too; a crash between them; an owner that
leaves during a lease.

**Settings store and service, component configuration** (`src/configd/`). State:
two stores, each an active and a recovery file with a revision; the settings of
the workspace switcher move from one to the other. Operations: setters,
replacement, load, migration, retirement. Hard: two or three writes per change and
no directory sync; a move between two services that both accept changes meanwhile.
Correct when: what a client was told is what the next start serves; the moved
settings are always in one of the stores; files of a later release stay as they are.

**Night light** (`src/configd/hyprsunset_controller.cpp`, `config_service.cpp`).
State: eight states, three child processes, seven timers, a desired and a command
generation. Operations: enable, set temperature, every process and timer event.
Hard: every change of state re-enters `reconcileRuntime`, which calls the
controller back; an event of a command that was superseded; enabling while
stopping. Correct when: the filter the user is told of is the one on the screen.

**Shared visual preferences** (`src/compositord/shared_*`). State: the policy of
configd as last heard, the outcome of the last reconciliation of each group.
Operations: owner changes and signals of configd, reconciliation after each of
the service's own calls, retries. Hard: replies older than signals; a value the
service may apply by itself next to edits of the user that it may not.

**Clients** (`src/qml/HyprShelld/Client/`, `src/configd/component_catalog_client.cpp`,
`src/surfaced/`). State: the owner of the service, a refresh generation, the last
snapshot, a mutation under way. Operations: refresh, mutate, follow signals; save
a configuration in a chain of calls; inspect, review and install a package;
authorize a plan and report activations. Hard: replies of a previous owner or of
an earlier refresh, calls that time out and are executed late, a catalog that
changes between the calls it is read with, plans that change away and back.

**Workspace source of the bar** (`src/surfaced/HyprlandWorkspaceSource.qml`). State:
an event stream, a cycle of four requests, a snapshot, four timers. Operations:
events, answers, timers, the user's clicks. Hard: nothing orders the events and
the answers, and the desktop changes between any two requests.

**Readers of records** (`src/compositord/reachable_v1_preflight.cpp`,
`settled_v2_*.cpp`, `startup_reducer.cpp`, `dormant_*_capture.cpp`). Libraries of a
later record format that the daemon does not call yet: captures of files that
others may change meanwhile, and pure functions that classify what was captured.
Correct when: a capture that succeeds was all there at one instant, and what the
journal's own protocol leaves at a crash is understood and resolved as the daemon
would resolve it.

**The configuration document** (`src/hyprland/`, `compositor_snapshot_editor.cpp`,
`activation_requirement.cpp`, `renderer.cpp`). State: overrides of options and twelve
surfaces of records; in Hyprland, what a generation has set. Operations: the editor's
twelve, acceptance, the requirement of a change, rendering. Hard: records refer to each
other across surfaces and to what the program ships; an option's default may be another
option; what an older release wrote must survive an edit; Hyprland keeps things over a
reload and some only take effect at its start. Correct when: an edit does what was
asked and no more, and what Hyprland does is what the document says.

**Pure parts.** Grammar, digests, solar arithmetic.

The hazards of this code, each at its line and with the properties that watch
it, are listed under `hazards` in `PROJECT.json`.

## The models

| Module | Models | Extends |
| --- | --- | --- |
| `PersistentStore` | store.cpp | |
| `ConfigurationTransaction` | transaction.cpp | `PersistentStore`, instance of `RevisionedAuthority` |
| `RevisionedAuthority` | what the transaction promises | |
| `ManagedActivation` | publisher, its two directories, backend, completePrepared | |
| `DisplayConfirmation` | the display transaction of the service | |
| `ComponentPlanController` | component_plan_controller.cpp, component_runtime_health_store.cpp | |
| `ComponentPlanRuntime` | component_plan_hydrator.cpp and its sources | `ComponentPlanController` |
| `PackageCatalog` | what the package store promises | |
| `UserPackageStore` | user_package_store.cpp and the manager's calls of it | instance of `PackageCatalog` |
| `InspectionSessions` | component_inspection_sessions.cpp, component_inspector_launcher.cpp | |
| `GenerationStore` | generation.cpp | |
| `HyprlandRuntime` | hyprland_ipc_runtime.cpp, its caller in activation_backend.cpp, Hyprland itself | |
| `ConfigurationDocument` | desired_state.cpp, compositor_snapshot_editor.cpp, activation_requirement.cpp, renderer.cpp, default_keybindings.cpp | |
| `SettingsStores` | config_store.cpp, config_service.cpp, component_store.cpp, component_config_service.cpp | |
| `NightLight` | hyprsunset_controller.cpp, reconcileRuntime of config_service.cpp | |
| `SharedVisual` | shared_visual_source.cpp, the reconcilers, reconcileSharedVisual of compositor_service.cpp | |
| `CompositorClient` | compositor_client.cpp and the service it talks to | |
| `ComponentRuntimeClient` | component_runtime_client.cpp, shell.qml, the bars, component_runtime_service.cpp | |
| `ConfigClient` | config_client.cpp and its service | |
| `CatalogReads` | how the two below read a catalog | |
| `ComponentManagerClient` | component_manager_client.cpp, the review dialog and the manager | `CatalogReads` |
| `ComponentCatalogClient` | component_catalog_client.cpp of configd and the manager | `CatalogReads` |
| `ComponentConfigClient` | component_config_client.cpp, the components page and the service | |
| `UnitHealth` | the unit coordinator, coordinator_client.cpp, shell_runtime_status.cpp, the notice of shell.qml | |
| `WorkspaceSource` | HyprlandWorkspaceSource.qml and its protocol, sockets and projection | |
| `ObservedTree` | the file system calls of the captures, and others who write | |
| `FixedRecordCapture`, `GenerationTreeCapture`, `ReachableV1Capture` | the three captures | `ObservedTree` |
| `ReachableV1Preflight` | reachable_v1_preflight.cpp, a pure function | |
| `SettledV2Startup` | settled_v2_*.cpp, startup_reducer.cpp, authority_cas_reducer.cpp, pure functions | |
| `TransactionPreflight` | both of these on the states of the transaction | `ConfigurationTransaction` |
| `SessionParts`, `ServiceParts`, `ShellParts` | parts that share nothing, side by side | instances of the parts |
| `MC...` | instances of the above for TLC | |
| `..._proofs` | theorems | the module they are about |

A module of *parts* starts in one of several subjects: in a behaviour the subject
runs as its own specification says and the other parts rest where they start. It
joins no behaviours of two parts; it lets one run check modules that share
nothing, each with its own bounds.

Some modules define an operator commented *Faulty variant*, just before the
operator it spoils. No specification uses them. Each is a plausible slip in the
code, and under `mutants` `PROJECT.json` names for every property one with which
TLC finds it violated.

### Storage

`PersistentStore` keeps two views of a directory: `disk`, what a reader sees,
and `survivors`, the namespaces a power loss may leave. A write that succeeds
leaves one survivor, one that was published and whose directory sync failed adds
its namespace to the survivors, one that failed earlier changes nothing; these
are the three results of `StoreOperationResult`. A power loss picks a survivor. A
process crash keeps `disk`, and the next start syncs the directory before it
reads (`initialize`). `ManagedActivation` does the same for the configuration
and the managed directory together: a sync of one of them says nothing about an
operation that touched only the other. A rename across both directories is
atomic and is flushed by the sync of either; the temporary of a metadata write
is part of the write; the user's editor syncs its edit.

### ConfigurationTransaction

`process` is where the authority's thread stands; every store operation of
`initialize` and `commitApply` is a step of its own, and the other calls, which
have one store operation each, are one step. A snapshot is a revision, a content
and the catalog it was written for; it stands for its own bytes and digest.
Content is a small set with members this release can only preserve and members
managed activation refuses. `told`, `revoked`, `decided` and `submitted` are
history: what was shown to clients, which transactions their caller was told are
rolled back, which decisions became durable, and the last replacement.
`CatalogUpgrade` happens while the service is down. `Damage` replaces a file or
a generation from outside, at most `MaxDamage` times.

The executor that calls `commitApply` and `abortApply` is assumed to use them as
completePrepared does: it does not commit a transaction it was told is rolled
back. `ManagedActivation` models that executor.

`RevisionedAuthority` is the promise: one desired snapshot, one applied
transaction, at most one prepared one, every change atomic, and a power loss
that takes back at most changes nobody was told of. The run `transaction_faults`
shows that the journalled protocol implements it under the mapping in
`ConfigurationTransaction`: a journal that is committing counts as applied
already.

### ManagedActivation

`process` names the next operation of a request:

    ready - prepared - publishing - staging - staged - probing - exchanging
          - verifying (- restoring) - syncing - reloading - proving - committing
          - finalizing - displaced - retiring - ready

    rollback - switching - switched - reloadingPrior - provingPrior
             - discarding - retiringPrior - aborting - ready

`down` and `reconciling` are startup. `unreconciled` is the state of
`acceptUnreconciled`, which only a restart leaves. The transaction is reduced to
what is committed, what is pending and in which phase; `maybe` is a decision whose
write was published and not synced. Files are told apart as the code does,
by identity as well as content: a loader carries its transition, a user file the
edit that wrote it. Hyprland loads the entrypoint whenever it likes.

### DisplayConfirmation

A handler is a sequence of steps (`step`) because it makes blocking calls during
which the deadline may pass, the owner may leave and monitors may be unplugged;
no other handler runs in between, since neither the owner query
(`QDBus::Block`) nor the compositor's socket (`poll`) re-enters the event loop.
The authority's and the backend's calls have the outcomes their own models
allow. `deadline` is a flag that time sets. After a failed journal abort the
authority refuses everything until a restart (`authorityFailed`). `ownerLost` is
a bus signal still to be delivered, once.

### The component plan runtime

A package stands for its digest and has one instance. A handler that commits
the health record and then publishes a plan is two steps (`rest`), because the
second may commit again and the coordinator may be killed between the two;
nothing else happens in the coordinator meanwhile (`idle`). `Commit` covers
`commitHealth` with a durable outcome, including a mirror that was not written;
`CommitFails` is its failure and enters safe mode. A plan is a join (catalog,
configuration revision) and the packages shown; the constant `Desired` says
which packages each join asks for. A plan's revision is derived from
its content, so a call that names a plan names its content.

The hydrator's chain is one call record with a stage; the individual fetches of
`GetComponent` and `GetDeclarativeRuntime` name the catalog digest they expect
and are one stage with `ListComponents`. `++generation_` marks the calls under way
superseded and their replies are `Dropped`. The two sources leave and return
together. `activating`, `interrupted` and `barred` are history: activations the
shell was authorized for, those a crash interrupted, and quarantined packages
nobody has retried.

### HyprlandRuntime

Each Hyprland is a record: whether it runs, whether its instance directory is there,
how it was started (`kind`), the configuration it has `loaded`, the load it is in the
middle of (`loading`) and the reload it was `asked` for. Hyprland is external and has
one thread, so it answers no request during a load; its "ok" says only that it took
the request, and the load follows, perhaps after another that was due. `stream` is
the event connection of the pinned one. `runtime` is where the session stands:

    idle - resolving - pinned - drained - sent - waiting - reloaded - errors
         - provider - prepared             (the baseline of the session)
         - drained - ... - proved - verified    (after Publish or Restore)

and `Fail` leaves it at any step for a rollback in a session of its own, or for the
end. The four modes differ in what a reload must show: a managed reload and its
rollback are plain reloads, an adoption and its rollback reset everything, since only
that makes Hyprland change between `hyprland.conf` and `hyprland.lua`. The instance is
identified again at every request (`Identified`); an instance directory may outlive
its Hyprland. `ManagedActivation` takes the outcomes of these sessions as given.

### ConfigurationDocument

What the configuration says, as opposed to how it is stored and activated. A document
is a function from the sections of the file to their records, and to the overrides of
the options. Of the catalog's 353 options there are ten, one for each thing a decision
is made by: a default of another option (two, in a chain), a restart, the glow that may
not be narrow, and one of every page of Settings. A record has the fields by which
records refer to each other; the rest of its grammar is one flag, `ok`. `Accepted` is
`parseDesiredState`, conjunct by conjunct in its order; `Edited` and `Editable` are the
editor; `Requirement` is `activationRequirementForDelta`; `BindStatements`,
`CurveStatements` and `AnimationCurve` say what the renderer's Lua makes of the records.
Around these functions are the client's copy, its edit on the way, other writers, and
Hyprland with what it keeps over a reload: `curves`, and `started`, the document it
started under. That `applied` changes in one step, and a failed apply loads what was
there before, is `ManagedActivation`'s and `HyprlandRuntime`'s.

### UserPackageStore

A package is an id, a version and a digest that stands for its bytes; its
dependencies are the constant `Needs`. The disk is a receipt per component and a
tree per version. `step` names the next operation of a request:

    idle - admitting - publishing - repairing - committing - pruning
         - accepting - idle        (- unpublishing - reinstating - failed)
    idle - retiring - emptying - accepting - idle     (- restoring - failed)

Every rename, receipt write and recursive deletion is a step that succeeds,
fails, or is cut off by `Crash`; a deletion may leave part of a tree. `loaded` is
what `load()` returned at the start of the request, from which the code computes
the entries it hands to `acceptUserCatalog` (`Entries`). The staging and trash
directories are emptied before anything is read and are left out, except for the
tree and the receipt a request may have to put back (`retired`, `request`).
`Damage` edits the store between requests, in the
specification `DamagedSpec` only. Putting a retired receipt
back is not checked by the code (`user_package_store.cpp:1408`); `UndoMayFail` lets
it fail.

`PackageCatalog` is the promise: a map from component to package that each request
changes in one component and one step, before its answer. The refinement maps the
installed package to what `load()` finds.

### InspectionSessions

`sessions` is the table of the manager and `launcher` that of the object that talks
to systemd; both are keyed by the token. What systemd answers is a set (`bus`), so
the reply to `StartTransientUnit` and the signal `JobRemoved` arrive in any order and
as late as they like; a crash empties it, since the name on the bus is gone. Most
handlers begin with `expireNow`, and so do the actions: `Due` are the sessions
whose time has passed, and `Close` ends several sessions at once. `told` and `ended`
are history: what the client was sent, and which inspections are over for it. The
installation itself is `UserPackageStore`'s; here it is the lease between
`TakeForInstall` and `InstallReturns`, in which only a crash can intervene, because
`InstallInspectedPackage` is one handler. A call that is refused (foreign owner,
wrong digest, not complete) does what its `expireNow` does and is covered by
`TimerExpires`.

### GenerationStore

`publish` and `initialize` of `generation.cpp`, one file system call per step, where
`ConfigurationTransaction` takes a publication for one step. `trees` is the disk and
`survivors` what a power loss may leave, per file of a tree whether its contents
are whole. A nonce is random and published at most once; the retry of the same
nonce after a failed sync, which would succeed without syncing, is therefore no
behaviour. The check before `user-custom.lua` is unlinked and the unlink are one
step: the race with another process of the same user is excluded by
`interfaces/dbus/README.md:250-258`.

### SettingsStores

The two stores of configd and the move of the workspace switcher's settings from
one to the other. A handler that writes is a `job`: the list of writes still to be
made, of which any may fail and after any of which the process may be killed;
mirrors that the code only warns about are optional writes. Files come damaged,
unreadable or written by a later release in the initial states; what becomes
unreadable while the services run is an outage. What a power loss takes back of
these files is not modelled: the stores sync no directory, and promise nothing of
it. If the recovery copy is damaged from outside between the first two writes of a
move, the legacy settings are gone by design.

### NightLight

Operators on the record `night` are the functions of the controller, and the
parameter `Emit` is what a signal does: `Reconcile` in a handler the event loop
calls, `PostReconcile` inside a reconciliation. So a handler that changes the
state re-enters the service in the middle, as in the code, and reads its members
again afterwards. `filter` is what the daemon shows; a temperature it was sent
reaches it before hyprctl ends, and a superseded hyprctl may still do so. A daemon
that dies with configd (`PR_SET_PDEATHSIG`) takes the filter along. A daemon of
somebody else is an outcome of the probe. Left out: `retry()`, options that are
invalid, the shutdown, and signals that change only the error text.

### SharedVisual

configd's border and gap preferences on their way into the compositor's
configuration. `line` is what is under way on the bus, in order; a reply to
`GetAll` may be older than a signal before it. The authority's calls have the
outcomes `ConfigurationTransaction` gives them. `saved` and `unasked` are history: an
edit the user stored and did not apply, and whether the reconciliation applied it.
After synchronization is switched off and a retry forced, a border value stored
under the policy before is applied too. Left out: Recover and Adopt, failures of
the catalog, entrypoints that are not managed.

### CompositorClient

The settings application and the service on one connection: calls, replies and
signals keep their order, and a call the client gave up is still executed. The
generations of the client are kept as what is compared of them: an answer is
awaited or it is not. A save is the chain the code makes (replace, read back,
apply), whose every answer may be late or lost, and while another program or a
restart of the service changes the configuration in between. Any read of a refresh may
end with an error or without an answer (`ReadFails`), which ends that part of the
refresh; `unread` is history and says that it happened. The user may ask for a refresh
(`RefreshAsked`). Left out: input devices, the retry calls of the shared groups, and
the projection of properties. A retry that is refused because the authority has
withdrawn meanwhile reports a refusal although the first attempt was stored; the
property allows that (`StillServes`).

### The component clients

`ComponentRuntimeClient` is the bar: plans with content-derived revisions, the
client's authorization of a plan and its reports, and the loaders in `shell.qml`
that build, stabilize and tear down. `ComponentManagerClient`,
`ComponentCatalogClient` and `ComponentConfigClient` read a catalog in several calls
that name its digest (`CatalogReads`), while it changes; the first inspects, reviews
and installs a package, the last replaces a configuration against the revision and
digest it was read with. `ConfigClient` is the client of the shell's settings.

Timeouts are bounded and appear in the models, but the convergence parts of the
properties are conditional on none having happened: a client that gave a call up
shows what it had until the next signal. Other conditions, all of the code:
configd with lost files starts at revision 0, and a client that has seen more stays
unavailable until that is passed (`tests/config_client_test.cpp:450-451` wants it
so); an inspection cancelled during an installation would leave the client busy,
but the dialog disables its button then (`ComponentReviewDialog.qml:301-302`).

### UnitHealth and WorkspaceSource

`UnitHealth` follows a unit's failure through four first-in first-out lines: systemd,
the coordinator's manager and policy, the client, the notice on a screen. The
object paths of units change once, from unknown to known.

`WorkspaceSource` has Hyprland's desktop, the event stream and the four requests of
a snapshot on sockets of their own: nothing orders an event and an answer, except
that Hyprland accepts the event connection before it answers a later request and
announces each change. The counter of events is kept as the two comparisons made
of it. `calls` and `standing` are history: the windows that called, each with the
snapshots it may still be missing from, and those to which nothing has happened since.
Left out: special workspaces, windows that are not mapped, names, lines that
are invalid or too long, changes of the sockets' paths.

### Records of version 2

`ObservedTree` is a file system in which others write between any two calls of a
capture. Each change has a change time of its own; where the file system gives two
the same, the captures promise nothing
(`dormant_v2_generation_tree_capture.h`). The three captures are the code's loops,
one `openat`, `read` or `fstat` per step; the walk along a path in
`ReachableV1Capture` is one step, since it looks at the whole chain again before it
ends. What each returns is compared with what was on disk between its passes.

`ReachableV1Preflight` and `SettledV2Startup` are pure functions as operators, and
their reference is the transaction itself: `TransactionPreflight` translates each
namespace that a crash may leave to the input of both and compares their answer
with what the next start of version 1 does, and `ManagedActivation` does so at its
end for the bridge and the entrypoint. Namespaces in which the catalog was upgraded between
two documents are refused by design
(`tests/compositor_reachable_v1_preflight_test.cpp:1725-1792`), so what is asked of the
preflight is conditional on one lineage (`OfOneLineage`). Which check failed, byte
limits and the canonical form are left out.


## The runs

| Run | Configuration | Bounds | Distinct states |
| --- | --- | --- | --- |
| `transaction_faults` | `ConfigurationTransaction.cfg` | 4 contents, 3 revisions, 2 transactions | 63 k |
| `transaction_damage` | `ConfigurationTransactionDamage.cfg` | the same with 2 revisions, 1 damage | 167 k |
| `generation_staging` | `GenerationStaging.cfg` | 1 publication, 1 fault | (violation) |
| `component_plan_retry` | `ComponentPlanRetry.cfg` | 1 package, 1 outage | (violation) |
| `component_plan_hydration` | `ComponentPlanHydration.cfg` | 1 package, 2 health revisions, 1 catalog change, 1 configuration change, 1 outage, 1 superseded call | 550 k |
| `package_faults` | `UserPackageStore.cfg` | 3 components, 5 packages, room for 2 | 21 k |
| `inspections` | `InspectionSessions.cfg` | 3 inspections, 2 clients, 2 at a time | 506 k |
| `night_light` | `NightLight.cfg` | 3 temperatures, 2 attempts each, 2 changes | |
| `session_parts` | `SessionParts.cfg` | *display*: 3 generations; *client*: 2 operations or refreshes, 2 disturbances or reads that fail | 419 k |
| `service_parts` | `ServiceParts.cfg` | see below | 2.37 M |
| `shell_parts` | `ShellParts.cfg` | see below | 1.97 M |
| `workspace_calls` | `WorkspaceCalls.cfg` | the workspaces of `shell_parts` alone: 2 monitors, 3 workspaces, 2 windows, 4 calls or changes, 1 of them a change, 1 disruption | 5.26 M |

`service_parts` has the subjects *activation* (3 transitions, 2 edits; 14 k), *settings*
(revision 3, 1 outage; 277 k), *visual* (2 turns; 159 k), *captures* (2 mutations;
441 k), *generations* (2 publications, 3 faults; 59 k), *reloads* (2 Hyprlands, 3
disruptions: starts, stops, reloads by itself and edits; 410 k), *document* (3 initial
documents, 7 topics of edits, 2 documents stored; 161 k) and *store* (`DamagedSpec` of the
package store, room for 2 receipts; 818 k). `shell_parts` has *bars* (1 package, 4 health revisions, 3
events, 2 screens, 1 timeout), *components*, *packages*, *catalogs*, *settings* (a
change asked for, other writers' events and a timeout each), *health* (2 units, 1
screen, 2 changes) and *workspaces* (2 monitors, 3 workspaces, 2 windows, 2 changes or
calls, 1 disruption).

What they show:

- **Transaction.** Under every interleaving of calls, failing writes, crashes and
  power losses: `ShownRevisionNeverReused`, `DecidedNeverLost`,
  `ServedStateIsDurable`, `RetryNeverStale`, the refinement `ImplementsAuthority` and
  the liveness property `DecisionReachesService`; and `CrashStatesUnderstood`: each
  namespace a crash may leave can be started from, and the migration's readers of
  version 1 and version 2 records resolve it as the start does. With damage the
  service may refuse to start; what must survive damage is a run of its own,
  `RevokedNeverApplied` and `DecisionRetiredOnlyWhenMirrored`, which covers the
  undamaged behaviours too.
- **Activation and generations** (`service_parts`). `UserFilesPreserved`, with an
  editor at work between any two steps; `CrashesSettle` (the journals can always be
  reconciled, a service that is ready has nothing left to settle, Hyprland does not
  stay with an uncommitted loader, the preflight agrees; a published generation
  stays whole); `DecisionNeverRolledBack`. An adoption that finds no `hyprland.lua` is
  a second initial state, without an editor (`NextWhereKept`). A start syncs the
  configuration and the managed directory when it opens them, before it reconciles, or
  does not come up (`Initialize`; `store.cpp:137`, `443-461`): an unlink that a crash
  left unsynced is durable before the resumed rollback retires the bridge.
- **Settings** (`service_parts`). `SettingsHold`. That files of a later release stay as
  they are (`FutureFilesKept`) is not a question of a run: it is proved, below.
- **Shared preferences** (`service_parts`). `SettingsHold`, which has
  `SharedVisualHolds` in it: only shared values are applied without the user, and the
  state that is shown of them is true.
- **Reloads** (`service_parts`). `ReloadsAreProven`: when the backend has its proof and
  finds the entrypoint as it was published, the pinned Hyprland has loaded that file
  in this session, without new errors and with the right provider, and nothing else
  since; whatever else was loaded before or by itself, and whoever else was started.
- **The document** (`service_parts`). `SettingsHold`, which has `DocumentHolds` in it:
  mirrors and resets of submaps lead in no circle; every gesture that is registered can
  be reached; each key does one thing, what is enabled is bound and what the user left
  alone is bound as shipped; what only a start of Hyprland changes is as it started; its
  curves are those it would have, had it started with this document. And
  `OnlyTheRequestedChanges`: an edit that is stored gives the options asked for the
  values asked for, also where one is the default of another, and leaves the rest.
- **The captures** (`service_parts`). `CapturesAreOfOneInstant`.
- **Packages.** `ReceiptHasItsTree` at every point at which the manager may be
  killed, `ServedIsStored` (what is served is what a restart would serve, so no
  package is stored beyond the room in the catalog, which would hide all of them) and
  the refinement `ImplementsPackageCatalog`. With damage (`service_parts`):
  `AcceptedIsStored` and `OnlyTheRequestedChanges`.
- **Inspections.** `TablesAgree` (the manager's table, the launcher's, the spool
  directory and what the client was told; a unit that ends before the reply to its
  start is not forgotten), `EndedStaysEnded` and the liveness property `InspectionsEnd`.
- **Component plan.** `ShownIsAdmissible`, `InterruptedNeverForgotten`,
  `QuarantineHolds`, `AcceptedJoinIsCurrent` and the liveness property
  `PlanFollowsServices`.
- **The bar and the clients** (`shell_parts`). `BarsFollowThePlan`, `BarIsTrue`,
  `ClientsHold`.
- **Calls for attention** (`workspace_calls`). `CallsAreShown`: a window that called is
  urgent once it is listed, until it is looked at or closed, or three snapshots did
  not list it, which ends its call; and no other window is urgent. Its bounds let a
  window call, be missed by three snapshots and then be opened, while another calls;
  in `shell_parts`, where it is a part of `BarIsTrue`, the desktop changes more and
  fewer windows call.
- **Display and the compositor's client** (`session_parts`). `PreviewIsSafe` and the
  liveness property `PreviewEnds`; `ToldIsTrue` (what the user was told of a save),
  `ActsOnWhatWasShown` and the liveness property `ClientConverges`: a client that is
  left alone comes to rest with what the service has, unless a read of its latest
  refresh failed. Such a client says so (it is not available, or it shows what is stored
  without the catalogs or displays it could not read) until the user asks again, as the
  code does not (`compositor_client.cpp:1064-1077`, `1816-1835`).
- **Night light.** `ToldIsShown`, `FilterTakenOffFirst` and the liveness property
  `NightLightSettles`.

Each module has one type invariant, `TypeOK`; where a run's invariant includes it or a
theorem states it, no run lists it again.

Why the bounds are enough. Two transactions let a journal of an earlier
transaction meet a later one, and a third revision lets a recovery follow a
replacement of an applied state; the last revision is `numeric_limits::max()`, so
its refusals happen too. Three transitions of an activation are an adoption, an
update of what it adopted and an update of an update, which use the two different
swap names; two edits hit one transition twice. Three display generations are a
preview after a preview and an apply that sees what they left. Two health
revisions are an authorization and the quarantine a restart makes of it; one
catalog change makes the configuration's validation stale, and one superseded call is
a late reply. That one package and these numbers are enough is not left to TLC: the
plan's safety properties are theorems for every value of them. The packages are two releases of one component, one of
them also with other bytes, one that depends on it and one that exceeds the room:
an upgrade, a downgrade, a rebuilt version, a refused removal and a full catalog.
Three inspections with two at a time let a later one start while events of an
earlier one are still under way. Three temperatures are one near another and one
far from it, so that a gradual change waits, and two changes let the wish change
back while a command for the first is under way. Two mutations of a captured tree
are a change and its undoing between two looks. Larger instances that pass and are
no runs: 5 disruptions of the reloads (5.7 M), 3 captured files in a generation (505 k), a client's change asked twice with 3
events (3.3 M), 3 catalogs (2.9 M), 2 archives (2.3 M), 3 changes of units (1.59 M), 3
turns of the shared preferences (2.1 M).

Deadlock is checked except where a bound leaves a settled system nothing to do:
`CHECK_DEADLOCK FALSE` is in the configurations of the parts and of the activation.

Fairness. `ConfigurationTransaction!LiveSpec` assumes that the service proceeds
and that crashes, failures and damage stop: `Restart=always` in
`data/systemd/hyprshelld-compositord.service.in:14` starts it again, also after a
failed initialization. `SessionParts!LiveSpec` assumes, for the display, that a handler
runs to its end, that time passes and that Qt fires an expired timer; not that anybody
confirms, reverts or leaves; and for the client that it and the service handle what
they were sent, as long as the read does not fail, and that the service is restarted; not
that anybody asks for a refresh. `ComponentPlanRuntime!LiveSpec`
assumes the same of signals and timers, that a handler finishes what it has begun
(`FinishesHandler`), that the coordinator is restarted and some
time stays up, that the sources return and configd validates against a new catalog,
and strong fairness of each stage's answer: a call that is made again and again is
not refused for ever (an answer that finds the health record exhausted counts). Without the last, a retry that always fails is a behaviour of
the code. `InspectionSessions!LiveSpec` assumes that the clock runs, that the expiry
timer fires (it is armed for the lifetime of the manager, and handlers are short) and
that an installation returns; nothing of systemd or of the client.
`NightLight!LiveSpec` assumes that timers fire, posted calls run, a killed process ends
and a daemon that was started starts or fails; not that hyprctl or a probe ever answers.

`PlanFollowsServices` excludes safe mode: a commit that fails enters it, and with
storage that keeps failing every retry publishes the plan, fails to record its
probation and is retried, so the plan's state alternates.

## The proofs

Eight modules hold theorems, each about the module it extends. `THEOREM`s listed
in `PROJECT.json` are the results; the `LEMMA`s are what they rest on.

| Theorem | States | Hypothesis |
| --- | --- | --- |
| `TypeCorrect` (transaction) | `Spec => []TypeOK` | |
| `RevocationSafe` | `Spec => []RevokedNeverApplied` | |
| `DecisionRetirement` | `Spec => DecisionRetiredOnlyWhenMirrored` | |
| `ServedIsDurable` | `Spec => [](damage = 0 => ServedStateIsDurable)` | no damage so far |
| `CrashesRecoverable` | the same of `CrashStatesRecoverable` | no damage so far |
| `RevisionsNeverReused` | the same of `ShownRevisionNeverReused` | no damage so far |
| `DecisionsNeverLost` | the same of `DecidedNeverLost` | no damage so far |
| `RetriesNeverStale` | the same of `RetryNeverStale` | no damage so far |
| `AuthorityImplemented` | `Spec => ImplementsAuthority` | `MaxDamage = 0` |
| `CrashStatesRecognized` | the same of `CrashStatesUnderstood` | no damage so far |
| `TypeCorrect` (plan) | `Spec => []TypeOK` | |
| `ShownAlwaysAdmissible` | `Spec => []ShownIsAdmissible` | |
| `InterruptedRemembered` | `Spec => []InterruptedNeverForgotten` | |
| `QuarantinesHold` | `Spec => []QuarantineHolds` | |
| `AcceptedJoinCurrent` | `Spec => AcceptedJoinIsCurrent` | |
| `TypeCorrect` (packages) | `Spec => []TypeOK` | |
| `ReceiptsAreBacked` | `Spec => []ReceiptHasItsTree` | |
| `ServedIsAlwaysStored` | `Spec => []ServedIsStored` | `~UndoMayFail` |
| `CatalogImplemented` | `Spec => ImplementsPackageCatalog` | `~UndoMayFail` |
| `OthersAreLeftAlone` | `DamagedSpec => OnlyTheRequestedChanges` | |
| `AcceptedIsAlwaysStored` | `DamagedSpec => []AcceptedIsStored` | |
| `TablesAlwaysAgree` | `Spec => []TablesAgree` | |
| `OverStaysOver` | `Spec => EndedStaysEnded` | |
| `PreviewAlwaysSafe` | `LiveSpec => []PreviewIsSafe` (`SessionParts`) | |
| `ToldAlwaysTrue` | `LiveSpec => []ToldIsTrue` (`SessionParts`) | |
| `ActsOnlyOnWhatWasShown` | `LiveSpec => ActsOnWhatWasShown` (`SessionParts`) | |
| `ReloadsAlwaysProven` | `Spec => []ReloadsAreProven` (`ServiceParts`) | |
| `FutureFilesAlwaysKept` | `Spec => FutureFilesKept` (`ServiceParts`; no run checks it) | |
| `UserFilesAlwaysPreserved` | `Spec => []UserFilesPreserved` (`ServiceParts`) | `~MayRemove` |
| `DecisionNeverTakenBack` | `Spec => DecisionNeverRolledBack` (`ServiceParts`) | |

The hypotheses are about faults and nothing else: every crash, power loss and
failing operation is covered by all of them. Damage is a file of the store replaced from
outside, after which the service is expected to refuse; that the first two transaction
invariants and `DecisionRetirement` need no such hypothesis is their point. With
`UndoMayFail` the code's one unchecked compensation (`user_package_store.cpp:1408`)
makes `ServedIsStored` false. With `MayRemove` the user may delete a managed
`hyprland.lua`, and write one anew, between any two steps of the service. The runs check the same formulas under the same
conditions.

**Transaction.** `ConfigurationTransaction_proofs` first proves `TypeCorrect`, for
every content, every bound and every number of faults. `TypeInv`, the inductive
form, adds that every survivor is a namespace of well-typed files, which `TypeOK`
needs because a power loss makes any of them the disk. One lemma states what each
operation on the store leaves well typed, and one step per action uses it.

Then `RevocationSafe`. The property is not inductive. `RevocationInv` adds to
`TypeInv`:

- `disk` is one of the survivors, so what holds of all survivors holds of what is
  read;
- `NamesOnly`: in every survivor the activation record and the journal name
  transactions that were prepared, and neither an applied record nor a committing
  journal names a revoked one;
- `Undecided`: while the authority serves, no survivor holds a committing journal
  and none applies the transaction that is prepared;
- `CommittingUnrevoked`: a thread that is committing holds a transaction that was
  not revoked;
- `StartsClean`: a thread that is starting has nothing in memory, works on a
  durable directory, and loads only without a journal.

The argument is that the only way from a prepared to a committing journal is
`CommitApply`, whose caller was not told of a rollback, and that a rollback is
told only after the journal's removal is durable (`AbortApply`) or by a start that
found none on a durable directory.

Then the order of writes, `ProtocolInv`:
what of a decision is on which file at each step of `commitApply` and of the
roll-forward (`MirrorsInOrder`), that the journal on disk is the one in memory
(`JournalInMemory`), and that a thread goes to its next mirror only on a durable
directory (`Synced`). All of that holds with damage. `DecisionRetirement`
follows from the last step alone: it removes the journal only after it has checked
the mirrors.

`ConfigurationTransaction_durability_proofs` adds, while there was no damage,
`Durable`: how each survivor relates to memory, to the decisions and to the revisions
shown. A survivor is one of what the last durable write left and what was written
since, so it is one of the two sides of a single write; the invariant says
what both sides have in common. A revision that was shown was durable before it was
shown, and a revision is only ever raised, so no survivor has it with other contents.
The five theorems with `damage = 0` are conjuncts of `DurabilityInv` or follow from it
in one step.

Last, every action is mapped to a step of
`RevisionedAuthority` or a stutter, with `DurabilityInv` to say what a crash reads: a
power loss that takes back what nobody was told of is the abstract `PowerLoss`, the
write of the decision is `Decide`, and each mirror that follows is a stutter, because a committing journal already counts as applied.

`TransactionPreflight_proofs` adds to `DurabilityInv` what the readers of the records
look at and the transaction itself does not (`Consistent`): which kind of journal goes
with which documents, and that what is applied holds the contents of the desired or
of the last good document. A namespace is then either settled or has a journal of a
known kind and phase; for each the preflight's and the startup's case analysis is
followed to its verdict. The two lemmas that carry the weight are
`PreflightRecognizes` and `JournalledStartup`.

**The component plan.** `ComponentPlanRuntime_proofs`. None of the properties is inductive,
because a handler that commits and then publishes may fail at either. `Kept` says how
memory and disk relate: either the record in memory is the one a load would select, or
memory is in safe mode with nothing trusted in it (`Untrusted`); what is activating or
was interrupted is pending on disk, or the disk itself says safe mode (`Remembered`); and
what is barred is quarantined there. `Admissible` is the claim about the plan while no
rebuild is outstanding. Each operation of the controller has a lemma for both of its
outcomes, `CommitKeeps` and `FailedCommitKeeps`. The argument for `QuarantinesHold`
across a failed commit is that safe mode shows nobody. `AcceptedJoinCurrent` needs
`JoinInv`: a chain that has listed the catalog has the present one and its services are
there, or a signal that will supersede it is under way.

**Packages.** `UserPackageStore_proofs` proves `TypeCorrect`, with `TypeInv`
adding that a request under way has its package and the entries `load()` found; and
`ReceiptsAreBacked`. Its invariant `BackedInv` adds what each phase knows of the
component it works on: a receipt is written only after the tree of its version was
published or found valid; a version is replaced or deleted only while no receipt
names it, since a removal retires the receipt first and an installation of the
version that the receipt names is answered or refused before it publishes; and a
receipt is put back only while its trees are untouched.

`CatalogInv` follows the receipts through a request: which receipt the disk has at each step relative to the one `load()`
found, so that the catalog the manager serves, the entries it is about to accept and
what a restart would load are the same before and after, and differ in the requested
component in between. The refinement changes the abstract catalog at the write or
the retirement of the receipt, or takes it back when that is put back. With damage
the entries `load()` found may disappear under the request, so `RequestInv` says less:
the request's own entry is in its phase, every other component is as loaded, and
there is room for the receipts; this is what the answer needs.

**Inspections.** `InspectionSessions_proofs`. `TablesAgree` relates five pieces of state
per token, and is not inductive because a unit's start, its reply and its end
arrive in any order. `SessionInv` adds for every token what the launcher waits for
(`Waits`), what the client was told (`Told`) and which message under way or already
delivered will cause what is still missing (`Caused`); the successful reply to a start
need not be delivered for that, which is how the code survives `JobRemoved` before
it. `EndedStaysEnded` is an action property of the same invariant.

**The display preview.** `SessionParts_proofs` speaks of the instance `Display` of
`SessionParts`, the module whose run checks `PreviewIsSafe`. None of the four parts of
the property is inductive: whether a capability may be committed depends on where
the handler stands that holds it. `DisplayInv` adds `Journal` (a generation is prepared
once, and a journal is of the last one), `Previewed` (what a capability guarantees:
until its termination starts it is live, journalled as prepared and in no history; after
that its journal is gone or prepared, and `rolledBack` means that the applied side is
live), `Standing` (what holds at each step of a handler, which is where an owner that
leaves during a blocking call is accounted for: from `arming` on it is present or its
loss will be delivered) and `History`. Every handler that ends a preview begins with
the same operation, so one lemma, `BeginRevertKeeps`, serves nine actions; the commit
is the only other way out, and it revokes the capability in every branch in which a
decision may exist.

**The client.** `ClientInv`, in the same module, is for any number of operations and of
disturbances. A save is sent, times out, is looked for, is sent again, and the first copy
may still be executed after all of that; what makes the verdicts right is how much the
client and everything under way agree about revisions. `Had` says it: a revision that
anybody names had the contents it is named with, and ran if somebody takes it for
applied. `ServiceHolds` and `OperationHolds` say it of the service and of the operation,
`CallHolds` and `MessageHolds` of all that is on the bus. A call that nobody waits for
any more is still in the queue, so `CallHolds` covers it too: what it would store is either not what
the operation asks for, or asked for at the same revision, which a second execution
finds taken. `LastWaits` and `OneReply` say that at most one call of the operation is
answered, and that it is the last. A refusal is true while the service goes on
(`Settles`): neither what is stored nor a call still in the queue has the contents it was
about (`NotStored`). `ActsOnlyOnWhatWasShown` is then one lemma about each call that
writes: it changes the service only where it names the revision and the digest of what
is stored, and that revision had the contents that the client showed.

**The reloads.** `ServiceParts_proofs` speaks of the instance `Reloads` of
`ServiceParts`, for any number of Hyprlands and of disruptions. What the property says
of the moment of the verification has to be carried there from the moment the stream was drained,
through loads that were under way, that Hyprland starts by itself or that were asked
for. `ReloadInv` does so while the entrypoint is still what was published: for a
loader (`LoaderHolds`), once its nonce is in the stream or was read from it, the
pinned Hyprland's last load is in the history since the drain and is of that file, and
what it loads is of that file too; for a file that has no nonce (`OtherHolds`), once the request
was answered, the full reset is due, or that file is loading or loaded with its own
provider. The rest is what a session rests on: its purpose and the baseline
(`PurposeHolds`, `BaselineHolds`: a rollback to a managed loader expects Lua because
the session that published insisted on it), its one request and its one Hyprland
(`SessionHolds`), and that a loader is only ever loaded by Lua (`HyprlandsHold`). Starts, stops and
loads that begin share one lemma, `HyprlandKeeps`; so do the steps of the service that
change nothing but where it stands, `StepKeeps`.

**The settings.** `FutureFilesAlwaysKept` is about a write that is decided at one time and done at
another: a store loads its two copies, and much later replaces one after the other.
`SettingsInv` carries the check from the load to the write: the process, and every job
it has begun, writes only files both copies of which were supported when it loaded them
(`ProcessHolds`, `JobHolds`), and nobody else writes a file of a later release while it
runs. The second load of the component
configuration is where this is not obvious: it may find a file of a later release beside
what is served, which goes on being served but may not be written any more.

**The user's files.** `UserFilesAlwaysPreserved` is about what a power loss may leave,
so `FilesInv` speaks of every survivor: it has the user's files (`FilesKept`) and a shape
from which a restart can see where they are (`ShapeHolds`: without a bridge an
entrypoint is managed, displaced or the user's, and the swap names hold loaders only;
a bridge leads away from another file). The rest is what each step of the publisher
knows: which names are the same in all survivors (`SettledHolds`, `OthersSynced`), that
the candidate is a new loader staged over nothing of the user's (`CandidateHolds`), that
a name is unlinked only while what it holds is a loader in all that may survive
(`CandidateRemovable`, `DisplacedHolds`). It is an invariant of the cases
where the user has a file; `FilesInv` says nothing where there was none, since there is
nothing to keep: its adoption is rolled back by an unlink, which until the next sync may
be lost, and not by an exchange.

**The decision.** `DecisionNeverTakenBack` is an action property of the process and the
entrypoint as it is, so `DecisionInv` needs little of the survivors; but it holds with every deletion and edit of
the user's. Until the decision is asked for, the transition is newer than what is
committed and the bridge is its own (`Undecided`); what is put at the entrypoint is
the loader of the transition, and a step that may take a loader away, an exchange back
or the rollback of a bridge, works on one that was not decided (`EntrypointHolds`). The
restart's reconciliation is the hard case: it knows the authority's generation and the
bridge, and the two may disagree by one decision.

Each of these invariants was checked by TLC on the bounds of its run before it was
proved: `ProtocolInv` and `DurabilityInv` on both transaction runs, `ConsistencyInv` on 62 794
states, `CatalogInv` on
21 454 states, `RequestInv` on 817 879, `SessionInv` on 506 086, `DisplayInv` on 127 606, `ClientInv`
on 297 592,
`ReloadInv` on 412 999, `SettingsInv` on 276 941, `FilesInv` on 14 004, `DecisionInv` on the
same and, with `MayRemove`, on 24 618.

What stays with TLC, and why:

- every liveness property (`DecisionReachesService`, `InspectionsEnd`, `PreviewEnds`,
  `PlanFollowsServices`, `ClientConverges`, `NightLightSettles`) and the absence of
  deadlock: the installed provers do not reason about fairness;
- `NightLight`: its handlers are operators with operator parameters (a signal's
  receiver), nested several deep as the code's re-entrancy is, which have no
  first-order form the provers expand to in reasonable size;
- what of the parts modules is not named above: a theorem about a module cannot be
  carried through `INSTANCE` by this prover, so each has to be proved about the
  instance, as the theorems of `SessionParts` and of `ServiceParts` are;
- of the activation and the generations, `CrashesSettle`: it says that an operator with
  the case analysis of a restart yields a verdict for each of the survivors, in a model
  with power losses of three directories; of `ServiceParts` also
  `SettingsHold` and `CapturesAreOfOneInstant`, which are conjunctions over five modules.
  Its `AcceptedIsStored` and `OnlyTheRequestedChanges` are those of `UserPackageStore`, which are
  proved there;
- the properties in the plan below.

The proofs assume only the assumptions the modules name: the sets of contents are
as declared, the bounds are natural numbers, and an empty optional (`None`) is not a
value: not a record (`TransactionAssumption`, `VersionedAssumption`, `HealthAssumption`),
a version or transaction of the authority (`EmptyAssumption`), a plan or a join
(`JoinAssumption`), a request (`RequestAssumption`), a session or a launch
(`EntryAssumption`), a display confirmation (`DisplayAssumption`), an operation of the client
(`ClientAssumption`), a Hyprland, an answer, a
file, a load or a process (`NoneAssumption`); that a file or a record of the publisher
is told from a missing or unreadable one (`FileAssumption`); and that the bounds on
revisions and transitions are natural numbers (`RevisionAssumption`, `TokenAssumption`).

## Disagreements with the documentation

**A retained plan that becomes authoritative without its sources**
(`component_plan_retry`,
`src/coordinator/components/component_plan_controller.cpp:710`). While a source is
gone the plan is `retained` and shows no third party. `RetryComponent` checks only
the health revision; it rebuilds the plan from the cached snapshots and publishes
it as `authoritative`, third parties included, until the next failed hydration.
`interfaces/dbus/README.md:693-697` says that an authoritative plan "is joined to
the current catalog and configuration snapshots".

**An interrupted publication that no later start can remove** (`generation_staging`,
`src/compositord/generation.cpp:223`). `publish` makes the staged tree immutable (mode
0500, line 1128) before it renames it. If the service is killed in between,
`.pending-<nonce>` is left with that mode; `cleanupStagingDirectories` accepts only
mode 0700 (`cleanupStaging`, which the same process uses, accepts both), so
`initialize` fails, now and at every later start. `tests/compositor_store_test.cpp:675-676`
demands that a start removes what an interrupted publication left, and builds it
with the other mode only.

**A note on night light**, which is no run: `dispatchDesiredCommand` emits
`stateChanged` before it starts hyprctl, `reconcileRuntime` re-enters it, and one run
of hyprctl counts as two of `maximumCommandAttempts`.
`tests/hyprsunset_controller_test.cpp:311-323` sees two runs because it has no service
connected to the signal.

## What is not modelled

- The grammar of what is parsed and the text of what is rendered; digests, file modes
  and descriptor checks. A failed check is a failed operation.
- Leases and the bus name, which make the service the only writer of its
  directories.
- An entrypoint that is a symbolic link; the removal of `hyprland.lua` by the user
  during an adoption (`MayRemove`), which the code's check-then-unlink does not
  claim to survive.
- Deleting files of the store from outside while it runs; `Damage` makes them
  unreadable instead.
- Failure counts and reasons of the health record, which no decision reads; health
  files damaged from outside.
- In the package store: byte quotas (count limits stand for them), links and modes
  in trees, and power losses: the code does not sync its directories, so the models
  speak of the process being killed and not of what the disk keeps.
- In the inspections: `lookup`, which no D-Bus method calls; the tombstones that
  choose between two error names; `StopUnit` for a cancelled unit, whose end may come
  at any time anyway; session directories that cannot be removed; a manager that
  does not get the spool lock and refuses every call. A `Subscribe` that failed once
  is never repeated, so every later inspection is refused until the manager is
  restarted; the model has that state and no property objects to it.
- What the sections on the models name as left out.
- The runtime's queries for the discovery of displays and devices, the parsing of
  what Hyprland answers and the limits on its bytes, which end a session like any
  failure. Nothing cancels a session from outside: the service has one thread.
- The components `PROJECT.json` lists as not modelled: solar arithmetic and location;
  parsing and validation of contracts; presentation.

## Plan

What could be taken up next, in this order:

1. `BarsFollowThePlan` as a theorem.
2. `CrashesSettle`, which would extend `FilesInv` by what is known of the records in
   every survivor.
