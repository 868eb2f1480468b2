--------------------------- MODULE SettingsStores ---------------------------
(***************************************************************************)
(* The two stores of configd and the move of settings from one to the      *)
(* other.  The shell's settings (ConfigStore, ConfigService) and the       *)
(* component configuration (ComponentStore, ComponentConfigService) each   *)
(* have an active file and a recovery copy, replaced by rename one after   *)
(* the other.  Settings of the workspace switcher used to be in the        *)
(* shell's file: the first component configuration takes them over, and    *)
(* only then does the shell's store drop them.                             *)
(*                                                                         *)
(* A file is a status and, when valid, what the properties tell apart: a   *)
(* revision, a value, the form it was written in, and whether it carries   *)
(* the workspace settings.                                                 *)
(***************************************************************************)
EXTENDS Naturals, Sequences

CONSTANTS
    MaxRevision,    \* bound on the revisions of either store
    MaxOutages,     \* bound on the changes of what can be read
    None

VARIABLES
    disk,           \* what the four files hold
    unreadable,     \* files that cannot be opened
    outages,
    catalog,        \* what componentd last published
    configd,        \* the process, None when it does not run
    job,            \* the handler under way: what it still has to write
    told,           \* what the clients of each store were last told
    owed            \* workspace settings wait for the first configuration

vars == <<disk, unreadable, outages, catalog, configd, job, told, owed>>

Stores == {"shell", "component"}
Files == Stores \X {"active", "recovery"}

\* The shell's form is its format version, the component configuration's the
\* package of the workspace switcher it was written for.
File == [status: {"missing", "damaged", "future", "unreadable", "valid"},
         revision: 0..MaxRevision, value: {0, 1, 2},
         form: {"old", "new"}, workspace: {"absent", "broken", "present"}]

Blank(status) == [status |-> status, revision |-> 0, value |-> 0,
                  form |-> "new", workspace |-> "absent"]

\* parseLegacyWorkspaceSettings gives nothing for a block that is broken.
Parsed(f) == [f EXCEPT !.form = "new",
                       !.workspace = IF @ = "broken" THEN "absent" ELSE @]
Without(f) == [f EXCEPT !.workspace = "absent"]

Found(file) == IF file \in unreadable THEN Blank("unreadable") ELSE disk[file]

Untouchable(f) == f.status \in {"future", "unreadable"}

Write(file, content) == [file |-> file, content |-> content, optional |-> FALSE]
OptionalWrite(file, content) == [Write(file, content) EXCEPT !.optional = TRUE]
Both(store, content) ==
    <<Write(<<store, "recovery">>, content), Write(<<store, "active">>, content)>>

\* The recovery copy first holds what is current, so that one of the two files
\* is always complete; that it could not follow is only logged.
PersistWrites(store, current, next) ==
    <<Write(<<store, "recovery">>, current), Write(<<store, "active">>, next),
      OptionalWrite(<<store, "recovery">>, next)>>

-----------------------------------------------------------------------------
(* Which file a store starts from, and what it rewrites first.             *)

Defaults == Blank("valid")

ShellLoads(active, recovery) == ~Untouchable(active) /\ ~Untouchable(recovery)

ShellChoice(active, recovery) ==
    CASE active.status = "valid" -> active
      [] active.status # "valid" /\ recovery.status = "valid" -> recovery
      [] OTHER -> Defaults

ShellWrites(active, recovery) ==
    LET chosen == Parsed(ShellChoice(active, recovery))
        stale == recovery.form = "old" \/ Parsed(recovery) # chosen
    IN CASE active.status = "valid" ->
              IF active.form = "old" THEN Both("shell", chosen)
              ELSE IF stale THEN <<Write(<<"shell", "recovery">>, chosen)>> ELSE <<>>
         [] active.status # "valid" /\ recovery.status = "valid" ->
              IF recovery.form = "old" THEN Both("shell", chosen)
              ELSE <<Write(<<"shell", "active">>, chosen)>>
         [] OTHER -> Both("shell", chosen)

\* The one pinned data migration of the component configuration.
Migrates(published, f) ==
    f.form = "old" /\ published = "new" /\ f.revision < MaxRevision
Migrated(f) == [f EXCEPT !.form = "new", !.revision = @ + 1]

ComponentChoice(active, recovery, workspace) ==
    CASE active.status = "valid" -> active
      [] active.status # "valid" /\ recovery.status = "valid" -> recovery
      [] OTHER ->
           [Defaults EXCEPT !.workspace =
                IF active.status = "missing" /\ recovery.status = "missing"
                THEN workspace ELSE "absent"]

\* What ComponentStore::load tries: whether a configuration is there before
\* anything is written, whether it may be written, and the writes.
ComponentLoad(published, active, recovery, workspace) ==
    LET chosen == ComponentChoice(active, recovery, workspace)
        Plan(available, writable, writes) ==
            [available |-> available, writable |-> writable, writes |-> writes,
             state |-> chosen]
    IN IF Untouchable(active) THEN Plan(FALSE, FALSE, <<>>)
       ELSE IF Untouchable(recovery) THEN Plan(active.status = "valid", FALSE, <<>>)
       ELSE IF chosen \notin {active, recovery}
       THEN Plan(FALSE, TRUE, Both("component", chosen))
       ELSE IF Migrates(published, chosen)
       THEN Plan(TRUE, TRUE, Both("component", Migrated(chosen)))
       ELSE Plan(TRUE, TRUE, IF recovery = active THEN <<>>
                             ELSE <<Write(<<"component",
                                            IF chosen = active THEN "recovery"
                                            ELSE "active">>, chosen)>>)

-----------------------------------------------------------------------------
(* A handler writes file after file; each may fail.                        *)

\* What is served when nothing could be written, and when all was.
Job(kind, writes, state, next) ==
    [kind |-> kind, writes |-> writes, state |-> state, next |-> next,
     available |-> TRUE, writable |-> TRUE, written |-> 0]

\* A migration also changes what is served, and so does the first start.
LoadJob(kind, plan) ==
    [Job(kind, plan.writes, plan.state,
         IF plan.writes = <<>> THEN plan.state ELSE Head(plan.writes).content)
     EXCEPT !.available = plan.available, !.writable = plan.writable]

Idle == configd # None /\ job = None /\ configd.serving
Environment == <<unreadable, outages, catalog, owed>>

WriteSucceeds ==
    /\ job # None /\ job.writes # <<>>
    /\ LET w == Head(job.writes)
       IN /\ disk' = [disk EXCEPT ![w.file] = w.content]
          /\ job' = [job EXCEPT !.writes = Tail(@), !.written = @ + 1]
    /\ UNCHANGED <<Environment, configd, told>>

\* What a client is told is what the service has taken over.
Tell(store, state) == told' = [told EXCEPT ![store] = state]

RetireJob(process) == Job("retire", Both("shell", Without(process.shell)), None, None)

\* Faulty variant of Establish: a configuration that could not be established
\* authorizes too.
EstablishAnyway(process) ==
    /\ configd' = [process EXCEPT !.authorized = TRUE,
                                  !.held = IF process.available THEN "absent" ELSE @]
    /\ job' = IF process.retiring THEN RetireJob(process) ELSE None

\* The end of ComponentConfigService::applyCatalog: an available
\* configuration authorizes the shell's store to drop the block.
Establish(process) ==
    /\ configd' = [process EXCEPT !.authorized = @ \/ process.available,
                                  !.held = IF process.available THEN "absent" ELSE @]
    /\ job' = IF configd'.authorized /\ configd'.retiring
              THEN RetireJob(process) ELSE None

TakeConfiguration(available, writable, state) ==
    /\ Establish([configd EXCEPT !.available = available, !.writable = writable,
                                 !.component = state])
    /\ IF available THEN Tell("component", state) ELSE UNCHANGED told

\* A second load of a configuration that could not be written is taken over
\* only when it is the one that is served, or its migration.
Reload(writable, state) ==
    IF \/ state = configd.component
       \/ /\ Migrates(catalog, configd.component)
          /\ state = Migrated(configd.component)
    THEN TakeConfiguration(TRUE, writable, state)
    ELSE TakeConfiguration(TRUE, FALSE, configd.component)

JobSucceeds ==
    /\ job # None /\ job.writes = <<>>
    /\ \/ /\ job.kind = "load"
          /\ configd' = [configd EXCEPT !.serving = TRUE]
          /\ Tell("shell", configd.shell)
          /\ job' = None
       \/ /\ job.kind = "set"
          /\ configd' = [configd EXCEPT !.shell = job.next]
          /\ Tell("shell", job.next)
          /\ job' = None
       \/ /\ job.kind = "retire"
          /\ configd' = [configd EXCEPT !.retiring = FALSE, !.timer = FALSE,
                                        !.shell = Without(@)]
          /\ job' = None
          /\ UNCHANGED told
       \/ /\ job.kind = "replace"
          /\ configd' = [configd EXCEPT !.component = job.next]
          /\ Tell("component", job.next)
          /\ job' = None
       \/ /\ job.kind = "components"
          /\ IF job.available \/ job.written > 0
             THEN TakeConfiguration(TRUE, job.writable, job.next)
             ELSE TakeConfiguration(FALSE, FALSE, None)
       \/ /\ job.kind = "reload"
          /\ IF job.available \/ job.written > 0 THEN Reload(job.writable, job.next)
             ELSE TakeConfiguration(TRUE, FALSE, configd.component)
    /\ UNCHANGED <<disk, Environment>>

\* A configuration that could be read stays available without being writable;
\* a migration counts once its recovery copy is written.
ServedSoFar == IF job.written = 0 THEN job.state ELSE job.next

WriteFails ==
    /\ job # None /\ job.writes # <<>>
    /\ IF Head(job.writes).optional
       THEN job' = [job EXCEPT !.writes = Tail(@)] /\ UNCHANGED <<configd, told>>
       ELSE \/ /\ job.kind = "load"
               /\ configd' = None /\ job' = None /\ UNCHANGED told
            \/ /\ job.kind \in {"set", "replace"}
               /\ job' = None /\ UNCHANGED <<configd, told>>
            \/ /\ job.kind = "retire"
               /\ configd' = [configd EXCEPT !.timer = TRUE]
               /\ job' = None
               /\ UNCHANGED told
            \/ /\ job.kind = "components"
               /\ IF job.available THEN TakeConfiguration(TRUE, FALSE, ServedSoFar)
                  ELSE TakeConfiguration(FALSE, FALSE, None)
            \/ /\ job.kind = "reload"
               /\ IF job.available THEN Reload(FALSE, ServedSoFar)
                  ELSE TakeConfiguration(TRUE, FALSE, configd.component)
    /\ UNCHANGED <<disk, Environment>>

-----------------------------------------------------------------------------
(* The handlers.                                                           *)

\* A store with an unsupported or unreadable file is not started from.
Start ==
    /\ configd = None
    /\ LET active == Found(<<"shell", "active">>)
           recovery == Found(<<"shell", "recovery">>)
           chosen == ShellChoice(active, recovery)
       IN /\ ShellLoads(active, recovery)
          /\ configd' = [serving |-> FALSE, shell |-> Parsed(chosen),
                         retiring |-> chosen.workspace # "absent",
                         authorized |-> FALSE, timer |-> FALSE,
                         held |-> Parsed(chosen).workspace,
                         available |-> FALSE, writable |-> FALSE, component |-> None]
          /\ job' = Job("load", ShellWrites(active, recovery), None, None)
    /\ UNCHANGED <<disk, Environment, told>>

\* Any of the setters of ConfigService with a value that is new.
Set(value) ==
    /\ Idle
    /\ value # configd.shell.value
    /\ configd.shell.revision < MaxRevision
    /\ LET next == [configd.shell EXCEPT !.revision = @ + 1, !.value = value]
       IN job' = Job("set", PersistWrites("shell", configd.shell, next),
                     configd.shell, next)
    /\ UNCHANGED <<disk, Environment, configd, told>>

RetireTimer ==
    /\ Idle
    /\ configd.timer
    /\ configd' = [configd EXCEPT !.timer = FALSE]
    /\ job' = RetireJob(configd)
    /\ UNCHANGED <<disk, Environment, told>>

\* componentd publishes a catalog, or this one again.
ApplyCatalog(published) ==
    /\ Idle
    /\ catalog = "new" => published = "new"
    /\ catalog' = published
    /\ LET active == Found(<<"component", "active">>)
           recovery == Found(<<"component", "recovery">>)
       IN \/ /\ configd.component = None
             /\ job' = LoadJob("components", ComponentLoad(published, active, recovery,
                                                           configd.held))
          \/ /\ configd.component # None /\ ~configd.writable
             /\ job' = LoadJob("reload", ComponentLoad(published, active, recovery,
                                                       "absent"))
          \/ /\ configd.component # None /\ configd.writable
             /\ job' = LoadJob("components",
                   [available |-> TRUE, writable |-> TRUE, state |-> configd.component,
                    writes |-> IF Migrates(published, configd.component)
                               THEN Both("component", Migrated(configd.component))
                               ELSE <<>>])
    /\ UNCHANGED <<disk, unreadable, outages, owed, configd, told>>

ReplaceSnapshot(value) ==
    /\ Idle
    /\ configd.available /\ configd.writable
    /\ value # configd.component.value
    /\ configd.component.revision < MaxRevision
    /\ LET next == [configd.component EXCEPT !.revision = @ + 1, !.value = value]
       IN job' = Job("replace", PersistWrites("component", configd.component, next),
                     configd.component, next)
    /\ UNCHANGED <<disk, Environment, configd, told>>

-----------------------------------------------------------------------------
(* The environment.                                                        *)

\* The process ends, at any rename. Nothing syncs a directory: a power loss may
\* take the latest renames back too, and is then a crash that came earlier.
Crash ==
    /\ configd # None
    /\ configd' = None
    /\ job' = None
    /\ UNCHANGED <<disk, Environment, told>>

\* A file cannot be opened for a while.
Outage(file) ==
    /\ outages < MaxOutages
    /\ outages' = outages + 1
    /\ unreadable' = IF file \in unreadable THEN unreadable \ {file}
                     ELSE unreadable \cup {file}
    /\ UNCHANGED <<disk, catalog, configd, job, told, owed>>

\* What an earlier release, a later one, or nobody left behind. A recovery
\* copy is the same, or lost in one way or another.
Lost == {Blank(status) : status \in {"missing", "damaged", "future"}}
Valid(form, workspace) ==
    [Blank("valid") EXCEPT !.revision = 1, !.value = 1, !.form = form,
                           !.workspace = workspace]
ShellFiles ==
    Lost \cup {Valid("old", "present"), Valid("new", "present"), Valid("new", "broken")}
ComponentFiles == Lost \cup {Valid("old", "absent")}
Copies(files) == {pair \in files \X files : pair[2] \in Lost \cup {pair[1]}}

Init ==
    /\ \E shell \in Copies(ShellFiles), component \in Copies(ComponentFiles) :
           disk = [file \in Files |->
               LET pair == IF file[1] = "shell" THEN shell ELSE component
               IN IF file[2] = "active" THEN pair[1] ELSE pair[2]]
    /\ unreadable = {}
    /\ outages = 0
    /\ catalog = "old"
    /\ configd = None
    /\ job = None
    /\ told = [s \in Stores |-> None]
    /\ owed = /\ ShellChoice(disk[<<"shell", "active">>],
                             disk[<<"shell", "recovery">>]).workspace = "present"
              /\ disk[<<"component", "active">>].status = "missing"
              /\ disk[<<"component", "recovery">>].status = "missing"

Next ==
    \/ Start
    \/ WriteSucceeds
    \/ WriteFails
    \/ JobSucceeds
    \/ \E value \in {1, 2} : Set(value) \/ ReplaceSnapshot(value)
    \/ RetireTimer
    \/ \E published \in {"old", "new"} : ApplyCatalog(published)
    \/ Crash
    \/ \E file \in Files : Outage(file)

Spec == Init /\ [][Next]_vars

-----------------------------------------------------------------------------

Process ==
    [serving: BOOLEAN, shell: File, retiring: BOOLEAN, authorized: BOOLEAN,
     timer: BOOLEAN, held: {"absent", "present"},
     available: BOOLEAN, writable: BOOLEAN, component: File \cup {None}]

TypeOK ==
    /\ disk \in [Files -> File]
    /\ unreadable \subseteq Files
    /\ outages \in 0..MaxOutages
    /\ catalog \in {"old", "new"}
    /\ configd \in Process \cup {None}
    /\ job # None =>
           /\ configd # None
           /\ job.kind \in {"load", "set", "retire", "replace", "components", "reload"}
           /\ \A i \in DOMAIN job.writes :
                  job.writes[i].file \in Files /\ job.writes[i].content \in File
    /\ told \in [Stores -> File \cup {None}]
    /\ owed \in BOOLEAN

\* Until the component configuration has taken the workspace settings over,
\* they are in the file the shell's store would start from: whichever of the
\* renames of the move a crash comes between, whichever of them failed and was
\* tried again, and whatever was set meanwhile.
WorkspaceSettingsKept ==
    /\ TypeOK
    /\ owed =>
        LET active == disk[<<"component", "active">>]
            recovery == disk[<<"component", "recovery">>]
        IN IF active.status = "missing" /\ recovery.status = "missing"
           THEN ShellChoice(disk[<<"shell", "active">>],
                            disk[<<"shell", "recovery">>]).workspace = "present"
           ELSE ComponentChoice(active, recovery, "absent").workspace = "present"

\* What the next start would serve, were every file readable.
Reloaded(store) ==
    LET active == disk[<<store, "active">>]
        recovery == disk[<<store, "recovery">>]
    IN IF store = "shell" THEN ShellChoice(active, recovery)
       ELSE LET plan == ComponentLoad(catalog, active, recovery, "absent")
            IN LoadJob("components", plan).next

\* As long as the power stays on, what a client was told is what the next
\* start serves, or something newer: a crash, a failed write, a retirement or
\* a migration between two renames never takes a change back and never gives
\* its revision to another one (persist, migrate, retireLegacyWorkspace...).
ToldIsReloaded ==
    \A store \in Stores :
        LET t == told[store]
            r == Reloaded(store)
        IN t # None =>
             \/ r.revision > t.revision
             \/ r.revision = t.revision /\ r.value = t.value

\* Neither a move between the stores nor a crash loses what was set or told.
SettingsHold == WorkspaceSettingsKept /\ ToldIsReloaded

\* A file that a later release wrote is left as it is, whatever becomes of
\* the other copy (ConfigStore::load, ComponentStore::load).
FutureFilesKept ==
    [][\A file \in Files :
           disk[file].status = "future" => disk'[file] = disk[file]]_vars

=============================================================================
