-------------------------- MODULE HyprlandRuntime --------------------------
(***************************************************************************)
(* How the service knows what Hyprland runs (HyprlandIpcRuntime): it pins  *)
(* one Hyprland by its instance directory, its lock, its event stream and  *)
(* its process, has it reload, and takes the nonce that a generation's     *)
(* loader emits, the reload it announces, its errors and its provider as   *)
(* the proof.  The caller is LiveActivationBackend: it publishes the       *)
(* target between the two reloads of one session, verifies the entrypoint  *)
(* afterwards, and has the prior entrypoint proved when that fails.        *)
(*                                                                         *)
(* Meanwhile Hyprland reloads by itself, is left or crashes while another  *)
(* is started, and the user edits hyprland.lua or the user-custom.lua that *)
(* every loader requires.  Hyprland has one thread: it answers no request  *)
(* during a load.  Its "ok" says that it took the request to reload; the   *)
(* load follows, perhaps after one that was due already.  The service too  *)
(* has one thread, and each of its polls may end at the session's deadline.*)
(***************************************************************************)
EXTENDS Naturals, Sequences, FiniteSets

CONSTANTS
    None,
    Hyprland,       \* the Hyprlands that may run, one after or beside another
    MaxDisruptions  \* bound: starts, stops, loads of Hyprland's own and edits

VARIABLES
    hyprlands, environment, entrypoint, custom, disruptions,
    stream,         \* what waits in the pinned event connection
    runtime,        \* HyprlandIpcRuntime's session and its caller
    evidence        \* history: what was loaded since the stream was drained

world == <<hyprlands, environment, entrypoint, custom, disruptions>>
vars == <<world, stream, runtime, evidence>>

-----------------------------------------------------------------------------
(* Hyprland and its configuration.  A loader requires user-custom.lua.     *)

Loaders == {"prior", "target"}
Files == Loaders \cup {"missing", "user", "edited"}
Providers == {"lua", "hyprlang"}

\* What the entrypoint may be when the service comes to it.
Before == {"prior", "user", "missing"}

\* Hyprland takes hyprland.conf when there is no hyprland.lua; only a start or a
\* full reset makes it take the other.
ProviderFor(file) == IF file = "missing" THEN "hyprlang" ELSE "lua"

Read(p, full) ==
    IF full THEN [file |-> entrypoint, provider |-> ProviderFor(entrypoint)]
    ELSE IF hyprlands[p].loaded.provider = "hyprlang"
         THEN [file |-> "missing", provider |-> "hyprlang"]
         ELSE [file |-> entrypoint, provider |-> "lua"]

\* Whether a file is loaded with errors.
ErrorsOf(load) ==
    IF load.file \in Loaders THEN {custom}
    ELSE IF load.file = "edited" \/ load.provider # ProviderFor(load.file)
         THEN BOOLEAN ELSE {FALSE}

Loads(load) ==
    {[file |-> load.file, provider |-> load.provider, errors |-> e] :
         e \in ErrorsOf(load)}

\* The loader emits its nonce when Hyprland tells it that it was reloaded.
EventsOf(load) ==
    (IF load.file \in Loaders THEN <<load.file>> ELSE <<>>) \o <<"configreloaded">>

\* directory: the instance directory with its lock and sockets; kind: how it was
\* started, and whether its version was reviewed; asked: a reload it has been
\* asked for, full or not.
Kinds == {"reviewed", "other version", "own config"}

NotStarted == [started |-> FALSE, runs |-> FALSE, directory |-> FALSE, kind |-> None,
               loaded |-> None, loading |-> None, asked |-> None]

TypeOK ==
    /\ entrypoint \in Files /\ custom \in BOOLEAN
    /\ environment \in Hyprland \cup {None}
    /\ runtime.pinned \in Hyprland \cup {None}
    /\ \A p \in Hyprland :
           hyprlands[p].runs => hyprlands[p].loaded.provider \in Providers

Disruption == disruptions < MaxDisruptions /\ disruptions' = disruptions + 1

\* A session may import its signature into the systemd user manager.
Start(p) ==
    /\ Disruption
    /\ ~hyprlands[p].started
    /\ \E load \in Loads([file |-> entrypoint, provider |-> ProviderFor(entrypoint)]),
          kind \in Kinds :
           hyprlands' = [hyprlands EXCEPT
               ![p] = [NotStarted EXCEPT !.started = TRUE, !.runs = TRUE, !.directory = TRUE,
                                         !.kind = kind, !.loaded = load]]
    /\ environment' \in {environment, p}
    /\ UNCHANGED <<entrypoint, custom, stream, runtime, evidence>>

\* What was left properly removes its directory.
Stop(p) ==
    /\ Disruption
    /\ hyprlands[p].runs
    /\ \E left \in BOOLEAN :
           hyprlands' = [hyprlands EXCEPT
               ![p] = [NotStarted EXCEPT !.started = TRUE, !.directory = left]]
    /\ UNCHANGED <<environment, entrypoint, custom, stream, runtime,
                   evidence>>

\* A file that Hyprland watches changed, another client asks, or the request of a
\* session that was given up is taken after all.
ReloadByItself(p) ==
    /\ Disruption
    /\ hyprlands[p].runs /\ hyprlands[p].loading = None
    /\ \E full \in BOOLEAN :
           hyprlands' = [hyprlands EXCEPT ![p].loading = Read(p, full)]
    /\ UNCHANGED <<environment, entrypoint, custom, stream, runtime, evidence>>

TakeRequest ==
    /\ runtime.request = "sent"
    /\ hyprlands[runtime.pinned].runs /\ hyprlands[runtime.pinned].loading = None
    /\ hyprlands' = [hyprlands EXCEPT ![runtime.pinned].asked = runtime.full]
    /\ runtime' = [runtime EXCEPT !.request = "answered"]
    /\ UNCHANGED <<environment, entrypoint, custom, disruptions, stream, evidence>>

LoadAsked(p) ==
    /\ hyprlands[p].asked # None /\ hyprlands[p].loading = None
    /\ hyprlands' = [hyprlands EXCEPT ![p].loading = Read(p, hyprlands[p].asked),
                                      ![p].asked = None]
    /\ UNCHANGED <<environment, entrypoint, custom, disruptions, stream, runtime,
                   evidence>>

FinishLoad(p) ==
    /\ hyprlands[p].loading # None
    /\ \E load \in Loads(hyprlands[p].loading) :
          /\ hyprlands' = [hyprlands EXCEPT ![p].loaded = load, ![p].loading = None]
          /\ evidence' = IF p = runtime.pinned THEN evidence \cup {load} ELSE evidence
    /\ stream' = IF p = runtime.pinned THEN stream \o EventsOf(hyprlands[p].loading)
                 ELSE stream
    /\ UNCHANGED <<environment, entrypoint, custom, disruptions, runtime>>

UserEdit ==
    /\ Disruption
    /\ \/ entrypoint' = "edited" /\ UNCHANGED custom
       \/ custom' = ~custom /\ UNCHANGED entrypoint
    /\ UNCHANGED <<hyprlands, environment, stream, runtime, evidence>>

-----------------------------------------------------------------------------
(* What the runtime checks.                                                *)

FullReset(mode) == mode \in {"AdoptionFullReset", "LegacyRollback"}
RollbackMode(mode) == mode \in {"ManagedRollback", "LegacyRollback"}
Managed(mode) == mode \in {"ManagedReload", "ManagedRollback"}

\* systemdInstanceSignature, or what the service was started with.
Signature == IF environment # None THEN {environment} ELSE Hyprland

\* openTrustedInstance: an instance directory of this user's.
Opened(p) == hyprlands[p].directory

\* The lock beside the sockets names the process, whether it runs or crashed.
Locked(p) == hyprlands[p].directory

\* connectSocket: that process listens at its sockets.
Listens(p) == hyprlands[p].runs

\* An -c argument, safe mode, HYPRLAND_CONFIG or another home.
HasOwnConfig(p) == hyprlands[p].kind = "own config"

\* readAndValidateProcessContext.
ContextAccepted(p) == ~HasOwnConfig(p)

\* parseAndCheckVersion.
VersionReviewed(p) == hyprlands[p].kind # "other version"

\* verifyTrustedInstance: the directory at the path is still the pinned one.
NamespaceUnchanged(p) == hyprlands[p].directory

\* The event connection is open, and its peer, the pidfd and the start time under
\* the process id are those of the process pinned.
SameProcess(p) == hyprlands[p].runs

Identified(p) ==
    /\ NamespaceUnchanged(p)
    /\ SameProcess(p)
    /\ Locked(p)
    /\ ContextAccepted(p)

\* request: a connection to the pinned control socket, answered between loads.
Answers(p) ==
    /\ Identified(p)
    /\ hyprlands[p].loading = None

\* Where waitForReloadEvents stops in what it has received: at the first reload
\* that is announced, which must come after the nonce.
IsFirstReload(first, events) ==
    /\ events[first] = "configreloaded"
    /\ \A j \in 1..(first - 1) : events[j] # "configreloaded"

\* Faulty variant of NonceObserved: any reload will do.
ReloadObserved(nonce, events, first) == TRUE

NonceObserved(nonce, events, first) ==
    \/ nonce = None
    \/ \E j \in 1..(first - 1) : events[j] = nonce

NonceOf(file) == IF file \in Loaders THEN file ELSE None

-----------------------------------------------------------------------------
(* LiveActivationBackend and its sessions.                                 *)

Idle == [step |-> "idle", mode |-> None, pinned |-> None, request |-> "none",
         full |-> FALSE, proving |-> FALSE, baseline |-> None, before |-> None,
         published |-> FALSE]

Init ==
    /\ entrypoint \in Before
    /\ environment = None
    /\ custom = FALSE
    /\ disruptions = 0
    /\ hyprlands = [p \in Hyprland |-> NotStarted]
    /\ stream = <<>>
    /\ runtime = Idle
    /\ evidence = {}

To(step) == runtime' = [runtime EXCEPT !.step = step]

\* publishAndActivate; only an unmanaged entrypoint is adopted.
Begin ==
    /\ runtime = Idle
    /\ entrypoint \in Before
    /\ runtime' = [Idle EXCEPT
           !.step = "resolving",
           !.mode = IF entrypoint = "prior" THEN "ManagedReload"
                    ELSE "AdoptionFullReset",
           !.before = [file |-> entrypoint, errors |-> FALSE, provider |-> None]]
    /\ UNCHANGED <<world, stream, evidence>>

\* prepare up to the reviewed version: from here on only this process counts.
Pin ==
    /\ runtime.step = "resolving"
    /\ \E p \in Signature :
          /\ Opened(p) /\ Locked(p) /\ Listens(p)
          /\ ContextAccepted(p)
          /\ VersionReviewed(p)
          /\ runtime' = [runtime EXCEPT !.pinned = p, !.step = "pinned"]
    /\ stream' = <<>>
    /\ UNCHANGED <<world, evidence>>

\* reloadBarrier: the connection is authenticated, then the stream is drained.
Drain ==
    /\ \/ runtime.step = "pinned"
       \/ runtime.step = "prepared" /\ runtime.published
    /\ Identified(runtime.pinned)
    /\ stream' = <<>>
    /\ evidence' = {}
    /\ runtime' = [runtime EXCEPT
           !.step = "drained", !.proving = (runtime.step = "prepared"),
           !.full = runtime.step = "prepared" /\ FullReset(runtime.mode)]
    /\ UNCHANGED world

SendReload ==
    /\ runtime.step = "drained"
    /\ runtime' = [runtime EXCEPT !.step = "sent", !.request = "sent"]
    /\ UNCHANGED <<world, stream, evidence>>

\* The file whose load is to be proved; none before the publication.
Expected ==
    IF ~runtime.proving THEN None
    ELSE IF RollbackMode(runtime.mode) THEN runtime.before.file ELSE "target"

Acknowledged ==
    /\ runtime.step = "sent"
    /\ runtime.request = "answered"
    /\ runtime' = [runtime EXCEPT !.step = "waiting", !.request = "none"]
    /\ UNCHANGED <<world, stream, evidence>>

\* waitForReloadEvents.
WaitForReload ==
    /\ runtime.step = "waiting"
    /\ \E first \in DOMAIN stream :
          /\ IsFirstReload(first, stream)
          /\ NonceObserved(NonceOf(Expected), stream, first)
          /\ stream' = SubSeq(stream, first + 1, Len(stream))
    /\ To("reloaded")
    /\ UNCHANGED <<world, evidence>>

\* j/configerrors: none, or in a rollback those there were.
AcceptedErrors ==
    IF runtime.proving THEN {IF RollbackMode(runtime.mode) THEN runtime.before.errors
                             ELSE FALSE}
    ELSE IF RollbackMode(runtime.mode) THEN BOOLEAN ELSE {FALSE}

QueryErrors ==
    /\ runtime.step = "reloaded"
    /\ Answers(runtime.pinned)
    /\ LET errors == hyprlands[runtime.pinned].loaded.errors
       IN /\ errors \in AcceptedErrors
          /\ runtime' = [runtime EXCEPT
                 !.step = "errors",
                 !.baseline = IF runtime.proving THEN @
                              ELSE [errors |-> errors, provider |-> None]]
    /\ UNCHANGED <<world, stream, evidence>>

\* j/status: lua, but for the way out of or back to hyprland.conf.
AcceptedProviders ==
    IF runtime.proving
    THEN {IF RollbackMode(runtime.mode) THEN runtime.before.provider ELSE "lua"}
    ELSE IF Managed(runtime.mode) THEN {"lua"} ELSE Providers

QueryProvider ==
    /\ runtime.step = "errors"
    /\ Answers(runtime.pinned)
    /\ LET provider == hyprlands[runtime.pinned].loaded.provider
       IN /\ provider \in AcceptedProviders
          /\ runtime' = [runtime EXCEPT
                 !.step = "provider",
                 !.baseline = IF runtime.proving THEN @
                              ELSE [@ EXCEPT !.provider = provider]]
    /\ UNCHANGED <<world, stream, evidence>>

\* The last verifyIdentity; the session is registered, or its proof is given.
Confirm ==
    /\ runtime.step = "provider"
    /\ Identified(runtime.pinned)
    /\ To(IF runtime.proving THEN "proved" ELSE "prepared")
    /\ UNCHANGED <<world, stream, evidence>>

\* publish, with what the bridge keeps of the session; the publisher refuses an
\* entrypoint that is not what it was, and may stop when the bridge is there.
Publish ==
    /\ runtime.step = "prepared" /\ ~runtime.published /\ ~RollbackMode(runtime.mode)
    /\ entrypoint = runtime.before.file
    /\ \E step \in {"prepared", "failed"} :
          /\ entrypoint' \in {"target"} \cup (IF step = "failed" THEN {entrypoint} ELSE {})
          /\ runtime' = [runtime EXCEPT
                 !.step = step, !.published = TRUE,
                 !.before.errors = runtime.baseline.errors,
                 !.before.provider = runtime.baseline.provider]
    /\ UNCHANGED <<hyprlands, environment, custom, disruptions, stream, evidence>>

\* The publisher's rollback, from either side of the bridge.
Restore ==
    /\ runtime.step = "prepared" /\ ~runtime.published /\ RollbackMode(runtime.mode)
    /\ entrypoint \in {"target", runtime.before.file}
    /\ entrypoint' = runtime.before.file
    /\ runtime' = [runtime EXCEPT !.published = TRUE]
    /\ UNCHANGED <<hyprlands, environment, custom, disruptions, stream, evidence>>

\* verifyTransition: the entrypoint is exactly what was published.
Verify ==
    /\ runtime.step = "proved"
    /\ entrypoint = Expected
    /\ To("verified")
    /\ UNCHANGED <<world, stream, evidence>>

\* Any of the steps fails: its check, its connection or the deadline.  What may
\* have been published is rolled back, in a session of its own.
Fail ==
    /\ runtime.step \notin {"idle", "verified", "ended"}
    /\ runtime' =
           IF runtime.published /\ ~RollbackMode(runtime.mode)
           THEN [Idle EXCEPT
                    !.step = "resolving", !.before = runtime.before,
                    !.mode = IF runtime.before.file = "prior" THEN "ManagedRollback"
                             ELSE "LegacyRollback"]
           ELSE [Idle EXCEPT !.step = "ended"]
    /\ stream' = <<>>
    /\ UNCHANGED <<world, evidence>>

Next ==
    \/ \E p \in Hyprland :
           \/ Start(p) \/ Stop(p)
           \/ ReloadByItself(p) \/ LoadAsked(p) \/ FinishLoad(p)
    \/ UserEdit \/ TakeRequest
    \/ Begin \/ Pin \/ Drain \/ SendReload \/ Acknowledged \/ WaitForReload
    \/ QueryErrors \/ QueryProvider \/ Confirm
    \/ Publish \/ Restore \/ Verify \/ Fail

Spec == Init /\ [][Next]_vars

-----------------------------------------------------------------------------
(* When the backend finds the entrypoint as it published it.               *)

Exact == runtime.step = "proved" /\ entrypoint = Expected

\* The proof is of one load, of the right file, with the errors and the provider
\* that were asked for, after the stream was drained; whatever was loaded before,
\* meanwhile or by itself.
ProofIsOfTheFile ==
    Exact /\ NonceOf(Expected) # None =>
        \E load \in evidence :
            /\ load.file = Expected
            /\ load.errors \in AcceptedErrors
            /\ load.provider \in AcceptedProviders

\* And Hyprland has loaded that file since, if it still runs.  A file without a
\* nonce is loaded already, or by the reload that was asked for.
ProvenIsLoaded ==
    Exact /\ hyprlands[runtime.pinned].runs =>
        \/ hyprlands[runtime.pinned].loaded.file = Expected
        \/ /\ NonceOf(Expected) = None
           /\ \/ hyprlands[runtime.pinned].asked # None
              \/ /\ hyprlands[runtime.pinned].loading # None
                 /\ hyprlands[runtime.pinned].loading.file = Expected

ReloadsAreProven == TypeOK /\ ProofIsOfTheFile /\ ProvenIsLoaded

=============================================================================
