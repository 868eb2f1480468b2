------------------------ MODULE ManagedActivation ------------------------
(***************************************************************************)
(* One managed activation from the request to its end: the compositor      *)
(* service (CompositorService::completePrepared) prepares a generation     *)
(* with the authority, the activation backend publishes its loader as      *)
(* hyprland.lua behind a durable bridge and has Hyprland reload it, the    *)
(* authority takes the commit decision, and the bridge is finalized to the *)
(* target or rolled back.  Three stores are involved that no operation     *)
(* changes together: the authority's journal, the two directories the      *)
(* publisher changes and the configuration Hyprland has loaded.            *)
(*                                                                         *)
(* Calls are serialized on the service's thread; what interleaves with a   *)
(* call is the user editing hyprland.lua, Hyprland reloading it, process   *)
(* crashes and power losses.  Generation t belongs to transition t: an     *)
(* identifier hashes a manifest with a fresh nonce.  The authority is      *)
(* ConfigurationTransaction seen from outside: what it committed, and      *)
(* whether a transaction is in between.                                    *)
(*                                                                         *)
(* The directories (src/compositord/entrypoint_publisher.cpp) are the      *)
(* configuration directory with the stable entrypoint hyprland.lua, and    *)
(* the managed directory with the ownership record, the live-activation    *)
(* bridge and the loader that is staged for, or was displaced by, an       *)
(* exchange.  `ns` is what every process sees, `survivors` what a power    *)
(* loss may leave.  A rename between the directories is atomic and is made *)
(* durable by a sync of either of them; a sync of one directory promises   *)
(* nothing about operations that touched only the other.  The private      *)
(* temporaries of one metadata write are part of that write.               *)
(***************************************************************************)
EXTENDS Integers

CONSTANTS
    MaxToken,       \* bound: transitions ever prepared
    MaxEdits,       \* bound: times the user changes hyprland.lua
    Missing,        \* no such file
    InitialFiles,   \* what hyprland.lua may be before it is managed
    MayRemove,      \* whether the user may also delete hyprland.lua
    Damaged, Unsafe, None   \* what the preflight may find

VARIABLES
    ns, survivors,  \* the two directories
    authority,  \* the durable authority: committed, pending and phase
    tokens,     \* transitions prepared so far
    committed,  \* LiveActivationBackend::committedGeneration_
    failed,     \* LiveActivationBackend::finalizationFailed_
    expected,   \* the entrypoint an adoption request was bound to
    process,    \* where the service's thread stands
    starting,   \* whether the thread is in initializeAuthority
    loaded,     \* the entrypoint Hyprland has loaded
    edits,      \* edits of hyprland.lua so far
    owned       \* history: user files no edit has removed

namespace == <<ns, survivors>>
memory == <<committed, failed, expected, starting>>
environment == <<loaded, edits, owned>>
vars == <<namespace, authority, tokens, memory, process, environment>>

-----------------------------------------------------------------------------
(* Files are told apart by device and inode as well as by content *)

Token == 1..MaxToken

\* The loader staged by transition t, which loads generation t.
Loader(t) == [kind |-> "loader", id |-> t]

\* The file the user wrote with edit e.
UserFile(e) == [kind |-> "user", id |-> e]

Loaders == {Loader(t) : t \in Token}
UserFiles == {UserFile(e) : e \in 0..MaxEdits}
Entry == Loaders \cup UserFiles \cup {Missing}

OwnershipRecord ==
    [generation: Token, original: UserFiles \cup {Missing}]

\* An empty beforeOwnership is an adoption; before = Missing is beforeAbsent.
BridgeRecord ==
    [phase: {"Staging", "Ready"}, token: Token, before: Entry,
     beforeOwnership: OwnershipRecord \cup {Missing}]

Namespace ==
    [stable: Entry, original: Entry, transition: Entry,
     ownership: OwnershipRecord \cup {Missing},
     bridge: BridgeRecord \cup {Missing}]

ConfigDirectory == {"stable"}
ManagedDirectory == {"original", "transition", "ownership", "bridge"}

\* bridge->swapName: an adoption keeps what it displaces as the original.
SwapName(bridge) ==
    IF bridge.beforeOwnership = Missing THEN "original" ELSE "transition"

BeforeGeneration(bridge) ==
    IF bridge.beforeOwnership = Missing THEN 0
    ELSE bridge.beforeOwnership.generation

-----------------------------------------------------------------------------
(* Directory operations *)

Outcome == {"success", "notPublished", "notDurable"}

Put(s, changes) ==
    [f \in DOMAIN s |-> IF f \in DOMAIN changes THEN changes[f] ELSE s[f]]

\* A rename or an unlink no directory sync has covered yet.
Change(changes) ==
    /\ ns' = Put(ns, changes)
    /\ survivors' = survivors \cup {Put(s, changes) : s \in survivors}

\* What a sync of these entries' directories leaves of `candidates`.
Agreeing(candidates, current, entries) ==
    {s \in candidates : \A f \in entries : s[f] = current[f]}

\* retryFsync.
Sync(entries) ==
    /\ survivors' = Agreeing(survivors, ns, entries)
    /\ UNCHANGED ns

\* publishNoReplace, replaceExact, installCompleteNoReplace, removeAndSync and
\* removeBridgeDurably: one operation on the managed directory and its sync.
Write(changes, outcome) ==
    \/ /\ outcome = "success"
       /\ ns' = Put(ns, changes)
       /\ survivors' =
              Agreeing(survivors \cup {Put(s, changes) : s \in survivors},
                       ns', ManagedDirectory)
    \/ /\ outcome = "notPublished"
       /\ UNCHANGED namespace
    \/ /\ outcome = "notDurable"
       /\ Change(changes)

\* RENAME_EXCHANGE of the entrypoint with the staged or displaced loader; a
\* RENAME_NOREPLACE exchanges it with an absence.
Exchanged(swap) ==
    [f \in {"stable", swap} |-> IF f = "stable" THEN ns[swap] ELSE ns.stable]

Exchange(swap) == Change(Exchanged(swap))

\* The same, with both directories synced.
ExchangeDurably(swap) ==
    /\ ns' = Put(ns, Exchanged(swap))
    /\ survivors' = {ns'}

LoseUnsynced ==
    /\ ns' \in survivors
    /\ survivors' = {ns'}

\* The user's editor replaces or removes hyprland.lua and syncs the directory.
Edit(file) ==
    /\ ns' = [ns EXCEPT !.stable = file]
    /\ survivors' = {[s EXCEPT !.stable = file] :
                         s \in Agreeing(survivors, ns, ConfigDirectory)}

-----------------------------------------------------------------------------
(* What the publisher reads back from a namespace s *)

bridge == ns.bridge
target == authority.pending
swap == SwapName(bridge)

\* exactBefore and exactTarget, on s and its bridge.
ExactBefore(s) == s.stable = s.bridge.before
ExactTarget(s) ==
    s.bridge.phase = "Ready" /\ s.stable = Loader(s.bridge.token)

\* validateOwnershipRecord.
OwnershipValid(record, s) ==
    /\ s.stable = Loader(record.generation)
    /\ record.original # Missing => s.original = record.original

\* AtomicEntrypointPublisher::status.
PublisherStatus(s) ==
    IF s.bridge # Missing THEN "conflict"
    ELSE IF s.ownership = Missing THEN "unmanaged"
    ELSE IF OwnershipValid(s.ownership, s) THEN "managed"
    ELSE "conflict"

\* The publisher is exactly on the side of this committed generation.
StatusMatches(s, generation) ==
    IF generation = 0 THEN PublisherStatus(s) = "unmanaged"
    ELSE /\ PublisherStatus(s) = "managed"
         /\ s.ownership.generation = generation

\* LiveActivationBackend::status does not report a conflict.
BackendExact == ~failed /\ StatusMatches(ns, committed)

\* The ownership record finalize(target) publishes.
TargetOwnership(s) ==
    [generation |-> s.bridge.token,
     original |-> IF s.bridge.beforeOwnership = Missing
                  THEN s.bridge.before
                  ELSE s.bridge.beforeOwnership.original]

\* What finalize(target) requires before it changes anything.
TargetFinalizable(s) ==
    /\ ExactTarget(s)
    /\ \/ s.bridge.before = Missing
       \/ s[SwapName(s.bridge)] = s.bridge.before
       \/ /\ s.bridge.beforeOwnership # Missing
          /\ s[SwapName(s.bridge)] = Missing
          /\ s.ownership = TargetOwnership(s)
    /\ OwnershipValid(TargetOwnership(s), s)
    /\ s.ownership \in {TargetOwnership(s), s.bridge.beforeOwnership}

\* What rollback requires before it changes anything.
RollbackPossible(s) ==
    /\ s.ownership = s.bridge.beforeOwnership
    /\ \/ ExactBefore(s)
       \/ /\ ExactTarget(s)
          /\ \/ s.bridge.before = Missing
             \/ s[SwapName(s.bridge)] = s.bridge.before

\* verifyTransition(before) and the checks finalize(before) repeats.
PriorExact(s) ==
    /\ ExactBefore(s)
    /\ s.ownership = s.bridge.beforeOwnership
    /\ s.ownership # Missing => OwnershipValid(s.ownership, s)

-----------------------------------------------------------------------------
(* Where a call goes when it stops *)

Goto(place) ==
    /\ process' = place
    /\ starting' = (starting /\ place \notin {"ready", "unreconciled"})

\* markUnreconciled: unavailable, with the journals kept for startup.
Unreconciled == Goto("unreconciled")

FinalizationFails ==
    /\ failed' = TRUE
    /\ Unreconciled
    /\ UNCHANGED <<committed, expected>>

-----------------------------------------------------------------------------
(* A request: prepare, then activate *)

\* Apply, Recover or AdoptManagedConfiguration up to a prepared generation.
Prepare ==
    /\ process = "ready"
    /\ tokens < MaxToken
    /\ tokens' = tokens + 1
    /\ authority' = [authority EXCEPT !.pending = tokens + 1,
                                      !.phase = "prepared"]
    /\ expected' = IF committed = 0 THEN ns.stable ELSE Missing
    /\ Goto("prepared")
    /\ UNCHANGED <<namespace, committed, failed, environment>>

\* publishAndActivate up to publish: the status and a prepared runtime.
Activate ==
    /\ process = "prepared"
    /\ \/ BackendExact /\ Goto("publishing")
       \/ Goto("aborting")
    /\ UNCHANGED <<namespace, authority, tokens, committed, failed, expected,
                   environment>>

\* publish: the exact baseline again, then the Staging bridge.
PublishBridge ==
    /\ process = "publishing"
    /\ \E outcome \in Outcome :
        /\ Write([bridge |-> [phase |-> "Staging", token |-> target,
                              before |-> ns.stable,
                              beforeOwnership |-> ns.ownership]], outcome)
        /\ StatusMatches(ns, committed)
        /\ committed = 0 => ns.stable = expected
        /\ Goto(CASE outcome = "success" -> "staging"
                  [] outcome = "notPublished" -> "aborting"
                  [] outcome = "notDurable" -> "rollback")
    /\ expected' = Missing
    /\ UNCHANGED <<authority, tokens, committed, failed, environment>>

PublishRefused ==
    /\ process = "publishing"
    /\ StatusMatches(ns, committed) => committed = 0 /\ ns.stable # expected
    /\ expected' = Missing
    /\ Goto("aborting")
    /\ UNCHANGED <<namespace, authority, tokens, committed, failed,
                   environment>>

\* publish: the candidate loader is installed under the swap name.
StageLoader ==
    /\ process = "staging"
    /\ \E outcome \in Outcome :
        /\ Write([f \in {swap} |-> Loader(target)], outcome)
        /\ Goto(IF outcome = "success" THEN "staged" ELSE "rollback")
    /\ UNCHANGED <<authority, tokens, committed, failed, expected,
                   environment>>

\* Faulty variant: a Ready bridge that may not be durable is relied on.
PublishReadyUnsynced ==
    /\ process = "staged"
    /\ \E outcome \in Outcome :
        /\ Write([bridge |-> [bridge EXCEPT !.phase = "Ready"]], outcome)
        /\ Goto(IF outcome = "notPublished" THEN "rollback" ELSE "probing")
    /\ UNCHANGED <<authority, tokens, committed, failed, expected,
                   environment>>

\* publish: the bridge becomes Ready and binds the staged inode.
PublishReady ==
    /\ process = "staged"
    /\ \E outcome \in Outcome :
        /\ Write([bridge |-> [bridge EXCEPT !.phase = "Ready"]], outcome)
        /\ Goto(IF outcome = "success" THEN "probing" ELSE "rollback")
    /\ UNCHANGED <<authority, tokens, committed, failed, expected,
                   environment>>

\* publish: the last look before the exchange.
ProbeEntrypoint ==
    /\ process = "probing"
    /\ \/ /\ ExactBefore(ns)
          /\ ns.ownership = bridge.beforeOwnership
          /\ Goto("exchanging")
       \/ Goto("rollback")
    /\ UNCHANGED <<namespace, authority, tokens, committed, failed, expected,
                   environment>>

\* publish: RENAME_NOREPLACE onto an absent entrypoint, else RENAME_EXCHANGE.
ExchangeEntrypoint ==
    /\ process = "exchanging"
    /\ \/ /\ bridge.before = Missing <=> ns.stable = Missing
          /\ Exchange(swap)
          /\ Goto("verifying")
       \/ /\ UNCHANGED namespace
          /\ Goto("rollback")
    /\ UNCHANGED <<authority, tokens, committed, failed, expected,
                   environment>>

\* publish: what the exchange displaced must be the object it expected.
VerifyExchange ==
    /\ process = "verifying"
    /\ Goto(CASE ExactTarget(ns) /\ ns[swap] = bridge.before -> "syncing"
              [] /\ ExactTarget(ns) /\ ns[swap] # bridge.before
                 /\ bridge.before # Missing -> "restoring"
              [] OTHER -> "rollback")
    /\ UNCHANGED <<namespace, authority, tokens, committed, failed, expected,
                   environment>>

\* publish: a concurrent replacement goes back to where the user put it.
RestoreDisplaced ==
    /\ process = "restoring"
    /\ \/ ns.stable # Missing /\ Exchange(swap)
       \/ ns.stable # Missing /\ ExchangeDurably(swap)
       \/ UNCHANGED namespace
    /\ Goto("rollback")
    /\ UNCHANGED <<authority, tokens, committed, failed, expected,
                   environment>>

\* publish: the configuration directory, then the managed directory.
SyncExchange ==
    /\ process = "syncing"
    /\ \/ Sync(ConfigDirectory \cup ManagedDirectory) /\ Goto("reloading")
       \/ Sync(ConfigDirectory) /\ Goto("rollback")
       \/ UNCHANGED namespace /\ Goto("rollback")
    /\ UNCHANGED <<authority, tokens, committed, failed, expected,
                   environment>>

\* reloadAndConfirm for the target: only its own nonce is a proof.
ReloadTarget ==
    /\ process = "reloading"
    /\ loaded' \in {loaded, ns.stable}
    /\ \/ loaded' = Loader(target) /\ Goto("proving")
       \/ Goto("rollback")
    /\ UNCHANGED <<namespace, authority, tokens, committed, failed, expected,
                   edits, owned>>

\* verifyTransition(target).
ProveTarget ==
    /\ process = "proving"
    /\ \/ /\ ExactTarget(ns)
          /\ ns.ownership = bridge.beforeOwnership
          /\ Goto("committing")
       \/ Goto("rollback")
    /\ UNCHANGED <<namespace, authority, tokens, committed, failed, expected,
                   environment>>

-----------------------------------------------------------------------------
(* The commit decision *)

\* Faulty variant: a marker that may be visible is treated as absent.
CommitApplyGuessing ==
    /\ process = "committing"
    /\ \/ /\ authority' = [committed |-> target, pending |-> 0,
                            phase |-> "idle"]
          /\ committed' = target
          /\ Goto("finalizing")
       \/ /\ authority' \in {authority, [authority EXCEPT !.phase = "maybe"]}
          /\ Goto("rollback")
          /\ UNCHANGED committed
       \/ /\ authority' = [authority EXCEPT !.phase = "committing"]
          /\ Unreconciled
          /\ UNCHANGED committed
    /\ UNCHANGED <<namespace, tokens, failed, expected, environment>>

\* commitApply and what completePrepared makes of it: a decision that was
\* definitely not published is rolled back, an uncertain one never is.
CommitApply ==
    /\ process = "committing"
    /\ \/ /\ authority' = [committed |-> target, pending |-> 0,
                            phase |-> "idle"]
          /\ committed' = target
          /\ Goto("finalizing")
       \/ /\ UNCHANGED <<authority, committed>>
          /\ Goto("rollback")
       \/ /\ \E phase \in {"maybe", "committing"} :
                 authority' = [authority EXCEPT !.phase = phase]
          /\ Unreconciled
          /\ UNCHANGED committed
    /\ UNCHANGED <<namespace, tokens, failed, expected, environment>>

-----------------------------------------------------------------------------
(* finalize(target) *)

PromoteOwnership ==
    /\ process = "finalizing"
    /\ TargetFinalizable(ns)
    /\ \/ /\ ns.ownership = TargetOwnership(ns)
          /\ Goto("displaced")
          /\ UNCHANGED <<namespace, committed, failed, expected>>
       \/ /\ ns.ownership # TargetOwnership(ns)
          /\ Write([ownership |-> TargetOwnership(ns)], "success")
          /\ Goto("displaced")
          /\ UNCHANGED <<committed, failed, expected>>
       \/ /\ ns.ownership # TargetOwnership(ns)
          /\ \E outcome \in Outcome \ {"success"} :
                 Write([ownership |-> TargetOwnership(ns)], outcome)
          /\ FinalizationFails
    /\ UNCHANGED <<authority, tokens, environment>>

TargetRefused ==
    /\ process = "finalizing"
    /\ ~TargetFinalizable(ns)
    /\ FinalizationFails
    /\ UNCHANGED <<namespace, authority, tokens, environment>>

\* The displaced loader of a managed generation goes; an original stays.
DropDisplaced ==
    /\ process = "displaced"
    /\ \/ /\ bridge.beforeOwnership = Missing \/ ns[swap] = Missing
          /\ Goto("retiring")
          /\ UNCHANGED <<namespace, committed, failed, expected>>
       \/ /\ bridge.beforeOwnership # Missing
          /\ ns[swap] # Missing
          /\ \E outcome \in Outcome :
                /\ Write([f \in {swap} |-> Missing], outcome)
                /\ IF outcome = "success"
                   THEN /\ Goto("retiring")
                        /\ UNCHANGED <<committed, failed, expected>>
                   ELSE FinalizationFails
    /\ UNCHANGED <<authority, tokens, environment>>

\* removeBridgeDurably, and the exact re-probe of the finalized state.
RetireTarget ==
    /\ process = "retiring"
    /\ \E outcome \in Outcome :
        /\ Write([bridge |-> Missing], outcome)
        /\ IF outcome = "success" /\ StatusMatches(ns', committed)
           THEN /\ Goto("ready")
                /\ UNCHANGED <<committed, failed, expected>>
           ELSE FinalizationFails
    /\ UNCHANGED <<authority, tokens, environment>>

-----------------------------------------------------------------------------
(* LiveActivationBackend::rollback *)

\* The receipt, the committed prior side, a prepared runtime and an exact
\* side of the bridge; an entrypoint already on the prior side stays as it is.
BeginRollback ==
    /\ process = "rollback"
    /\ \/ /\ bridge # Missing
          /\ BeforeGeneration(bridge) = committed
          /\ RollbackPossible(ns)
          /\ Goto(IF ExactBefore(ns) THEN "reloadingPrior" ELSE "switching")
       \/ Unreconciled
    /\ UNCHANGED <<namespace, authority, tokens, committed, failed, expected,
                   environment>>

\* rollback: unlink an adopted absence, else exchange back.
SwitchBack ==
    /\ process = "switching"
    /\ \/ /\ ns.stable # Missing
          /\ IF bridge.before = Missing THEN Change([stable |-> Missing])
             ELSE Exchange(swap)
          /\ Goto("switched")
       \/ /\ UNCHANGED namespace
          /\ Unreconciled
    /\ UNCHANGED <<authority, tokens, committed, failed, expected,
                   environment>>

\* rollback: both directories, then the exact prior side again.
SyncSwitch ==
    /\ process = "switched"
    /\ \/ /\ Sync(ConfigDirectory \cup ManagedDirectory)
          /\ IF ExactBefore(ns) /\ ns.ownership = bridge.beforeOwnership
             THEN Goto("reloadingPrior") ELSE Unreconciled
       \/ Sync(ConfigDirectory) /\ Unreconciled
       \/ UNCHANGED namespace /\ Unreconciled
    /\ UNCHANGED <<authority, tokens, committed, failed, expected,
                   environment>>

\* reloadAndConfirm for the prior side: a managed loader proves its nonce,
\* an unmanaged baseline only that Hyprland reloaded.
ReloadPrior ==
    /\ process = "reloadingPrior"
    /\ loaded' \in {loaded, ns.stable}
    /\ \/ /\ loaded' = ns.stable
          /\ bridge.beforeOwnership # Missing => loaded' = bridge.before
          /\ Goto("provingPrior")
       \/ Unreconciled
    /\ UNCHANGED <<namespace, authority, tokens, committed, failed, expected,
                   edits, owned>>

ProvePrior ==
    /\ process = "provingPrior"
    /\ IF PriorExact(ns) THEN Goto("discarding") ELSE Unreconciled
    /\ UNCHANGED <<namespace, authority, tokens, committed, failed, expected,
                   environment>>

\* Faulty variant: whatever has the candidate's name is removed.
DropCandidateUnchecked ==
    /\ process = "discarding"
    /\ \/ /\ PriorExact(ns)
          /\ \E outcome \in Outcome :
                /\ Write([f \in {swap} |-> Missing], outcome)
                /\ IF outcome = "success" THEN Goto("retiringPrior")
                   ELSE Unreconciled
       \/ /\ ~PriorExact(ns)
          /\ UNCHANGED namespace
          /\ Unreconciled
    /\ UNCHANGED <<authority, tokens, committed, failed, expected,
                   environment>>

\* finalize(before): only the exact staged candidate is removed.
DropCandidate ==
    /\ process = "discarding"
    /\ \/ /\ PriorExact(ns)
          /\ ns[swap] = Missing
          /\ UNCHANGED namespace
          /\ Goto("retiringPrior")
       \/ /\ PriorExact(ns)
          /\ ns[swap] = Loader(bridge.token)
          /\ \E outcome \in Outcome :
                /\ Write([f \in {swap} |-> Missing], outcome)
                /\ IF outcome = "success" THEN Goto("retiringPrior")
                   ELSE Unreconciled
       \/ /\ PriorExact(ns) => ns[swap] \notin {Missing, Loader(bridge.token)}
          /\ UNCHANGED namespace
          /\ Unreconciled
    /\ UNCHANGED <<authority, tokens, committed, failed, expected,
                   environment>>

\* removeBridgeDurably; then the call aborts, a startup is done.
RetirePrior ==
    /\ process = "retiringPrior"
    /\ \E outcome \in Outcome :
        /\ Write([bridge |-> Missing], outcome)
        /\ IF outcome = "success" /\ StatusMatches(ns', committed)
           THEN Goto(IF starting THEN "ready" ELSE "aborting")
           ELSE Unreconciled
    /\ UNCHANGED <<authority, tokens, committed, failed, expected,
                   environment>>

\* abortApply: a failure leaves the prepared journal for startup.
AbortApply ==
    /\ process = "aborting"
    /\ expected' = Missing
    /\ \/ /\ authority' = [authority EXCEPT !.pending = 0, !.phase = "idle"]
          /\ Goto("ready")
       \/ /\ UNCHANGED authority
          /\ Unreconciled
    /\ UNCHANGED <<namespace, tokens, committed, failed, environment>>

-----------------------------------------------------------------------------
(* Startup *)

\* The authority's own reconciliation: roll a decision forward, drop the rest.
Reconciled(a) ==
    [committed |-> IF a.phase \in {"maybe", "committing"} THEN a.pending
                   ELSE a.committed,
     pending |-> 0, phase |-> "idle"]

\* Faulty variant: a start syncs only the managed directory.
InitializeManagedOnly ==
    /\ process = "down"
    /\ Sync(ManagedDirectory)
    /\ authority' = Reconciled(authority)
    /\ process' = "reconciling"
    /\ starting' = TRUE
    /\ UNCHANGED <<tokens, committed, failed, expected, environment>>

\* initializeAuthority up to the backend: opening the roots syncs the
\* configuration and the managed directory before the authority reconciles.  A
\* failure, also between the two syncs, ends the process.
Initialize ==
    /\ process = "down"
    /\ \/ /\ Sync(ConfigDirectory \cup ManagedDirectory)
          /\ authority' = Reconciled(authority)
          /\ process' = "reconciling"
          /\ starting' = TRUE
       \/ /\ \E entries \in {ConfigDirectory, ConfigDirectory \cup ManagedDirectory} :
                 Sync(entries)
          /\ UNCHANGED <<authority, process, starting>>
    /\ UNCHANGED <<tokens, committed, failed, expected, environment>>

\* reconcileStartup: the bridge's side the authority committed decides.
ReconcileStartup ==
    /\ process = "reconciling"
    /\ committed' = authority.committed
    /\ Goto(IF bridge = Missing
            THEN IF StatusMatches(ns, authority.committed)
                 THEN "ready" ELSE "unreconciled"
            ELSE IF bridge.token = authority.committed THEN "finalizing"
            ELSE IF BeforeGeneration(bridge) = authority.committed
                 THEN "rollback" ELSE "unreconciled")
    /\ UNCHANGED <<namespace, authority, tokens, failed, expected,
                   environment>>

-----------------------------------------------------------------------------
(* The environment *)

Stop ==
    /\ process' = "down"
    /\ committed' = 0
    /\ failed' = FALSE
    /\ expected' = Missing
    /\ starting' = FALSE

Crash ==
    /\ process # "down"
    /\ Stop
    /\ UNCHANGED <<namespace, authority, tokens, environment>>

\* A marker that was visible without a directory sync may be gone.
PowerLoss ==
    /\ Stop
    /\ LoseUnsynced
    /\ \/ UNCHANGED authority
       \/ /\ authority.phase = "maybe"
          /\ authority' = [authority EXCEPT !.phase = "prepared"]
    /\ loaded' = ns'.stable
    /\ UNCHANGED <<tokens, edits, owned>>

\* Hyprland reloads hyprland.lua of its own, or a session starts.
HyprlandLoads ==
    /\ loaded' = ns.stable
    /\ UNCHANGED <<namespace, authority, tokens, memory, process, edits, owned>>

\* The user replaces or deletes whatever hyprland.lua is at that moment.
EditEntrypoint ==
    /\ edits < MaxEdits
    /\ edits' = edits + 1
    /\ \E file \in {UserFile(edits + 1)}
                     \cup (IF MayRemove THEN {Missing} ELSE {}) :
        /\ Edit(file)
        /\ owned' = (owned \ {ns.stable}) \cup ({file} \ {Missing})
    /\ UNCHANGED <<authority, tokens, memory, process, loaded>>

-----------------------------------------------------------------------------

Init ==
    /\ loaded \in InitialFiles
    /\ ns = [stable |-> loaded, original |-> Missing,
             transition |-> Missing, ownership |-> Missing,
             bridge |-> Missing]
    /\ survivors = {ns}
    /\ authority = [committed |-> 0, pending |-> 0, phase |-> "idle"]
    /\ tokens = 0
    /\ committed = 0
    /\ failed = FALSE
    /\ expected = Missing
    /\ process = "down"
    /\ starting = FALSE
    /\ edits = 0
    /\ owned = {loaded} \ {Missing}

Publish ==
    \/ PublishBridge \/ PublishRefused \/ StageLoader \/ PublishReady
    \/ ProbeEntrypoint \/ ExchangeEntrypoint \/ VerifyExchange
    \/ RestoreDisplaced \/ SyncExchange

Finalize ==
    PromoteOwnership \/ TargetRefused \/ DropDisplaced \/ RetireTarget

Rollback ==
    \/ BeginRollback \/ SwitchBack \/ SyncSwitch \/ ReloadPrior \/ ProvePrior
    \/ DropCandidate \/ RetirePrior

\* Every step of the service itself.
Service ==
    \/ Prepare \/ Activate \/ Publish \/ ReloadTarget \/ ProveTarget
    \/ CommitApply \/ Finalize \/ Rollback \/ AbortApply
    \/ Initialize \/ ReconcileStartup

Next == Service \/ Crash \/ PowerLoss \/ HyprlandLoads \/ EditEntrypoint

Spec == Init /\ [][Next]_vars

\* The same, where an entrypoint that was absent sees no editor.
NextWhereKept ==
    \/ Service \/ Crash \/ PowerLoss \/ HyprlandLoads
    \/ owned # {} /\ EditEntrypoint

SpecWhereKept == Init /\ [][NextWhereKept]_vars

-----------------------------------------------------------------------------
(* Properties *)

Process ==
    {"down", "ready", "unreconciled", "prepared", "publishing", "staging",
     "staged", "probing", "exchanging", "verifying", "restoring", "syncing",
     "reloading", "proving", "committing", "finalizing", "displaced",
     "retiring", "rollback", "switching", "switched", "reloadingPrior",
     "provingPrior", "discarding", "retiringPrior", "aborting",
     "reconciling"}

\* The state has the shape of the code's records (entrypoint_publisher.cpp).
TypeOK ==
    /\ ns \in Namespace
    /\ survivors \subseteq Namespace
    /\ ns \in survivors
    /\ authority \in [committed: 0..MaxToken, pending: 0..MaxToken,
                      phase: {"idle", "prepared", "maybe", "committing"}]
    /\ tokens \in 0..MaxToken
    /\ committed \in 0..MaxToken
    /\ failed \in BOOLEAN
    /\ expected \in Entry
    /\ process \in Process
    /\ starting \in BOOLEAN
    /\ loaded \in Entry
    /\ edits \in 0..MaxEdits
    /\ owned \subseteq UserFiles

\* No file the user wrote disappears unless the user removes it: it stays the
\* entrypoint or is kept as the adopted original or under a swap name, also
\* after a power loss (publish's exchange back, finalize's exact removals).
UserFilesPreserved ==
    \A s \in survivors : \A file \in owned :
        file \in {s.stable, s.original, s.transition}

\* The decision of generation t may exist.
Decided(t) ==
    \/ authority.committed = t
    \/ authority.pending = t /\ authority.phase \in {"maybe", "committing"}

\* A loader whose generation was never committed is only ever the entrypoint
\* together with the bridge that leads back from it, so that startup can tell
\* it from a committed one (rollback restores the exact prior bytes or absence
\* before the journal goes).
UncommittedLoaderIsJournalled ==
    \A s \in survivors : \A t \in Token :
        s.stable = Loader(t) /\ ~Decided(t) =>
            s.bridge # Missing /\ s.bridge.token = t

\* The authority states the next startup may find.
StartupAuthorities ==
    {Reconciled(authority)} \cup
    (IF authority.phase = "maybe"
     THEN {Reconciled([authority EXCEPT !.phase = "prepared"])} ELSE {})

\* No crash or power loss at any point leaves an uncommitted loader without
\* its journal; and as long as the user leaves hyprland.lua alone, none strands
\* the configuration: startup finds the committed side settled, or a bridge it
\* can finalize or roll back (reconcileStartup).
CrashStatesReconcilable ==
    /\ UncommittedLoaderIsJournalled
    /\ edits = 0 =>
           \A s \in survivors : \A a \in StartupAuthorities :
               IF s.bridge = Missing THEN StatusMatches(s, a.committed)
               ELSE IF s.bridge.token = a.committed THEN TargetFinalizable(s)
               ELSE /\ BeforeGeneration(s.bridge) = a.committed
                    /\ RollbackPossible(s)

\* A service that reports a settled state has Hyprland running exactly the
\* committed generation, or before any commit no generation at all: rollback
\* proves the prior side live even when it is in place already.
RunningIsCommitted ==
    process = "ready" /\ BackendExact =>
        IF committed = 0 THEN loaded \notin Loaders
        ELSE loaded = Loader(committed)

\* A service that accepts requests runs what is committed and has nothing half
\* done behind it: no bridge and no staged or displaced loader in any
\* namespace, no transaction of the authority, and the backend bound to what
\* the authority committed (completePrepared's error paths).
ReadyIsSettled ==
    /\ RunningIsCommitted
    /\ process = "ready" =>
        /\ \A s \in survivors :
               /\ s.bridge = Missing /\ s.transition = Missing
               /\ s.original \in UserFiles => committed # 0
        /\ authority = [committed |-> committed, pending |-> 0,
                        phase |-> "idle"]
        /\ ~failed

\* What a crash leaves can be settled, and a ready service has it settled.
JournalsSettle == CrashStatesReconcilable /\ ReadyIsSettled

\* Once a decision may exist the service never takes its loader away again
\* except for a newer one; completePrepared rolls back only what was
\* definitely not decided.
DecisionNeverRolledBack ==
    [][\A t \in Token :
          Decided(t) /\ ns.stable = Loader(t) /\ Service =>
              ns'.stable \in {Loader(u) : u \in t..MaxToken}]_vars

-----------------------------------------------------------------------------
(***************************************************************************)
(* What the version 1 preflight makes of the authority's records and the   *)
(* entrypoint's records taken together, wherever an activation is          *)
(* interrupted.  Here one only knows what the authority committed and      *)
(* whether a transaction is in between; the records it would have on disk  *)
(* are derived from that: generation t renders revision t and is applied   *)
(* by an ordinary Apply.                                                   *)
(***************************************************************************)
Preflight == INSTANCE ReachableV1Preflight
    WITH NewerContent <- {}, MaxRevision <- MaxToken

-----------------------------------------------------------------------------
(* The authority's files for an authority state a *)

RevisionOf(t) == [revision |-> t, content |-> "any", catalog |-> "any"]
AppliedRecordOf(t) == [snapshot |-> RevisionOf(t), nonce |-> t]

\* The files of generation t as last known good: none before the first.
LastGoodOf(t) == IF t = 0 THEN Missing ELSE RevisionOf(t)
ActivationOf(t) == IF t = 0 THEN Missing ELSE AppliedRecordOf(t)

JournalOf(a) ==
    [kind |-> "Apply",
     phase |-> IF a.phase = "prepared" THEN "Prepared" ELSE "Committing",
     beforeDesired |-> RevisionOf(a.pending),
     after |-> AppliedRecordOf(a.pending),
     before |-> IF a.committed = 0 THEN None ELSE AppliedRecordOf(a.committed)]

\* The mirrors may be any number of writes into the commit once the decision
\* is durable; <<last known good, activation>>.
MirrorsOf(a) ==
    {<<a.committed, a.committed>>}
    \cup (IF a.phase = "committing"
          THEN {<<a.pending, a.committed>>, <<a.pending, a.pending>>} ELSE {})

\* A marker that is visible without a sync may be there or not.
FoundAuthorities ==
    {authority} \cup
    (IF authority.phase = "maybe"
     THEN {[authority EXCEPT !.phase = "prepared"],
           [authority EXCEPT !.phase = "committing"]} ELSE {})

CapturedWith(s, a, mirrors) ==
    LET reads ==
            [desired |-> RevisionOf(IF a.pending = 0 THEN a.committed
                                    ELSE a.pending),
             lastGood |-> LastGoodOf(mirrors[1]),
             applied |-> ActivationOf(mirrors[2]),
             pending |-> IF a.phase = "idle" THEN Missing ELSE JournalOf(a),
             ownership |-> s.ownership, bridge |-> s.bridge,
             evidence |-> {}, verified |-> {AppliedRecordOf(t) : t \in Token}]
    IN  [reads EXCEPT
             !.evidence = {AppliedRecordOf(t) : t \in Preflight!Identities(reads)}]

-----------------------------------------------------------------------------

\* Whatever a crash or a power loss leaves of an activation, the preflight
\* recognizes it and selects the side of the bridge the next start reconciles
\* to; it looks at no file the user can change.
InterruptedActivationsUnderstood ==
    \A s \in survivors, a \in FoundAuthorities :
        \A mirrors \in MirrorsOf(a) :
            LET input == CapturedWith(s, a, mirrors)
                generation == Preflight!EntrypointGeneration(input)
            IN  /\ Preflight!Disposition(input)
                       = "ByteCoherentNeedsEntrypointQualification"
                /\ (IF generation = None THEN 0 ELSE generation)
                       = Reconciled(a).committed

=============================================================================
