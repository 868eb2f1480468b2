------------------------- MODULE UserPackageStore -------------------------
(***************************************************************************)
(* The third-party packages of one user: a receipt per component, a tree   *)
(* per version, and the component manager that installs, replaces, removes *)
(* and recovers them.  The receipt is the commit record: a package is      *)
(* installed when its receipt is readable and the tree of the version it   *)
(* names holds exactly the receipt's files.                                *)
(*                                                                         *)
(* The manager is single-threaded and holds the store's lease, so requests *)
(* do not overlap; it can be killed between any two of the renames, writes *)
(* and deletions of a request, each of which may also fail.  A deletion is *)
(* recursive: one that fails leaves the tree whole or partly removed.      *)
(* What is staged or trashed is never read by a later process and is not   *)
(* part of the state, except for a tree that may still be put back.        *)
(***************************************************************************)
EXTENDS Naturals, FiniteSets

CONSTANTS
    Component,      \* ids of user components
    Version,
    Package,        \* what can be installed: [id, version, digest] records
    Needs,          \* Package -> ids of the components it depends on
    CatalogRoom,    \* user packages the combined catalog has room for
    MaxReceipts,    \* receipts the store accepts
    None,
    Unreadable,     \* a receipt that does not parse or names another id
    Partial,        \* a tree that fails validation against every package
    UndoMayFail     \* whether putting a retired receipt back may fail

ASSUME PackageAssumption ==
    /\ \A p \in Package : p.id \in Component /\ p.version \in Version
    /\ Needs \in [Package -> SUBSET Component]
    /\ {None, Unreadable, Partial} \cap Package = {}
    /\ None # Unreadable /\ None # Partial
ASSUME LimitAssumption ==
    /\ CatalogRoom \in Nat /\ MaxReceipts \in Nat
    /\ CatalogRoom <= MaxReceipts
    /\ UndoMayFail \in BOOLEAN

VARIABLES
    \* the disk
    receipts,       \* receipts/<id>.json
    trees,          \* <id>/versions/<version>
    \* the manager
    step,           \* where the manager stands
    catalog,        \* the user entries of catalog_
    request,        \* the request that is under way
    loaded,         \* load() at its start: currentCatalog, loaded
    published,      \* publishedDestination
    retired,        \* what retiredDestination holds
    todo,           \* components recover() has yet to visit
    answer          \* history: how the last request ended

disk == <<receipts, trees>>
transaction == <<request, loaded, published, retired>>
vars == <<disk, step, catalog, transaction, todo, answer>>

Request == [kind: {"install", "remove"}, package: Package]
\* A manager without a request has none.
ASSUME RequestAssumption == None \notin Request
Wanted(r) == IF r.kind = "install" THEN r.package ELSE None

\* load(): the packages whose receipt and tree agree.
Installed ==
    [c \in Component |->
        IF /\ receipts[c] \in Package
           /\ trees[c][receipts[c].version] = receipts[c]
        THEN receipts[c] ELSE None]

Count(entries) == Cardinality({c \in Component : entries[c] # None})

DependentsOf(c, entries) ==
    {d \in Component \ {c} : entries[d] # None /\ c \in Needs[entries[d]]}

\* What removePathEntry leaves of the versions that are not kept.
Swept(versions, kept) ==
    {left \in [Version -> {None, Partial} \cup {versions[v] : v \in Version}] :
        \A v \in Version :
            IF v \in kept \/ versions[v] = None THEN left[v] = versions[v]
            ELSE left[v] \in {None, Partial, versions[v]}}

Goto(next) ==
    /\ step' = next
    /\ UNCHANGED <<catalog, transaction, todo, answer>>

\* The end of a request; its answer is sent.
Finish(result) ==
    /\ step' = "idle"
    /\ answer' = result
    /\ request' = None /\ loaded' = None
    /\ published' = FALSE /\ retired' = None

-----------------------------------------------------------------------------
(* Start: recover, then initializePackageManagement *)

\* The transaction directories are emptied first; a failure leaves the
\* manager without a user store.
Start ==
    /\ step = "down"
    /\ \/ step' = "recovering" /\ todo' = Component
       \/ step' = "unavailable" /\ UNCHANGED todo
    /\ UNCHANGED <<disk, catalog, transaction, answer>>

\* pruneInactiveVersions: nothing is removed when the version to keep is
\* missing.
Pruned(c, version) ==
    IF trees[c][version] = None THEN {trees[c]}
    ELSE Swept(trees[c], {version})

\* Faulty variant of RecoverComponent: the receipts are not looked at.
RecoverWithoutReceipts(c) ==
    /\ step = "recovering"
    /\ c \in todo
    /\ todo' = todo \ {c}
    /\ \E left \in Swept(trees[c], {}) : trees' = [trees EXCEPT ![c] = left]
    /\ UNCHANGED <<receipts, step, catalog, transaction, answer>>

RecoverComponent(c) ==
    /\ step = "recovering"
    /\ c \in todo
    /\ todo' = todo \ {c}
    /\ \E left \in IF receipts[c] = None THEN Swept(trees[c], {})
                   ELSE IF receipts[c] = Unreadable THEN {trees[c]}
                   ELSE Pruned(c, receipts[c].version) :
           trees' = [trees EXCEPT ![c] = left]
    /\ UNCHANGED <<receipts, step, catalog, transaction, answer>>

\* reloadUserCatalog: all of the user packages, or none when they do not fit.
Reloaded == IF Count(Installed) <= CatalogRoom THEN Installed
            ELSE [c \in Component |-> None]

Initialize ==
    /\ step = "recovering"
    /\ todo = {}
    /\ step' = "idle"
    /\ catalog' = Reloaded
    /\ UNCHANGED <<disk, transaction, todo, answer>>

Begin(kind, package, next) ==
    /\ step' = next
    /\ request' = [kind |-> kind, package |-> package]
    /\ loaded' = Installed
    /\ answer' = "none"
    /\ UNCHANGED <<disk, catalog, published, retired, todo>>

-----------------------------------------------------------------------------
(* InstallInspectedPackage *)

InstallInspectedPackage(p) ==
    /\ step = "idle"
    /\ catalog[p.id] = None => Count(catalog) < CatalogRoom
    /\ Begin("install", p, "admitting")

HasReceipt == {c \in Component : receipts[c] # None}

\* The receipt of the component, if it is readable.
SameVersionOtherBytes(p) ==
    /\ receipts[p.id] \in Package
    /\ receipts[p.id].version = p.version
    /\ receipts[p.id] # p

StoreFull(p) ==
    /\ p.id \notin HasReceipt
    /\ Cardinality(HasReceipt) >= MaxReceipts

\* Faulty variant of Admit: a receipt with the same digest counts as an
\* installed package, whatever its tree holds.
AdmitByReceipt ==
    /\ step = "admitting"
    /\ LET p == request.package IN
       Goto(IF SameVersionOtherBytes(p) \/ StoreFull(p) THEN "failed"
            ELSE IF receipts[p.id] = p THEN "pruning" ELSE "publishing")
    /\ UNCHANGED disk

\* The first disjunct is a directory that is not private, a bundle that is not
\* there or bytes that do not fit beside those of the packages loaded; install
\* keeps them within the 512 MiB, so that load() leaves none out for its size.
Admit ==
    /\ step = "admitting"
    /\ \/ Goto("failed")
       \/ LET p == request.package IN
          Goto(IF SameVersionOtherBytes(p) \/ StoreFull(p) THEN "failed"
               ELSE IF loaded[p.id] = p THEN "pruning" ELSE "publishing")
    /\ UNCHANGED disk

\* Faulty variant of Publish: a version directory that exists is not checked.
PublishUnchecked ==
    /\ step = "publishing"
    /\ LET p == request.package IN
       IF trees[p.id][p.version] # None
       THEN Goto("committing") /\ UNCHANGED disk
       ELSE /\ trees' = [trees EXCEPT ![p.id][p.version] = p]
            /\ published' = TRUE
            /\ step' = "committing"
            /\ UNCHANGED <<receipts, catalog, request, loaded, retired, todo,
                           answer>>

\* The bundle is staged and checked, then renamed into place; a tree that
\* already holds the package is used as it is, any other is retired first.
Publish ==
    /\ step = "publishing"
    /\ LET p == request.package
           destination == trees[p.id][p.version] IN
       \/ Goto("failed") /\ UNCHANGED disk
       \/ destination = p /\ Goto("committing") /\ UNCHANGED disk
       \/ /\ destination = None
          /\ trees' = [trees EXCEPT ![p.id][p.version] = p]
          /\ published' = TRUE
          /\ step' = "committing"
          /\ UNCHANGED <<receipts, catalog, request, loaded, retired, todo,
                         answer>>
       \/ /\ destination \notin {p, None}
          /\ trees' = [trees EXCEPT ![p.id][p.version] = None]
          /\ retired' = destination
          /\ step' = "repairing"
          /\ UNCHANGED <<receipts, catalog, request, loaded, published, todo,
                         answer>>

Repair ==
    /\ step = "repairing"
    /\ LET p == request.package IN
       \/ /\ trees' = [trees EXCEPT ![p.id][p.version] = p]
          /\ published' = TRUE
          /\ step' = "committing"
          /\ UNCHANGED <<receipts, catalog, request, loaded, retired, todo,
                         answer>>
       \/ Goto("reinstating") /\ UNCHANGED disk

\* writeReceipt replaces the receipt in one rename.
WriteReceipt ==
    /\ step = "committing"
    /\ \/ /\ receipts' = [receipts EXCEPT ![request.package.id] =
                              request.package]
          /\ Goto("pruning")
          /\ UNCHANGED trees
       \/ Goto(IF published THEN "unpublishing" ELSE "failed") /\ UNCHANGED disk

Unpublish ==
    /\ step = "unpublishing"
    /\ LET p == request.package IN
       \E left \in {None, Partial, trees[p.id][p.version]} :
           trees' = [trees EXCEPT ![p.id][p.version] = left]
    /\ Goto(IF retired # None THEN "reinstating" ELSE "failed")
    /\ UNCHANGED receipts

\* The retired tree is renamed back, if nothing is in its place.
Reinstate ==
    /\ step = "reinstating"
    /\ LET p == request.package IN
       \E left \in {trees[p.id][p.version]} \cup
                   (IF trees[p.id][p.version] = None THEN {retired} ELSE {}) :
           trees' = [trees EXCEPT ![p.id][p.version] = left]
    /\ Goto("failed")
    /\ UNCHANGED receipts

Prune ==
    /\ step = "pruning"
    /\ LET p == request.package IN
       \E left \in Pruned(p.id, p.version) :
           trees' = [trees EXCEPT ![p.id] = left]
    /\ Goto("accepting")
    /\ UNCHANGED receipts

-----------------------------------------------------------------------------
(* RemovePackage *)

RemovePackage(c) ==
    /\ step = "idle"
    /\ catalog[c] # None
    /\ DependentsOf(c, catalog) = {}
    /\ Begin("remove", catalog[c], "retiring")

RetireReceipt ==
    /\ step = "retiring"
    /\ LET p == request.package IN
       \/ Goto("failed") /\ UNCHANGED disk
       \/ /\ loaded[p.id] = p
          /\ DependentsOf(p.id, loaded) = {}
          /\ receipts' = [receipts EXCEPT ![p.id] = None]
          /\ Goto("emptying")
          /\ UNCHANGED trees

RetireTrees ==
    /\ step = "emptying"
    /\ \/ /\ trees' = [trees EXCEPT ![request.package.id] =
                           [v \in Version |-> None]]
          /\ Goto("accepting")
       \/ Goto("restoring") /\ UNCHANGED trees
    /\ UNCHANGED receipts

\* Faulty variant of RestoreReceipt: the receipt stays in the trash.
LeaveReceipt ==
    /\ step = "restoring"
    /\ Goto("failed")
    /\ UNCHANGED disk

\* The receipt is renamed back; the result of that rename is not looked at.
RestoreReceipt ==
    /\ step = "restoring"
    /\ \/ receipts' = [receipts EXCEPT ![request.package.id] =
                           request.package]
       \/ UndoMayFail /\ UNCHANGED receipts
    /\ Goto("failed")
    /\ UNCHANGED trees

-----------------------------------------------------------------------------
(* The answer: acceptUserCatalog *)

\* Faulty variant of Entries: the entry is not replaced.
EntriesAsLoaded == loaded

\* The entries load() found, with the one the request was about replaced.
Entries == [loaded EXCEPT ![request.package.id] = Wanted(request)]

Accept ==
    /\ step = "accepting"
    /\ IF Count(Entries) <= CatalogRoom
       THEN catalog' = Entries /\ Finish("success")
       ELSE UNCHANGED catalog /\ Finish("failure")
    /\ UNCHANGED <<disk, todo>>

AnswerFailure ==
    /\ step = "failed"
    /\ Finish("failure")
    /\ UNCHANGED <<disk, catalog, todo>>

-----------------------------------------------------------------------------
(* The world around the manager *)

Crash ==
    /\ step # "down"
    /\ step' = "down"
    /\ catalog' = [c \in Component |-> None]
    /\ request' = None /\ loaded' = None
    /\ published' = FALSE /\ retired' = None
    /\ todo' = {}
    /\ answer' = "lost"
    /\ UNCHANGED disk

\* A receipt or a tree is edited or deleted from outside, between requests.
Damage(c) ==
    /\ step \in {"down", "idle", "unavailable"}
    /\ \/ /\ receipts[c] \in Package
          /\ receipts' = [receipts EXCEPT ![c] = Unreadable]
          /\ UNCHANGED trees
       \/ /\ \E v \in Version, left \in {None, Partial} :
                 /\ trees[c][v] # None
                 /\ trees' = [trees EXCEPT ![c][v] = left]
          /\ UNCHANGED receipts
    /\ UNCHANGED <<step, catalog, transaction, todo, answer>>

Init ==
    /\ receipts = [c \in Component |-> None]
    /\ trees = [c \in Component |-> [v \in Version |-> None]]
    /\ step = "down"
    /\ catalog = [c \in Component |-> None]
    /\ request = None /\ loaded = None
    /\ published = FALSE /\ retired = None
    /\ todo = {}
    /\ answer = "lost"

Install ==
    \/ Admit \/ Publish \/ Repair \/ WriteReceipt
    \/ Unpublish \/ Reinstate \/ Prune
Removal == RetireReceipt \/ RetireTrees \/ RestoreReceipt

Next ==
    \/ Start
    \/ \E c \in Component : RecoverComponent(c)
    \/ Initialize
    \/ \E p \in Package : InstallInspectedPackage(p)
    \/ Install
    \/ \E c \in Component : RemovePackage(c)
    \/ Removal
    \/ Accept
    \/ AnswerFailure
    \/ Crash

Spec == Init /\ [][Next]_vars

\* Someone else edits the store as well.
DamagedNext == Next \/ \E c \in Component : Damage(c)
DamagedSpec == Init /\ [][DamagedNext]_vars

-----------------------------------------------------------------------------
(* Properties *)

\* Every variable keeps its type.
TypeOK ==
    /\ receipts \in [Component -> Package \cup {None, Unreadable}]
    /\ trees \in [Component -> [Version -> Package \cup {None, Partial}]]
    /\ step \in {"down", "recovering", "unavailable", "idle", "admitting",
                 "publishing", "repairing", "committing", "unpublishing",
                 "reinstating", "pruning", "retiring", "emptying",
                 "restoring", "accepting", "failed"}
    /\ catalog \in [Component -> Package \cup {None}]
    /\ request \in Request \cup {None}
    /\ loaded \in [Component -> Package \cup {None}] \cup {None}
    /\ published \in BOOLEAN
    /\ retired \in Package \cup {None, Partial}
    /\ todo \subseteq Component
    /\ answer \in {"none", "success", "failure", "lost"}

\* A receipt never names a tree that is missing or holds other bytes, at
\* whatever step the manager is killed: install publishes the tree before
\* the receipt and prunes after it, remove retires the receipt before the
\* tree, and recover deletes only what no receipt names.
ReceiptHasItsTree ==
    \A c \in Component : receipts[c] # None => Installed[c] = receipts[c]

\* Between requests the catalog the manager serves is what a restart would
\* serve: neither a failed request nor a successful one leaves catalog_ behind
\* the disk, and no request stores one package too many, which would hide all
\* user packages at the next start (reloadUserCatalog).
ServedIsStored == step = "idle" => catalog = Reloaded

\* What install and remove hand to acceptUserCatalog, computed from a load()
\* at their start, is what a load() finds at their end: the reinstallation of
\* a damaged package that is answered with success has repaired it, and the
\* receipts, those of packages the catalog leaves out included, are not more
\* than load() accepts.
AcceptedIsStored ==
    step = "accepting" =>
        /\ Entries = Installed
        /\ Cardinality(HasReceipt) <= MaxReceipts

\* Whatever is damaged, a step of the manager changes the installed package
\* of no component but the one its request names, and a start changes none.
OnlyTheRequestedChanges ==
    [][\A c \in Component :
           step \notin {"down", "idle", "unavailable"}
               /\ Installed'[c] # Installed[c]
           => request # None /\ request.package.id = c]_vars

\* The store implements the atomic catalog: the receipt is what counts.
Atomic == INSTANCE PackageCatalog WITH
    installed <- Installed, before <- loaded
ImplementsPackageCatalog == Atomic!Spec
=============================================================================
