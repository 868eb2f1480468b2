-------------------------- MODULE GenerationStore --------------------------
(***************************************************************************)
(* The directory of immutable generations: publish stages a tree beside    *)
(* those that are there and renames it to its nonce, initialize removes    *)
(* what an interrupted publication left, and creates user-custom.lua.      *)
(* ConfigurationTransaction takes a publication for one step.              *)
(*                                                                         *)
(* A nonce is random and published at most once.  A tree has files in two  *)
(* directories; of a file it is told whether its contents are whole.       *)
(***************************************************************************)
EXTENDS Naturals, Sequences, FiniteSets

CONSTANTS
    None,
    Nonce,
    MaxFaults           \* bound on crashes, power losses and calls that fail

VARIABLES
    trees,          \* Nonce -> its staged and its published tree
    survivors,      \* what a power loss may leave of trees
    custom,         \* user-custom.lua
    store,          \* where the store stands, with which nonce
    uncertain,      \* nonces of this process that may be left staged
    \* history
    promised,       \* nonces whose publication was told to have succeeded
    trampled,       \* a file of the user's was overwritten or deleted
    faults          \* so far

vars == <<trees, survivors, custom, store, uncertain, promised, trampled, faults>>

\* The order in which they are written: those of modules/, then the manifest.
Files == <<"module", "manifest.json">>
File == {Files[i] : i \in DOMAIN Files}

Tree ==
    [sealed: BOOLEAN, modules: {"none", "open", "sealed"},
     files: [File -> {"none", "torn", "whole"}]]
Empty == [sealed |-> FALSE, modules |-> "none", files |-> [f \in File |-> "none"]]
NoTrees == [n \in Nonce |-> [staged |-> None, published |-> None]]

\* verify: an exact tree, every file of which is what the manifest says.
Verified(tree) ==
    tree # None /\ tree.sealed /\ tree.modules = "sealed"
        /\ \A f \in File : tree.files[f] = "whole"

-----------------------------------------------------------------------------
(* What calls do to the disk, and what a power loss may leave then.        *)

Staged(t, n, tree) == [t EXCEPT ![n].staged = tree]

\* Nothing of the change is durable yet.
Changes(n, tree) ==
    /\ trees' = Staged(trees, n, tree)
    /\ survivors' = survivors \cup {Staged(s, n, tree) : s \in survivors}

\* The directories of the staged tree are synced; it may itself be lost.
ChangesDurably(n, tree) ==
    /\ trees' = Staged(trees, n, tree)
    /\ survivors' = {IF s[n].staged = None THEN s ELSE Staged(s, n, tree) : s \in survivors}
                        \cup {Staged(s, n, tree) : s \in survivors}

\* The directory of the generations is synced: the names in it are durable.
Synced ==
    {[n \in Nonce |->
        [staged |-> IF trees[n].staged = None \/ s[n].staged = None
                    THEN trees[n].staged ELSE s[n].staged,
         published |-> trees[n].published]] : s \in survivors}

SyncGenerations == UNCHANGED trees /\ survivors' = Synced
SameDisk == UNCHANGED <<trees, survivors>>

At(step) == store.step = step
Nonced == store.nonce
StagedTree == trees[Nonced].staged
Goto(step) == store' = [store EXCEPT !.step = step]

\* A call of the file system fails, as long as the bound allows.
Fault(ok) ==
    /\ ok \/ faults < MaxFaults
    /\ faults' = IF ok THEN faults ELSE faults + 1

NoFault == Fault(TRUE)
Rest == <<custom, uncertain, promised, trampled>>

-----------------------------------------------------------------------------
(* removeTreeContents: of an interrupted publication at the start, and of  *)
(* one that fails.                                                         *)

Removes(then) == store' = [store EXCEPT !.step = "removing", !.then = then]

\* A tree that could not be removed stays, whatever was asked.
RemovalFails ==
    /\ At("removing")
    /\ Fault(FALSE)
    /\ SameDisk
    /\ IF store.then = "sweeping" THEN Goto("unavailable") /\ UNCHANGED uncertain
       ELSE Goto("ready") /\ uncertain' = uncertain \cup {Nonced}
    /\ UNCHANGED <<custom, promised, trampled>>

\* The directory is made writable, then emptied in the order it is read in.
Open(tree) == [tree EXCEPT !.sealed = FALSE]

RemoveEntry ==
    /\ At("removing")
    /\ NoFault
    /\ \/ \E f \in File :
              /\ StagedTree.files[f] # "none"
              /\ Changes(Nonced, [Open(StagedTree) EXCEPT !.files[f] = "none"])
       \/ /\ StagedTree.modules # "none" /\ StagedTree.files["module"] = "none"
          /\ Changes(Nonced, [Open(StagedTree) EXCEPT !.modules = "none"])
    /\ UNCHANGED <<store, Rest>>

\* cleanupStaging syncs at once, cleanupStagingDirectories after the last.
RemoveRoot ==
    /\ At("removing")
    /\ NoFault
    /\ StagedTree.modules = "none" /\ \A f \in File : StagedTree.files[f] = "none"
    /\ Changes(Nonced, None)
    /\ Goto(IF store.then = "sweeping" THEN "sweeping" ELSE "syncingRemoval")
    /\ UNCHANGED Rest

SyncRemoval(ok) ==
    /\ At("syncingRemoval")
    /\ Fault(ok)
    /\ IF ok THEN SyncGenerations ELSE SameDisk
    /\ uncertain' = IF ok THEN uncertain ELSE uncertain \cup {Nonced}
    /\ Goto("ready")
    /\ UNCHANGED <<custom, promised, trampled>>

-----------------------------------------------------------------------------
(* initialize *)

Initialize(ok) ==
    /\ At("down")
    /\ Fault(ok)
    /\ IF ok THEN SyncGenerations ELSE SameDisk
    /\ Goto(IF ok THEN "sweeping" ELSE "unavailable")
    /\ UNCHANGED Rest

\* cleanupStagingDirectories removes a staged tree only while it is writable.
Sweep(n) ==
    /\ At("sweeping")
    /\ NoFault
    /\ trees[n].staged # None
    /\ SameDisk
    /\ store' = IF trees[n].staged.sealed THEN [store EXCEPT !.step = "refused"]
                ELSE [step |-> "removing", then |-> "sweeping", nonce |-> n]
    /\ UNCHANGED Rest

Swept(ok) ==
    /\ At("sweeping")
    /\ Fault(ok)
    /\ \A n \in Nonce : trees[n].staged = None
    /\ IF ok THEN SyncGenerations ELSE SameDisk
    /\ Goto(IF ok THEN "custom" ELSE "unavailable")
    /\ UNCHANGED Rest

\* user-custom.lua is created, or left as it is.
CreateCustom(ok) ==
    /\ At("custom")
    /\ Fault(ok)
    /\ IF custom = "missing" /\ ok THEN custom' = "torn" ELSE UNCHANGED custom
    /\ Goto(CASE custom # "missing" -> "ready"
              [] custom = "missing" /\ ok -> "writingCustom"
              [] custom = "missing" /\ ~ok -> "unavailable")
    /\ SameDisk
    /\ UNCHANGED <<uncertain, promised, trampled>>

\* What could not be written is removed, if it is the file that was created;
\* its name is looked up and unlinked in one step here.
WriteCustom(ok) ==
    /\ At("writingCustom")
    /\ Fault(ok)
    /\ custom' = IF custom # "torn" THEN custom ELSE IF ok THEN "initial" ELSE "missing"
    /\ trampled' = (trampled \/ (custom = "user" /\ custom' # "user"))
    /\ Goto(IF ok THEN "ready" ELSE "unavailable")
    /\ SameDisk
    /\ UNCHANGED <<uncertain, promised>>

-----------------------------------------------------------------------------
(* publish *)

Fails == Removes("failing")

Publish(n) ==
    /\ At("ready")
    /\ NoFault
    /\ trees[n] = [staged |-> None, published |-> None] /\ n \notin promised \cup uncertain
    /\ \A s \in survivors : s[n] = [staged |-> None, published |-> None]
    /\ store' = [store EXCEPT !.step = "making", !.nonce = n]
    /\ SameDisk
    /\ UNCHANGED Rest

MakeStaging(ok) ==
    /\ At("making")
    /\ Fault(ok)
    /\ IF ok THEN Changes(Nonced, Empty) ELSE SameDisk
    /\ Goto(IF ok THEN "makingModules" ELSE "ready")
    /\ UNCHANGED Rest

MakeModules(ok) ==
    /\ At("makingModules")
    /\ Fault(ok)
    /\ IF ok THEN Changes(Nonced, [StagedTree EXCEPT !.modules = "open"]) /\ Goto("writing")
       ELSE SameDisk /\ Fails
    /\ UNCHANGED Rest

\* createImmutableFile, the files in their order.
WriteFile(i, result) ==
    /\ At("writing")
    /\ Fault(result = "whole")
    /\ StagedTree.files[Files[i]] = "none"
    /\ \A j \in 1..(i - 1) : StagedTree.files[Files[j]] = "whole"
    /\ Changes(Nonced, [StagedTree EXCEPT !.files[Files[i]] = result])
    /\ IF result = "whole" THEN UNCHANGED store ELSE Fails
    /\ UNCHANGED Rest

SealModules(synced) ==
    /\ At("writing")
    /\ Fault(synced)
    /\ \A f \in File : StagedTree.files[f] = "whole"
    /\ LET sealed == [StagedTree EXCEPT !.modules = "sealed"]
       IN IF synced THEN ChangesDurably(Nonced, sealed) /\ Goto("sealing")
          ELSE Changes(Nonced, sealed) /\ Fails
    /\ UNCHANGED Rest

\* Faulty variant of SealStaging: the sync is left to that of the rename.
SealStagingUnsynced(synced) ==
    /\ At("sealing")
    /\ Fault(synced)
    /\ Changes(Nonced, [StagedTree EXCEPT !.sealed = TRUE])
    /\ IF synced THEN Goto("renaming") ELSE Fails
    /\ UNCHANGED Rest

SealStaging(synced) ==
    /\ At("sealing")
    /\ Fault(synced)
    /\ LET sealed == [StagedTree EXCEPT !.sealed = TRUE]
       IN IF synced THEN ChangesDurably(Nonced, sealed) /\ Goto("renaming")
          ELSE Changes(Nonced, sealed) /\ Fails
    /\ UNCHANGED Rest

Renamed(t, tree) == [t EXCEPT ![Nonced] = [staged |-> None, published |-> tree]]

\* What a power loss leaves under the new name is what was last synced.
Rename(ok) ==
    /\ At("renaming")
    /\ Fault(ok)
    /\ IF ok
       THEN /\ trees' = Renamed(trees, StagedTree)
            /\ survivors' = survivors \cup
                   {Renamed(s, s[Nonced].staged) : s \in {s \in survivors : s[Nonced].staged # None}}
            /\ Goto("syncing")
       ELSE SameDisk /\ Fails
    /\ UNCHANGED Rest

\* There is nothing to clean up when the sync fails: the name is taken.
SyncPublished(ok) ==
    /\ At("syncing")
    /\ Fault(ok)
    /\ IF ok THEN SyncGenerations ELSE SameDisk
    /\ promised' = IF ok /\ Verified(trees[Nonced].published)
                   THEN promised \cup {Nonced} ELSE promised
    /\ uncertain' = IF ok THEN uncertain ELSE uncertain \cup {Nonced}
    /\ Goto("ready")
    /\ UNCHANGED <<custom, trampled>>

-----------------------------------------------------------------------------
(* The world. *)

\* The user's own file is there at the start, or takes the place of the one
\* that is being created.
UserWritesCustom ==
    /\ At("writingCustom") /\ custom = "torn"
    /\ custom' = "user"
    /\ NoFault
    /\ SameDisk
    /\ UNCHANGED <<store, uncertain, promised, trampled>>

Stop(left) ==
    /\ Fault(FALSE)
    /\ trees' = left
    /\ store' = [step |-> "down", then |-> None, nonce |-> None]
    /\ uncertain' = {}
    /\ UNCHANGED <<custom, promised, trampled>>

Crash == Stop(trees) /\ UNCHANGED survivors

PowerLoss == \E left \in survivors : Stop(left) /\ survivors' = {left}

Init ==
    /\ trees = NoTrees
    /\ survivors = {trees}
    /\ custom \in {"missing", "user"}
    /\ store = [step |-> "down", then |-> None, nonce |-> None]
    /\ uncertain = {}
    /\ promised = {}
    /\ trampled = FALSE
    /\ faults = 0

Publication(ok) ==
    \/ MakeStaging(ok)
    \/ MakeModules(ok)
    \/ SealModules(ok)
    \/ SealStaging(ok)
    \/ Rename(ok)
    \/ SyncPublished(ok)

Startup(ok) == Initialize(ok) \/ Swept(ok) \/ CreateCustom(ok) \/ WriteCustom(ok)

Next ==
    \/ \E ok \in BOOLEAN : Startup(ok) \/ Publication(ok) \/ SyncRemoval(ok)
    \/ \E n \in Nonce : Sweep(n) \/ Publish(n)
    \/ \E i \in DOMAIN Files, result \in {"torn", "whole"} : WriteFile(i, result)
    \/ RemoveEntry
    \/ RemoveRoot
    \/ RemovalFails
    \/ UserWritesCustom
    \/ Crash
    \/ PowerLoss

Spec == Init /\ [][Next]_vars

-----------------------------------------------------------------------------
(* Properties *)

TypeOK ==
    /\ \A s \in survivors \cup {trees} : \A n \in Nonce :
           s[n].staged \in Tree \cup {None} /\ s[n].published \in Tree \cup {None}
    /\ custom \in {"missing", "torn", "initial", "user"}
    /\ promised \subseteq Nonce /\ uncertain \subseteq Nonce

\* A generation is whole or not there, whatever a publication or the removal
\* of its remains was interrupted by.
PublishedIsWhole ==
    \A s \in survivors \cup {trees}, n \in Nonce :
        s[n].published # None => Verified(s[n].published)

\* What the transaction was told is published can be loaded for ever, through
\* crashes, power losses and the removal of what other publications left.
PromisedStands ==
    \A s \in survivors \cup {trees}, n \in promised : s[n].published # None

\* A ready store knows of every staged tree that it or a power loss may leave.
StagingAccounted ==
    At("ready") =>
        \A s \in survivors, n \in Nonce : s[n].staged # None => n \in uncertain

GenerationsHold == TypeOK /\ PublishedIsWhole /\ PromisedStands /\ StagingAccounted

\* user-custom.lua is the user's once they have written it: a creation that
\* fails removes only what it made itself.
CustomKept == ~trampled

\* A start removes what interrupted publications left, and does not refuse to
\* go on because of it (startupCleanupRemovesOnlyValidPendingNonceTrees).
InterruptedPublicationsAreRemoved == store.step # "refused"

=============================================================================
