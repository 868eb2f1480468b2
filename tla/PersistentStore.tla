------------------------- MODULE PersistentStore -------------------------
(***************************************************************************)
(* The private state directory of the compositor authority                 *)
(* (src/compositord/store.cpp).  A file is published by writing a private  *)
(* temporary, syncing it, renaming it over the target and syncing the      *)
(* directory.  `disk` is the namespace every process sees; `survivors` is  *)
(* the set of namespaces a power loss may leave: directory operations that *)
(* no directory sync has covered survive in any combination.               *)
(***************************************************************************)
CONSTANTS
    Missing,    \* no file of that name
    Damaged     \* a file whose bytes do not parse

VARIABLES
    disk,       \* [StoreFile -> bytes], as openat() and fstatat() see it
    survivors   \* namespaces the next power loss may reveal

store == <<disk, survivors>>

StoreFile == {"Desired", "LastGood", "Activation", "Pending"}

\* StoreOperationResult: `success`, an error before the rename or the unlink
\* took effect, or `committedButNotDurable`.
Outcome == {"success", "notPublished", "notDurable"}

\* Faulty variant: a rename that took effect is reported as if it had not.
WriteReportedUnpublished(file, bytes, outcome) ==
    /\ disk' = [disk EXCEPT ![file] = bytes]
    /\ survivors' = IF outcome = "success" THEN {disk'}
                    ELSE survivors
                        \cup {[s EXCEPT ![file] = bytes] : s \in survivors}

\* PersistentStore::write.
Write(file, bytes, outcome) ==
    \/ /\ outcome = "success"
       /\ disk' = [disk EXCEPT ![file] = bytes]
       /\ survivors' = {disk'}
    \/ /\ outcome = "notPublished"
       /\ UNCHANGED store
    \/ /\ outcome = "notDurable"
       /\ disk' = [disk EXCEPT ![file] = bytes]
       /\ survivors' = survivors
              \cup {[s EXCEPT ![file] = bytes] : s \in survivors}

\* PersistentStore::remove of a file that exists.
Remove(file, outcome) == Write(file, Missing, outcome)

\* Faulty variant: the directory is read without having been synced.
OpenDirectory == UNCHANGED store

\* PersistentStore::initialize syncs the state directory before it reads it.
SyncDirectory ==
    /\ survivors' = {disk}
    /\ UNCHANGED disk

\* The machine stops: what was never synced may or may not be there.
LoseUnsynced ==
    /\ disk' \in survivors
    /\ survivors' = {disk'}

=============================================================================
