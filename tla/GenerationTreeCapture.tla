----------------------- MODULE GenerationTreeCapture -----------------------
(***************************************************************************)
(* captureDormantV2GenerationTrees: the trees of the requested generations *)
(* are observed twice below a retained directory, every tree in the first  *)
(* pass before any in the second.  Descriptors are numbers of nodes, and   *)
(* those of the first pass stay open.                                      *)
(***************************************************************************)
EXTENDS ObservedTree

CONSTANTS
    Root,           \* the directory of the generations
    FileSpecs,      \* the files of a tree in their order: [modules, name]
    MaxTrees,       \* maximumDormantV2CapturedGenerationTrees
    Nonces,         \* the names that are activation nonces, in their order
    Requests        \* sequences of names that callers ask for

TreePlace(nonce) == <<Root, nonce>>
ModulesPlace(root) == <<root, "modules">>

RootInventory == {"modules"} \cup {f.name : f \in {g \in Range(FileSpecs) : ~g.modules}}
ModulesInventory == {f.name : f \in {g \in Range(FileSpecs) : g.modules}}

\* A tree that is being captured: its directories and the files of the passes.
UnopenedTree(nonce) ==
    [nonce |-> nonce, root |-> None, modules |-> None, first |-> <<>>]

\* Why a request is refused before anything is looked at.
Refusal(request) ==
    IF Len(request) > MaxTrees THEN "TooManyGenerationReferences"
    ELSE IF \E i \in DOMAIN request : request[i] \notin Range(Nonces)
         THEN "InvalidActivationNonce"
    ELSE IF \E i, j \in DOMAIN request : i # j /\ request[i] = request[j]
         THEN "DuplicateActivationNonce"
    ELSE None

\* The trees in the order of their names.
Sorted(request) ==
    LET order == SelectSeq(Nonces, LAMBDA nonce : nonce \in Range(request))
    IN [i \in DOMAIN order |-> UnopenedTree(order[i])]

Begun(request) ==
    LET refusal == Refusal(request)
    IN [stage |-> IF refusal = None THEN "baseline" ELSE "close",
        pass |-> 1, tree |-> 1, file |-> 1,
        trees |-> IF refusal = None THEN Sorted(request) ELSE <<>>,
        named |-> None, fd |-> None, opened |-> None, got |-> <<>>,
        baseline |-> None, identities |-> {}, exhausted |-> FALSE,
        failure |-> refusal, captured |-> None]

-----------------------------------------------------------------------------

\* Faulty variant of SameSnapshot: the times are not compared.
SameSnapshotUntimed(left, right) ==
    [left EXCEPT !.stamp = 0] = [right EXCEPT !.stamp = 0]

SameSnapshot(left, right) == left = right

SafeRoot(s) == s.exact

SafeImmutableDirectory(s) == s.id \in Directories /\ s.exact

SafeImmutableFile(s) == s.id \in Files /\ s.exact /\ s.links = 1

ChooseFailure(o, reason) ==
    [o EXCEPT !.failure = IF @ = None THEN reason ELSE @,
              !.named = None, !.fd = None, !.opened = None, !.got = <<>>,
              !.stage = IF o.baseline = None THEN "close" ELSE "final"]

\* A spent budget explains a failure better than what was then looked at.
ChooseLocalFailure(o, ordinary) ==
    ChooseFailure(o, IF o.exhausted THEN "ProofBudgetExceeded" ELSE ordinary)

Goes(stage, o) == [o EXCEPT !.stage = stage]

Tree(o) == o.trees[o.tree]
Described(o) == FileSpecs[o.file]
Parent(o) == IF Described(o).modules THEN Tree(o).modules.id ELSE Tree(o).root.id
FilePlace(o) == <<Parent(o), Described(o).name>>

\* Every node that a pass observes is another one.
AddIdentity(s, o, next) ==
    IF s.id \in o.identities THEN ChooseFailure(o, "IdentityAlias")
    ELSE [next EXCEPT !.identities = @ \cup {s.id}]

RootGuard(o) == SameSnapshot(Stat(Root), o.baseline) /\ SafeRoot(Stat(Root))

RetainedDirectoryStillExact(place, baseline) ==
    /\ SameSnapshot(Stat(baseline.id), baseline)
    /\ StatAt(place) # None /\ SameSnapshot(StatAt(place), baseline)
    /\ SafeImmutableDirectory(Stat(baseline.id))

EnsureRoot(o, next) ==
    IF RootGuard(o) THEN next ELSE ChooseLocalFailure(o, "GenerationsDirectoryChanged")

EnsureTree(o, next) ==
    IF /\ RetainedDirectoryStillExact(TreePlace(Tree(o).nonce), Tree(o).root)
       /\ RetainedDirectoryStillExact(ModulesPlace(Tree(o).root.id), Tree(o).modules)
    THEN next ELSE ChooseLocalFailure(o, "TreeChanged")

Ensure(o, next) == EnsureRoot(o, EnsureTree(o, next))

-----------------------------------------------------------------------------
(* The directories of a tree.                                              *)

DirectoryPlace(o) ==
    IF Tree(o).root = None THEN TreePlace(Tree(o).nonce)
    ELSE ModulesPlace(Tree(o).root.id)

DirectoryLookup(o) ==
    LET s == StatAt(DirectoryPlace(o))
    IN IF s = None THEN ChooseLocalFailure(o, "DirectoryMissing")
       ELSE IF ~SafeImmutableDirectory(s) THEN ChooseLocalFailure(o, "DirectoryUnsafe")
       ELSE [o EXCEPT !.stage = "openDirectory", !.named = s]

DirectoryOpen(o) ==
    LET id == Named(DirectoryPlace(o))
    IN IF id = None \/ id \in Files THEN ChooseLocalFailure(o, "DirectoryUnsafe")
       ELSE [o EXCEPT !.stage = "openedDirectory", !.fd = id]

\* The root of a tree is opened before the directory of its modules.
OpenedDirectory(o) ==
    LET t == [o EXCEPT !.named = None, !.fd = None]
        stable == /\ SameSnapshot(o.named, Stat(o.fd))
                  /\ SafeImmutableDirectory(Stat(o.fd))
                  /\ Named(DirectoryPlace(o)) = o.fd
    IN IF ~stable THEN ChooseLocalFailure(o, "DirectoryUnsafe")
       ELSE IF Tree(o).root = None
       THEN AddIdentity(o.named, o, [t EXCEPT !.trees[o.tree].root = o.named,
                                              !.stage = "modulesGuard"])
       ELSE AddIdentity(o.named, o, [t EXCEPT !.trees[o.tree].modules = o.named,
                                              !.stage = "rootInventory"])

\* The names in a directory that is opened again; its guard comes after.
ExactInventory(baseline, expected) ==
    /\ SameSnapshot(Stat(baseline.id), baseline)
    /\ {p[2] : p \in {q \in Places : q[1] = baseline.id /\ Named(q) # None}} = expected

Inventory(baseline, expected, next, o) ==
    IF ExactInventory(baseline, expected) THEN Ensure(o, next)
    ELSE ChooseLocalFailure(o, "InventoryMismatch")

\* The second pass reuses the directories that the first has opened.
SecondPassTree(o) ==
    Ensure(o, AddIdentity(Tree(o).root, o,
                  AddIdentity(Tree(o).modules, o, Goes("rootInventory", o))))

-----------------------------------------------------------------------------
(* The files of a tree.                                                    *)

InitialFstatat(o) ==
    LET s == StatAt(FilePlace(o))
    IN IF s = None THEN ChooseLocalFailure(o, "FileMissing")
       ELSE IF ~SafeImmutableFile(s) THEN ChooseFailure(o, "FileUnsafe")
       ELSE [o EXCEPT !.stage = "open", !.named = s]

OpenFile(o) ==
    IF Named(FilePlace(o)) \notin Files THEN ChooseLocalFailure(o, "FileUnsafe")
    ELSE [o EXCEPT !.stage = "opened", !.fd = Named(FilePlace(o))]

OpenedFstat(o) ==
    IF SameSnapshot(o.named, Stat(o.fd)) /\ SafeImmutableFile(Stat(o.fd))
    THEN [o EXCEPT !.stage = "read", !.opened = Stat(o.fd)]
    ELSE ChooseLocalFailure(o, "FileUnsafe")

\* The blocks of the size that was observed, and the byte after them.
BoundedPread(o) ==
    LET bytes == volume.node[o.fd].bytes
        offset == Len(o.got) + 1
    IN IF Len(o.got) < o.opened.size
       THEN IF offset > Len(bytes) THEN ChooseLocalFailure(o, "FileUnsafe")
            ELSE [o EXCEPT !.got = Append(@, bytes[offset])]
       ELSE IF offset > Len(bytes) THEN Goes("after", o)
       ELSE ChooseLocalFailure(o, "FileUnsafe")

AfterReadFstat(o) ==
    IF SameSnapshot(o.opened, Stat(o.fd)) THEN Goes("named", o)
    ELSE ChooseLocalFailure(o, "FileUnsafe")

FilesEqual(left, right) ==
    left.bytes = right.bytes /\ SameSnapshot(left.metadata, right.metadata)

\* A file that was read: kept in the first pass, compared in the second.
Captured(o) ==
    LET file == [bytes |-> o.got, metadata |-> o.opened]
        t == [o EXCEPT !.named = None, !.fd = None, !.opened = None, !.got = <<>>,
                       !.stage = "fileGuard"]
    IN AddIdentity(o.opened, o,
           IF o.pass = 1 THEN [t EXCEPT !.trees[o.tree].first = Append(@, file)]
           ELSE IF FilesEqual(Tree(o).first[o.file], file) THEN t
           ELSE ChooseFailure(o, "TreeChanged"))

FinalNamedFstatat(o) ==
    IF StatAt(FilePlace(o)) # None /\ SameSnapshot(o.opened, StatAt(FilePlace(o)))
    THEN Captured(o) ELSE ChooseLocalFailure(o, "FileUnsafe")

-----------------------------------------------------------------------------
(* The call.                                                               *)

Baseline(o) ==
    IF SafeRoot(Stat(Root))
    THEN [o EXCEPT !.baseline = Stat(Root), !.identities = {Root},
                   !.stage = IF o.trees = <<>> THEN "between" ELSE "tree"]
    ELSE ChooseFailure(o, "UnsafeGenerationsDirectory")

NextTree(o, after) ==
    IF o.tree < Len(o.trees) THEN [o EXCEPT !.stage = "tree", !.tree = @ + 1, !.file = 1]
    ELSE [o EXCEPT !.stage = after, !.tree = 1, !.file = 1]

AfterFile(o) ==
    IF o.file < Len(FileSpecs) THEN [o EXCEPT !.stage = "lookup", !.file = @ + 1]
    ELSE NextTree(o, IF o.pass = 1 THEN "between" ELSE "held")

SecondPass(o) ==
    [o EXCEPT !.pass = 2, !.identities = {Root},
              !.stage = IF o.trees = <<>> THEN "final" ELSE "tree"]

\* Each descriptor of the first pass and its name, when both passes are over.
HeldFirstPass(o) ==
    LET metadata == Tree(o).first[o.file].metadata
        next == IF o.file < Len(FileSpecs) THEN [o EXCEPT !.file = @ + 1]
                ELSE IF o.tree < Len(o.trees) THEN [o EXCEPT !.tree = @ + 1, !.file = 1]
                ELSE Goes("final", o)
    IN Ensure(o, IF /\ SameSnapshot(Stat(metadata.id), metadata)
                    /\ StatAt(FilePlace(o)) # None
                    /\ SameSnapshot(StatAt(FilePlace(o)), metadata)
                    /\ SafeImmutableFile(Stat(metadata.id))
                 THEN next ELSE ChooseLocalFailure(o, "TreeChanged"))

\* With a budget of its own, and before every tentative result.
FinalRootGuard(o) ==
    [o EXCEPT !.stage = "close",
              !.failure = IF RootGuard(o) THEN @ ELSE "GenerationsDirectoryChanged"]

\* A descriptor whose close is not certain overrides every other result.
Close(ok, o) ==
    LET failure == IF ok \/ o.failure \in {"TooManyGenerationReferences",
                             "InvalidActivationNonce", "DuplicateActivationNonce"}
                   THEN o.failure ELSE "CleanupFailed"
    IN [Begun(<<>>) EXCEPT
           !.stage = "returned", !.failure = failure,
           !.captured = IF failure # None THEN None
                        ELSE [i \in DOMAIN o.trees |->
                                 [nonce |-> o.trees[i].nonce,
                                  files |-> [f \in DOMAIN FileSpecs |->
                                                o.trees[i].first[f].bytes]]]]

Observing == {"baseline", "tree", "lookupDirectory", "openDirectory", "openedDirectory",
              "modulesGuard", "rootInventory", "modulesInventory", "lookup", "open",
              "opened", "read", "after", "named", "fileGuard", "between", "held", "final"}

Call(o) ==
    CASE o.stage = "baseline" -> Baseline(o)
      [] o.stage = "tree" -> IF o.pass = 1 THEN EnsureRoot(o, Goes("lookupDirectory", o))
                             ELSE SecondPassTree(o)
      [] o.stage = "lookupDirectory" -> DirectoryLookup(o)
      [] o.stage = "openDirectory" -> DirectoryOpen(o)
      [] o.stage = "openedDirectory" -> OpenedDirectory(o)
      [] o.stage = "modulesGuard" -> EnsureRoot(o, Goes("lookupDirectory", o))
      [] o.stage = "rootInventory" ->
             Inventory(Tree(o).root, RootInventory, Goes("modulesInventory", o), o)
      [] o.stage = "modulesInventory" ->
             Inventory(Tree(o).modules, ModulesInventory, Goes("lookup", o), o)
      [] o.stage = "lookup" -> InitialFstatat(o)
      [] o.stage = "open" -> OpenFile(o)
      [] o.stage = "opened" -> OpenedFstat(o)
      [] o.stage = "read" -> BoundedPread(o)
      [] o.stage = "after" -> AfterReadFstat(o)
      [] o.stage = "named" -> FinalNamedFstatat(o)
      [] o.stage = "fileGuard" -> Ensure(o, AfterFile(o))
      [] o.stage = "between" -> EnsureRoot(o, SecondPass(o))
      [] o.stage = "held" -> HeldFirstPass(o)
      [] o.stage = "final" -> FinalRootGuard(o)

\* A call that fails in the kernel.
SyscallFails(o) ==
    CASE o.stage = "baseline" -> ChooseFailure(o, "UnsafeGenerationsDirectory")
      [] o.stage = "final" -> [o EXCEPT !.stage = "close",
                                        !.failure = "GenerationsDirectoryChanged"]
      [] OTHER -> ChooseLocalFailure(o, "FileUnsafe")

BudgetSpent(o) ==
    IF o.stage = "final"
    THEN [o EXCEPT !.stage = "close", !.failure = "ProofBudgetExceeded"]
    ELSE ChooseLocalFailure([o EXCEPT !.exhausted = TRUE], "FileUnsafe")

\* What is on disk for a file of a tree, by its names.
ContentOf(nonce, spec) ==
    LET root == Named(TreePlace(nonce))
        modules == IF root = None THEN None
                   ELSE IF ModulesPlace(root) \in Places THEN Named(ModulesPlace(root))
                   ELSE None
        parent == IF spec.modules THEN modules ELSE root
    IN IF parent = None THEN <<>>
       ELSE IF <<parent, spec.name>> \notin Places THEN <<>>
       ELSE IF Named(<<parent, spec.name>>) = None THEN <<>>
       ELSE volume.node[Named(<<parent, spec.name>>)].bytes

Contents ==
    [i \in DOMAIN observer.trees |->
        [nonce |-> observer.trees[i].nonce,
         files |-> [f \in DOMAIN FileSpecs |->
                       ContentOf(observer.trees[i].nonce, FileSpecs[f])]]]

Observe ==
    /\ observer.stage \in Observing
    /\ \/ observer' = Call(observer)
       \/ observer' = SyscallFails(observer)
       \/ observer' = BudgetSpent(observer)
    /\ between' = IF observer.stage = "between" THEN Contents ELSE between
    /\ UNCHANGED <<volume, clock>>

Return ==
    /\ observer.stage = "close"
    /\ \E ok \in BOOLEAN : observer' = Close(ok, observer)
    /\ UNCHANGED <<volume, clock, between>>

Init ==
    /\ clock = 0
    /\ volume = Left({p \in Places : Own[p] = None})
    /\ \E request \in Requests : observer = Begun(request)
    /\ between = <<>>

Next == Observe \/ Return \/ Mutate

Spec == Init /\ [][Next]_vars

-----------------------------------------------------------------------------

TypeOK ==
    /\ observer.stage \in Observing \cup {"close", "returned"}
    /\ observer.pass \in 1..2 /\ observer.file \in DOMAIN FileSpecs
    /\ observer.identities \subseteq Nodes
    /\ observer.stage = "returned" =>
           (observer.captured = None) = (observer.failure # None)

\* dormant_v2_generation_tree_capture.h: what is captured of a generation is
\* the whole of what its tree held at one instant, the one between the passes.
CapturedTogether == observer.captured # None => observer.captured = between

CaptureHolds == TypeOK /\ CapturedTogether

=============================================================================
