------------------------- MODULE ReachableV1Capture -------------------------
(***************************************************************************)
(* captureDormantReachableV1Filesystem: the records and the generations of *)
(* version 1 that a caller has read are found again on disk, twice, below  *)
(* four directories that it holds open.  Descriptors are numbers of nodes. *)
(* The walk along one path is one step: it holds the whole chain and looks *)
(* at it again before it ends.                                             *)
(***************************************************************************)
EXTENDS ObservedTree

CONSTANTS
    Top,            \* the directory that the paths start from
    Roots,          \* the four directories, in the order of rootDescriptors
    Paths,          \* their paths, as sequences of names
    Records,        \* the places of the fixed records, in the order of fixedSubjects
    FileNames,      \* the files of a generation in their order: [modules, name]
    ValidNonces,
    MaxGenerations, \* maximumDormantV1CapturedGenerations
    Expectations    \* what callers may have read: [records, generations]

Config == Roots[2]
Managed == Roots[3]
Generations == Roots[4]

ExpectedRootNames == {"modules"} \cup {f.name : f \in {g \in Range(FileNames) : ~g.modules}}
ExpectedModuleNames == {f.name : f \in {g \in Range(FileNames) : g.modules}}

-----------------------------------------------------------------------------
(* What is asked for.                                                      *)

\* Sizes are left out: a caller's evidence is as large as what is captured.
RecordRefusal(record) ==
    CASE record.kind = "unsafe" -> "UnsafeExpectedRead"
      [] record.kind = "missing" /\ record.bytes # <<>> -> "InvalidExpectedRead"
      [] OTHER -> None

\* The evidence of a generation names each of its files.
GenerationRefusal(generations, i) ==
    IF generations[i].nonce \notin ValidNonces THEN "InvalidGenerationReference"
    ELSE IF \E j \in 1..(i - 1) : generations[j].nonce = generations[i].nonce
         THEN "DuplicateGenerationReference"
    ELSE IF DOMAIN generations[i].files # {f.name : f \in Range(FileNames)}
         THEN "InvalidGenerationInventory"
    ELSE None

FirstOf(refusals) ==
    LET some == {i \in DOMAIN refusals : refusals[i] # None}
    IN IF some = {} THEN None ELSE refusals[CHOOSE i \in some : \A j \in some : i <= j]

Refusal(expected) ==
    IF Len(expected.generations) > MaxGenerations THEN "TooManyGenerationEvidences"
    ELSE FirstOf([i \in DOMAIN Records |-> RecordRefusal(expected.records[i])]
                 \o [i \in DOMAIN expected.generations |->
                        GenerationRefusal(expected.generations, i)])

\* A generation that is being captured.
GenerationWork(evidence) ==
    [evidence |-> evidence, root |-> None, modules |-> None, first |-> <<>>]

Begun(expected) ==
    LET refusal == Refusal(expected)
    IN [stage |-> IF refusal = None THEN "baseline" ELSE "returned",
        pass |-> 1, record |-> 1, work |-> 1, file |-> 1,
        expected |-> expected, baseline |-> <<>>,
        works |-> [i \in DOMAIN expected.generations |->
                      GenerationWork(expected.generations[i])],
        named |-> None, fd |-> None, opened |-> None, got |-> <<>>, current |-> None,
        first |-> <<>>, exhausted |-> FALSE, failure |-> refusal, captured |-> None]

-----------------------------------------------------------------------------
(* Comparisons and the guards of the four directories.                     *)

\* Faulty variant of SameSnapshot: the times are not compared.
SameSnapshotUntimed(left, right) ==
    [left EXCEPT !.stamp = 0] = [right EXCEPT !.stamp = 0]

SameSnapshot(left, right) == left = right

SameNode(left, right) ==
    left.id = right.id /\ left.exact = right.exact /\ left.links = right.links

SafeRootMetadata(s) == s.id \in Directories /\ s.exact

TrustedDirectoryMetadata(s) == s.id \in Directories /\ s.exact

\* The directory that a path leads to.
OpenTrustedDirectoryTree(path) ==
    LET Down(id, name) ==
            IF id = None THEN None
            ELSE IF <<id, name>> \notin Places THEN None
            ELSE IF Named(<<id, name>>) = None THEN None
            ELSE IF TrustedDirectoryMetadata(StatAt(<<id, name>>)) THEN Named(<<id, name>>)
            ELSE None
    IN FoldLeft(Down, Top, path)

CanonicalDirectoryMatches(i) ==
    LET canonical == OpenTrustedDirectoryTree(Paths[i])
    IN canonical # None /\ SameNode(Stat(canonical), Stat(Roots[i]))

DescriptorStillNamed(place, id) ==
    StatAt(place) # None /\ SameNode(StatAt(place), Stat(id)) /\ id \in Directories

RootsNamed ==
    /\ DescriptorStillNamed(<<Config, "hyprshelld">>, Managed)
    /\ DescriptorStillNamed(<<Managed, "generations">>, Generations)

PairwiseDistinctRoots == \A i, j \in DOMAIN Roots : i # j => Roots[i] # Roots[j]

RootsUnchanged(o) ==
    \A i \in DOMAIN Roots :
        SameSnapshot(Stat(Roots[i]), o.baseline[i]) /\ SafeRootMetadata(Stat(Roots[i]))

RetainedRootGuardMatches(o) == RootsUnchanged(o) /\ RootsNamed /\ PairwiseDistinctRoots

Goes(stage, o) == [o EXCEPT !.stage = stage]

\* Only the first failure is kept; the final guard comes next.
Fail(o, reason) ==
    [o EXCEPT !.failure = IF @ = None THEN reason ELSE @, !.stage = "finalRoots",
              !.named = None, !.fd = None, !.opened = None, !.got = <<>>, !.current = None]

FailWithin(o, reason) == Fail(o, IF o.exhausted THEN "CaptureBudgetExceeded" ELSE reason)

Guard(o, next) ==
    IF ~o.exhausted /\ RetainedRootGuardMatches(o) THEN next
    ELSE FailWithin(o, "RootsChanged")

Returns(o, failure) == [o EXCEPT !.stage = "returned", !.failure = failure]

EstablishRootBaseline(o) ==
    IF \A i \in DOMAIN Roots : SafeRootMetadata(Stat(Roots[i]))
    THEN [o EXCEPT !.stage = "paths", !.baseline = [i \in DOMAIN Roots |-> Stat(Roots[i])]]
    ELSE Returns(o, "UnsafeRootMetadata")

\* The descriptors are those of the paths, and of the layout below them.
BaselinePaths(o) ==
    IF /\ \A i \in DOMAIN Roots : CanonicalDirectoryMatches(i)
       /\ RootsNamed /\ PairwiseDistinctRoots
    THEN Goes("firstGuard", o) ELSE Returns(o, "RootIdentityMismatch")

-----------------------------------------------------------------------------
(* captureFileAt.                                                          *)

\* The file that is looked at: a fixed record, or one of a generation.
Work(o) == o.works[o.work]
InRecords(o) == o.record <= Len(Records)

FilePlace(o) ==
    IF InRecords(o) THEN Records[o.record]
    ELSE <<IF FileNames[o.file].modules THEN Work(o).modules.id ELSE Work(o).root.id,
           FileNames[o.file].name>>

\* What it found is judged after the guard that follows.
Finds(current, o) ==
    [o EXCEPT !.stage = "judge", !.current = current,
              !.named = None, !.fd = None, !.opened = None, !.got = <<>>]

UnsafeEntry == [kind |-> "unsafe"]

SafeFile(s) == s.id \in Files /\ s.exact /\ s.links = 1

LookupFile(o) ==
    LET s == StatAt(FilePlace(o))
    IN IF s = None THEN Finds([kind |-> "missing", bytes |-> <<>>], o)
       ELSE IF SafeFile(s) THEN [o EXCEPT !.stage = "open", !.named = s]
       ELSE Finds(UnsafeEntry, o)

OpenFile(o) ==
    IF Named(FilePlace(o)) \in Files
    THEN [o EXCEPT !.stage = "opened", !.fd = Named(FilePlace(o))]
    ELSE Finds(UnsafeEntry, o)

OpenedFile(o) ==
    IF SameSnapshot(o.named, Stat(o.fd))
    THEN [o EXCEPT !.stage = "read", !.opened = Stat(o.fd)] ELSE Finds(UnsafeEntry, o)

\* As many blocks as the size that was observed; what grew shows in the size.
ReadFile(o) ==
    LET bytes == volume.node[o.fd].bytes
        offset == Len(o.got) + 1
    IN IF offset > Len(bytes) THEN Finds(UnsafeEntry, o)
       ELSE [o EXCEPT !.got = Append(@, bytes[offset]),
                      !.stage = IF offset = o.opened.size THEN "after" ELSE "read"]

AfterRead(o) ==
    IF SameSnapshot(o.opened, Stat(o.fd)) THEN Goes("named", o) ELSE Finds(UnsafeEntry, o)

FinalNamedCheck(o) ==
    LET s == StatAt(FilePlace(o))
    IN IF s # None /\ SameSnapshot(o.opened, s)
       THEN Finds([kind |-> "exact", bytes |-> o.got, identity |-> o.opened], o)
       ELSE Finds(UnsafeEntry, o)

-----------------------------------------------------------------------------
(* The fixed records.                                                      *)

CaptureMatchesExpected(current, expected) ==
    /\ expected.kind # "unsafe" /\ current.kind = expected.kind
    /\ expected.kind = "exact" => current.bytes = expected.bytes

StartGenerations(o, next) ==
    IF o.works = <<>> THEN next ELSE Goes("generation", [o EXCEPT !.work = 1])

\* The records of a pass come before its generations.
AfterRecord(o) ==
    LET t == [o EXCEPT !.record = @ + 1, !.current = None]
    IN IF o.record < Len(Records) THEN Goes("record", t)
       ELSE StartGenerations(t, Goes(IF o.pass = 1 THEN "between" ELSE "finalRoots", t))

JudgeRecord(o) ==
    IF o.current.kind = "unsafe" THEN FailWithin(o, "FixedRecordUnsafe")
    ELSE IF ~CaptureMatchesExpected(o.current, o.expected.records[o.record])
    THEN Fail(o, "FixedRecordMismatch")
    ELSE IF o.pass = 1 THEN AfterRecord([o EXCEPT !.first = Append(@, o.current)])
    ELSE IF o.current = o.first[o.record] THEN AfterRecord(o)
    ELSE Fail(o, "FixedRecordMismatch")

-----------------------------------------------------------------------------
(* The generations.                                                        *)

RootPlace(o) == <<Generations, Work(o).evidence.nonce>>
ModulesPlace(o) == <<Work(o).root.id, "modules">>

ExactImmutableDirectory(s) == s.id \in Directories /\ s.exact

OpenGenerationRoot(o) ==
    LET id == Named(RootPlace(o))
    IN IF id = None THEN FailWithin(o, "GenerationRootMissing")
       ELSE IF id \in Files THEN FailWithin(o, "GenerationRootUnsafe")
       ELSE [o EXCEPT !.stage = "openedRoot", !.fd = id]

OpenedGenerationRoot(o) ==
    IF ~(ExactImmutableDirectory(Stat(o.fd)) /\ DescriptorStillNamed(RootPlace(o), o.fd))
    THEN FailWithin(o, "GenerationRootUnsafe")
    ELSE IF \E i \in 1..(o.work - 1) : o.works[i].root.id = o.fd
    THEN Fail(o, "GenerationIdentityAlias")
    ELSE [o EXCEPT !.works[o.work].root = Stat(o.fd), !.fd = None, !.stage = "openModules"]

OpenGenerationModules(o) ==
    LET id == Named(ModulesPlace(o))
    IN IF id = None THEN FailWithin(o, "GenerationModulesMissing")
       ELSE IF id \in Files THEN FailWithin(o, "GenerationModulesUnsafe")
       ELSE [o EXCEPT !.stage = "openedModules", !.fd = id]

OpenedGenerationModules(o) ==
    IF ~(ExactImmutableDirectory(Stat(o.fd)) /\ DescriptorStillNamed(ModulesPlace(o), o.fd))
    THEN FailWithin(o, "GenerationModulesUnsafe")
    ELSE Guard(o, [o EXCEPT !.works[o.work].modules = Stat(o.fd), !.fd = None,
                            !.stage = "rootInventory"])

ExactRawInventory(id, expected) ==
    {p[2] : p \in {q \in Places : q[1] = id /\ Named(q) # None}} = expected

Inventory(id, expected, o, next) ==
    IF ExactRawInventory(id, expected) THEN next
    ELSE FailWithin(o, "GenerationInventoryMismatch")

GenerationDirectoriesStillExact(o) ==
    /\ SameSnapshot(Stat(Work(o).root.id), Work(o).root)
    /\ SameSnapshot(Stat(Work(o).modules.id), Work(o).modules)
    /\ ExactImmutableDirectory(Work(o).root) /\ ExactImmutableDirectory(Work(o).modules)
    /\ DescriptorStillNamed(RootPlace(o), Work(o).root.id)
    /\ DescriptorStillNamed(ModulesPlace(o), Work(o).modules.id)

\* The second pass finds the directories of the first.
SecondPassGeneration(o) ==
    IF GenerationDirectoriesStillExact(o) THEN Goes("rootInventory", o)
    ELSE FailWithin(o, "GenerationTreeChanged")

\* No node of a generation is a node of another, or twice in one.
IdentitiesDistinct(o) ==
    LET ids(w) == <<w.root.id, w.modules.id>>
                      \o [f \in DOMAIN w.first |-> w.first[f].identity.id]
        all == FoldLeft(LAMBDA s, w : s \o ids(w), <<>>, o.works)
    IN \A i, j \in DOMAIN all : i # j => all[i] # all[j]

FirstPassDone(o) ==
    IF IdentitiesDistinct(o) THEN Goes("between", o) ELSE Fail(o, "GenerationIdentityAlias")

AfterGeneration(o) ==
    IF ~GenerationDirectoriesStillExact(o) THEN FailWithin(o, "GenerationTreeChanged")
    ELSE Guard(o, IF o.work < Len(o.works)
                  THEN [o EXCEPT !.stage = "generation", !.work = @ + 1, !.file = 1]
                  ELSE IF o.pass = 1 THEN FirstPassDone(o) ELSE Goes("finalRoots", o))

AfterFile(o) ==
    LET t == [o EXCEPT !.current = None]
    IN IF o.file < Len(FileNames) THEN [t EXCEPT !.stage = "generationFile", !.file = @ + 1]
       ELSE Goes("generationEnds", t)

JudgeGenerationFile(o) ==
    CASE o.current.kind = "missing" -> Fail(o, "GenerationFileMissing")
      [] o.current.kind = "unsafe" -> FailWithin(o, "GenerationFileUnsafe")
      [] o.current.kind = "exact" ->
             IF o.current.bytes # Work(o).evidence.files[FileNames[o.file].name]
             THEN Fail(o, "GenerationFileMismatch")
             ELSE IF o.pass = 1
             THEN AfterFile([o EXCEPT !.works[o.work].first = Append(@, o.current)])
             ELSE IF o.current = Work(o).first[o.file] THEN AfterFile(o)
             ELSE Fail(o, "GenerationFileMismatch")

-----------------------------------------------------------------------------
(* The call.                                                               *)

SecondPass(o) == [o EXCEPT !.stage = "record", !.pass = 2, !.record = 1, !.work = 1, !.file = 1]

\* A change of the roots overrides every tentative result.
FinalRoots(o) ==
    IF RootsUnchanged(o) THEN Goes("finalPaths", o) ELSE Returns(o, "RootsChanged")

FinalPaths(o) ==
    IF /\ \A i \in DOMAIN Roots : CanonicalDirectoryMatches(i)
       /\ RootsNamed /\ PairwiseDistinctRoots
    THEN [o EXCEPT !.stage = "returned",
              !.captured =
                 IF o.failure # None THEN None
                 ELSE [records |-> [i \in DOMAIN Records |-> o.first[i].bytes],
                       generations |-> [w \in DOMAIN o.works |->
                           [f \in DOMAIN FileNames |-> o.works[w].first[f].bytes]]]]
    ELSE Returns(o, "RootsChanged")

Observing == {"baseline", "paths", "firstGuard", "record", "lookup", "open", "opened",
              "read", "after", "named", "judge", "generation", "openRoot", "openedRoot",
              "openModules", "openedModules", "rootInventory", "modulesInventory",
              "inventoried", "generationFile", "generationEnds", "between",
              "finalRoots", "finalPaths"}

Call(o) ==
    CASE o.stage = "baseline" -> EstablishRootBaseline(o)
      [] o.stage = "paths" -> BaselinePaths(o)
      [] o.stage = "firstGuard" -> Guard(o, Goes("record", o))
      [] o.stage = "record" -> Guard(o, Goes("lookup", o))
      [] o.stage = "lookup" -> LookupFile(o)
      [] o.stage = "open" -> OpenFile(o)
      [] o.stage = "opened" -> OpenedFile(o)
      [] o.stage = "read" -> ReadFile(o)
      [] o.stage = "after" -> AfterRead(o)
      [] o.stage = "named" -> FinalNamedCheck(o)
      [] o.stage = "judge" ->
             Guard(o, IF InRecords(o) THEN JudgeRecord(o) ELSE JudgeGenerationFile(o))
      [] o.stage = "generation" ->
             Guard(o, IF o.pass = 1 THEN Goes("openRoot", o) ELSE SecondPassGeneration(o))
      [] o.stage = "openRoot" -> OpenGenerationRoot(o)
      [] o.stage = "openedRoot" -> OpenedGenerationRoot(o)
      [] o.stage = "openModules" -> OpenGenerationModules(o)
      [] o.stage = "openedModules" -> OpenedGenerationModules(o)
      [] o.stage = "rootInventory" ->
             Inventory(Work(o).root.id, ExpectedRootNames, o, Goes("modulesInventory", o))
      [] o.stage = "modulesInventory" ->
             Inventory(Work(o).modules.id, ExpectedModuleNames, o, Goes("inventoried", o))
      [] o.stage = "inventoried" -> Guard(o, Goes("generationFile", o))
      [] o.stage = "generationFile" -> Guard(o, Goes("lookup", o))
      [] o.stage = "generationEnds" -> AfterGeneration(o)
      [] o.stage = "between" -> Guard(o, SecondPass(o))
      [] o.stage = "finalRoots" -> FinalRoots(o)
      [] o.stage = "finalPaths" -> FinalPaths(o)

CapturesFile == {"lookup", "open", "opened", "read", "after", "named"}

\* A call that fails in the kernel, or that the budget of its phase refuses.
CallFails(o) ==
    IF o.stage \in {"baseline", "paths"} THEN Returns(o, "RootIdentityMismatch")
    ELSE IF o.stage \in {"finalRoots", "finalPaths"} THEN Returns(o, "RootsChanged")
    ELSE IF o.stage \in CapturesFile THEN Finds(UnsafeEntry, o)
    ELSE FailWithin(o, "RootsChanged")

BudgetSpent(o) ==
    IF o.stage \in {"baseline", "paths", "finalRoots", "finalPaths"}
    THEN Returns(o, "CaptureBudgetExceeded")
    ELSE CallFails([o EXCEPT !.exhausted = TRUE])

\* What is on disk below the descriptors, by its names.
BytesAt(place) ==
    IF place \notin Places THEN <<>>
    ELSE IF Named(place) = None THEN <<>> ELSE volume.node[Named(place)].bytes

GenerationBytes(w, f) ==
    LET root == Named(<<Generations, w.evidence.nonce>>)
        modules == IF root # None /\ <<root, "modules">> \in Places
                   THEN Named(<<root, "modules">>) ELSE None
    IN BytesAt(<<IF f.modules THEN modules ELSE root, f.name>>)

Contents ==
    [records |-> [i \in DOMAIN Records |-> BytesAt(Records[i])],
     generations |-> [w \in DOMAIN observer.works |->
         [f \in DOMAIN FileNames |-> GenerationBytes(observer.works[w], FileNames[f])]]]

Observe ==
    /\ observer.stage \in Observing
    /\ \/ observer' = Call(observer)
       \/ observer' = CallFails(observer)
       \/ observer' = BudgetSpent(observer)
    /\ between' = IF observer.stage = "between" THEN Contents ELSE between
    /\ UNCHANGED <<volume, clock>>

\* A caller that has read what is on disk, or something else.
Init ==
    /\ clock = 0
    /\ volume = Left({p \in Places : Own[p] = None})
    /\ \E expected \in Expectations : observer = Begun(expected)
    /\ between = <<>>

Next == Observe \/ Mutate

Spec == Init /\ [][Next]_vars

-----------------------------------------------------------------------------

TypeOK ==
    /\ observer.stage \in Observing \cup {"returned"}
    /\ observer.pass \in 1..2 /\ observer.record \in 1..(Len(Records) + 1)
    /\ observer.file \in DOMAIN FileNames
    /\ observer.captured # None => observer.failure = None

\* What is captured is what the caller had read, and all of it was on disk
\* at one instant, the one between the passes.
CapturedTogether ==
    observer.captured # None =>
        /\ observer.captured = between
        /\ observer.captured.records =
               [i \in DOMAIN Records |-> observer.expected.records[i].bytes]
        /\ \A w \in DOMAIN observer.works : \A f \in DOMAIN FileNames :
               observer.captured.generations[w][f]
                   = observer.works[w].evidence.files[FileNames[f].name]

CaptureHolds == TypeOK /\ CapturedTogether

=============================================================================
