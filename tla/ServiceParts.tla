---------------------------- MODULE ServiceParts ----------------------------
(***************************************************************************)
(* Parts of the services that are checked for safety only and share        *)
(* nothing, side by side: in a behaviour one of them runs and the others   *)
(* rest where they start.                                                  *)
(***************************************************************************)
EXTENDS Naturals, Sequences, TLC

CONSTANTS
    None, Missing, Damaged, Unsafe,
    MaxToken, MaxEdits, InitialFiles, MayRemove,        \* activation
    MaxRevision, MaxOutages,                            \* settings
    MaxTurns,                                           \* visual
    Layouts, MaxMutations,                              \* captures
    Nonce, MaxFaults,                                   \* generations
    StoreComponent, StoreVersion, StorePackage, Needs,  \* store
    CatalogRoom, MaxReceipts, Unreadable, Partial, UndoMayFail,
    Hyprland, MaxDisruptions,                           \* reloads
    InitialSections, Drafts, MaxWrites,                \* document
    shared, leaf, extra                                 \* components, see below

VARIABLES
    subject,        \* the part that runs
    ns, survivors, authority, tokens, committed, failed, expected, process,
    starting, loaded, edits, owned,
    disk, unreadable, outages, catalog, configd, job, told, owed,
    config, configdUp, asks, line, source, service, live, turns, saved, unasked,
    capture, volume, clock, observer, between,
    trees, treeSurvivors, custom, store, uncertain, promised, trampled, faults,
    receipts, packageTrees, step, storeCatalog, request, storeLoaded, published,
    retired, todo, answer,
    hyprlands, environment, entrypoint, userCustom, disruptions, stream, runtime,
    evidence,
    topic, desired, client, edit, applied, started, curves

activation ==
    <<ns, survivors, authority, tokens, committed, failed, expected, process,
      starting, loaded, edits, owned>>
settings == <<disk, unreadable, outages, catalog, configd, job, told, owed>>
visual ==
    <<config, configdUp, asks, line, source, service, live, turns, saved, unasked>>
captures == <<capture, volume, clock, observer, between>>
generations ==
    <<trees, treeSurvivors, custom, store, uncertain, promised, trampled, faults>>
packageStore ==
    <<receipts, packageTrees, step, storeCatalog, request, storeLoaded, published,
      retired, todo, answer>>
reloads ==
    <<hyprlands, environment, entrypoint, userCustom, disruptions, stream, runtime,
      evidence>>
document == <<topic, desired, client, edit, applied, started, curves>>
stores == <<generations, packageStore>>
parts == <<activation, settings, visual, captures, reloads, document>>
vars == <<subject, parts, stores>>

Activation == INSTANCE ManagedActivation
Settings == INSTANCE SettingsStores
Visual == INSTANCE SharedVisual
Generations == INSTANCE GenerationStore WITH survivors <- treeSurvivors
PackageStore == INSTANCE UserPackageStore
                    WITH Component <- StoreComponent, Version <- StoreVersion,
                         Package <- StorePackage, trees <- packageTrees,
                         catalog <- storeCatalog, loaded <- storeLoaded
Reloads == INSTANCE HyprlandRuntime WITH custom <- userCustom
Document == INSTANCE ConfigurationDocument

\* No value of a Hyprland's state, nor a process, is the absence of one.
ASSUME NoneAssumption ==
    /\ None \notin Hyprland
    /\ None \notin BOOLEAN
    /\ None \notin Reloads!Files
    /\ None \notin [file: Reloads!Files, provider: Reloads!Providers]
    /\ None \notin Settings!Process

ASSUME RevisionAssumption == MaxRevision \in Nat \ {0}

ASSUME TokenAssumption == MaxToken \in Nat

\* hyprland.lua is the user's or absent before it is managed; a file is told apart
\* from no file, and so is a record of the publisher.
EntrypointFile == [kind: {"loader", "user"}, id: Nat]
EntrypointOwnership == [generation: Nat, original: EntrypointFile \cup {Missing}]
EntrypointBridge ==
    [phase: {"Staging", "Ready"}, token: Nat, before: EntrypointFile \cup {Missing},
     beforeOwnership: EntrypointOwnership \cup {Missing}]

ASSUME FileAssumption ==
    /\ InitialFiles \subseteq {Activation!UserFile(0), Missing}
    /\ Missing \notin EntrypointFile
    /\ Missing \notin EntrypointOwnership
    /\ Missing \notin EntrypointBridge

\* The captures of the version 2 authority, each with the part of the file
\* system that it reads: Layouts has the nodes, places and contents it may meet.
CaptureRecords ==
    INSTANCE FixedRecordCapture WITH
        Nodes <- Layouts.records.nodes, Directories <- Layouts.records.directories,
        Places <- Layouts.records.places, Own <- Layouts.records.own,
        Bytes <- Layouts.records.bytes, Root <- Layouts.records.root,
        Records <- Layouts.records.records

CaptureTrees ==
    INSTANCE GenerationTreeCapture WITH
        Nodes <- Layouts.trees.nodes, Directories <- Layouts.trees.directories,
        Places <- Layouts.trees.places, Own <- Layouts.trees.own,
        Bytes <- Layouts.trees.bytes, Root <- Layouts.trees.root,
        FileSpecs <- Layouts.trees.files, MaxTrees <- Layouts.trees.most,
        Nonces <- Layouts.trees.nonces, Requests <- Layouts.trees.requests

CaptureLegacy ==
    INSTANCE ReachableV1Capture WITH
        Nodes <- Layouts.legacy.nodes, Directories <- Layouts.legacy.directories,
        Places <- Layouts.legacy.places, Own <- Layouts.legacy.own,
        Bytes <- Layouts.legacy.bytes, Top <- Layouts.legacy.top,
        Roots <- Layouts.legacy.roots, Paths <- Layouts.legacy.paths,
        Records <- Layouts.legacy.records, FileNames <- Layouts.legacy.files,
        ValidNonces <- Layouts.legacy.nonces, MaxGenerations <- Layouts.legacy.most,
        Expectations <- Layouts.legacy.expectations

\* One of the captures runs, and others change what it reads.
CapturesInit ==
    \/ capture = "records" /\ CaptureRecords!Init
    \/ capture = "trees" /\ CaptureTrees!Init
    \/ capture = "legacy" /\ CaptureLegacy!Init

CapturesNext ==
    /\ UNCHANGED capture
    /\ \/ capture = "records" /\ CaptureRecords!Next
       \/ capture = "trees" /\ CaptureTrees!Next
       \/ capture = "legacy" /\ CaptureLegacy!Next

\* Those that rest do so in one of their initial states.
Init ==
    /\ subject \in {"activation", "settings", "visual", "captures", "generations",
                    "store", "reloads", "document"}
    /\ Activation!Init
    /\ subject # "activation" => loaded = Missing
    /\ Settings!Init
    /\ subject # "settings" => \A f \in Settings!Files : disk[f].status = "missing"
    /\ Visual!Init
    /\ subject # "visual" => Visual!ExactCurrent(service) /\ service.desired.rule
                             /\ config.sync["border"]
    /\ CapturesInit
    /\ subject # "captures" =>
           /\ capture = "records"
           /\ \A p \in DOMAIN volume.name : volume.name[p] # None
    /\ Generations!Init
    /\ subject # "generations" => custom = "missing"
    /\ PackageStore!Init
    /\ Reloads!Init
    /\ subject # "reloads" => entrypoint = "prior"
    /\ Document!Init
    /\ subject # "document" =>
           /\ topic = "options" /\ applied = None
           /\ desired.document = Document!DefaultDocument

OnlyActivation ==
    /\ subject = "activation"
    /\ UNCHANGED <<subject, stores, settings, visual, captures, reloads, document>>

OnlySettings ==
    /\ subject = "settings"
    /\ UNCHANGED <<subject, stores, activation, visual, captures, reloads, document>>

OnlyVisual ==
    /\ subject = "visual"
    /\ UNCHANGED <<subject, stores, activation, settings, captures, reloads, document>>

OnlyCaptures ==
    /\ subject = "captures"
    /\ UNCHANGED <<subject, stores, activation, settings, visual, reloads, document>>

OnlyGenerations ==
    /\ subject = "generations"
    /\ UNCHANGED <<subject, packageStore, parts>>

OnlyPackageStore ==
    /\ subject = "store"
    /\ UNCHANGED <<subject, generations, parts>>

OnlyReloads ==
    /\ subject = "reloads"
    /\ UNCHANGED <<subject, stores, activation, settings, visual, captures, document>>

OnlyDocument ==
    /\ subject = "document"
    /\ UNCHANGED <<subject, stores, activation, settings, visual, captures, reloads>>

Next ==
    \/ OnlyActivation /\ Activation!NextWhereKept
    \/ OnlySettings /\ Settings!Next
    \/ OnlyVisual /\ Visual!Next
    \/ OnlyCaptures /\ CapturesNext
    \/ OnlyGenerations /\ Generations!Next
    \/ OnlyPackageStore /\ PackageStore!DamagedNext
    \/ OnlyReloads /\ Reloads!Next
    \/ OnlyDocument /\ Document!Next

Spec == Init /\ [][Next]_vars

-----------------------------------------------------------------------------

(* The properties of each part, stated and explained in its module; a part *)
(* that rests is where it starts.                                          *)

\* No file of the user's is lost to the adoption of hyprland.lua or to the
\* creation of user-custom.lua.
UserFilesPreserved ==
    /\ subject = "activation" => Activation!UserFilesPreserved
    /\ subject = "generations" => Generations!CustomKept

\* What a crash leaves is what the next start can settle, and a service that is
\* ready has nothing left to settle: of hyprland.lua, and of the generations;
\* and the migration's preflight resolves it to the same.
CrashesSettle ==
    /\ subject = "activation" =>
           Activation!JournalsSettle /\ Activation!InterruptedActivationsUnderstood
    /\ subject = "generations" => Generations!GenerationsHold

\* What the authority has decided is never taken back.
DecisionNeverRolledBack == Activation!DecisionNeverRolledBack

\* The settings of the workspace switcher survive the move to another store, and
\* what clients were told is what the next start loads; of those of the
\* compositor only shared values are applied by themselves, and their state is
\* true; and what is configured is what Hyprland does.
SettingsHold ==
    /\ subject = "settings" => Settings!SettingsHold
    /\ subject = "visual" => Visual!SharedVisualHolds
    /\ subject = "document" => Document!DocumentHolds

\* A file of a later release is not touched.
FutureFilesKept == Settings!FutureFilesKept

\* What a capture returns was all on disk at one instant, whatever others
\* wrote, replaced, moved or removed while it looked.
CapturesAreOfOneInstant ==
    subject = "captures" =>
        /\ capture = "records" => CaptureRecords!CaptureHolds
        /\ capture = "trees" => CaptureTrees!CaptureHolds
        /\ capture = "legacy" => CaptureLegacy!CaptureHolds

\* What the manager takes over as its catalog is what the store holds.
AcceptedIsStored == subject = "store" => PackageStore!AcceptedIsStored

\* A reload that was proved, of an entrypoint that is still what was published,
\* is a reload of that entrypoint by the Hyprland that runs.
ReloadsAreProven == subject = "reloads" => Reloads!ReloadsAreProven

\* No step changes a package but the one that its request names, nor anything of
\* the configuration but what the edit names.
OnlyTheRequestedChanges ==
    PackageStore!OnlyTheRequestedChanges /\ Document!EditsAreAsAsked

-----------------------------------------------------------------------------
(* The instances that are checked: a hyprland.lua that exists before it is  *)
(* managed or does not, small directories for the captures, a store of three *)
(* components, and a few documents.                                        *)

\* Components of which one has two releases, the first of them built twice with
\* different bytes, and another depends on it.
MCComponent == {shared, leaf, extra}
MCVersion == {1, 2}
Release(id, version, digest) ==
    [id |-> id, version |-> version, digest |-> digest]
MCPackage ==
    {Release(shared, 1, 1), Release(shared, 1, 2), Release(shared, 2, 3),
     Release(leaf, 1, 4), Release(extra, 1, 5)}
MCNeeds == [p \in MCPackage |-> IF p.id = leaf THEN {shared} ELSE {}]

PresentOrAbsent == {[kind |-> "user", id |-> 0], Missing}

\* 1: the state directory; 2, 3: its records; 4: a file that is moved in.
RecordOwn == <<1, "desired">> :> 2 @@ <<1, "pending">> :> 3

RecordLayout ==
    [nodes |-> 1..4, directories |-> {1}, own |-> RecordOwn, places |-> DOMAIN RecordOwn,
     bytes |-> {<<1>>, <<2>>, <<1, 2>>}, root |-> 1, records |-> <<"desired", "pending">>]

SmallFiles ==
    <<[modules |-> FALSE, name |-> "manifest"], [modules |-> TRUE, name |-> "module"]>>

\* 1: the generations; 2: one of them, 3: its modules, 4, 5: its files; 6: a
\* file that is moved in.
TreeOwn ==
    <<1, "n1">> :> 2 @@ <<2, "modules">> :> 3 @@ <<2, "manifest">> :> 4
        @@ <<3, "module">> :> 5 @@ <<3, "stray">> :> None

TreeLayout ==
    [nodes |-> 1..6, directories |-> 1..3, own |-> TreeOwn, places |-> DOMAIN TreeOwn,
     bytes |-> {<<1>>, <<2>>, <<1, 2>>}, root |-> 1, files |-> SmallFiles, most |-> 2,
     nonces |-> <<"n1", "n2">>,
     requests |-> {<<"n1">>, <<"n1", "n1">>, <<"n1", "n2", "x">>}]

\* 1: the home; 2, 3: state and configuration; 4: the managed directory below
\* it; 5: its generations; 6: one of them, 7: its modules; 8, 9, 10: files.
LegacyOwn ==
    <<1, "state">> :> 2 @@ <<1, "config">> :> 3 @@ <<3, "hyprshelld">> :> 4
        @@ <<4, "generations">> :> 5 @@ <<2, "desired">> :> 8 @@ <<4, "ownership">> :> None
        @@ <<5, "n1">> :> 6 @@ <<6, "modules">> :> 7 @@ <<6, "manifest">> :> 9
        @@ <<7, "module">> :> 10

LegacyBytes == {<<1>>, <<2>>}

AsItIs ==
    LET bytes == CHOOSE b \in LegacyBytes : TRUE
    IN [records |-> <<[kind |-> "exact", bytes |-> bytes],
                      [kind |-> "missing", bytes |-> <<>>]>>,
        generations |-> <<[nonce |-> "n1",
                           files |-> [f \in {"manifest", "module"} |-> bytes]]>>]

LegacyLayout ==
    [nodes |-> 1..10, directories |-> 1..7, own |-> LegacyOwn, places |-> DOMAIN LegacyOwn,
     bytes |-> LegacyBytes, top |-> 1, roots |-> <<2, 3, 4, 5>>,
     paths |-> <<<<"state">>, <<"config">>, <<"config", "hyprshelld">>,
                 <<"config", "hyprshelld", "generations">>>>,
     records |-> <<<<2, "desired">>, <<4, "ownership">>>>,
     files |-> SmallFiles, nonces |-> {"n1", "n2"}, most |-> 2,
     expectations |-> {AsItIs, [AsItIs EXCEPT !.records[2].kind = "unsafe"],
                       [AsItIs EXCEPT !.generations = @ \o @]}]

SmallLayouts ==
    [records |-> RecordLayout, trees |-> TreeLayout, legacy |-> LegacyLayout]

\* What is written: for each topic a few edits of Settings and a few sections
\* that another client writes, wrong ones among them.
EditOf(op, values, sections) == [op |-> op, values |-> values, sections |-> sections]

OptionDrafts ==
    [edits |->
        {EditOf("all", v, <<>>) :
             v \in UNION {[S -> {"white", "red"}] :
                              S \in {{"text"}, {"text", "textInactive", "textLocked"}}}}
        \cup {EditOf("all", [xwayland |-> x], <<>>) : x \in BOOLEAN}
        \cup {EditOf("windows", [swallow |-> TRUE], <<>>),
              EditOf("advanced", [nearest |-> FALSE], <<>>)},
     writes |-> {[options |-> o] :
                     o \in {<<>>, [text |-> "red"], [textInactive |-> "red"],
                            [xwayland |-> TRUE], [glow |-> TRUE, glowRange |-> 5]}}]

CurveOf(name, type, value) ==
    [id |-> name, name |-> name, type |-> type, value |-> value, ok |-> TRUE]
AnimationOf(name, curve) == [id |-> name, name |-> name, curve |-> curve, ok |-> TRUE]

LookOf(c, a) == [curves |-> c, animations |-> a]
Windows(curve) == <<AnimationOf("windows", curve)>>
Looks ==
    {LookOf(<<>>, <<>>), LookOf(<<>>, Windows("linear")), LookOf(<<>>, Windows("a")),
     LookOf(<<CurveOf("a", "bezier", "v1")>>, Windows("linear")),
     LookOf(<<CurveOf("a", "bezier", "v2")>>, Windows("a")),
     LookOf(<<CurveOf("a", "spring", "v1")>>, Windows("a")),
     LookOf(<<CurveOf("default", "bezier", "v1")>>, Windows("default"))}

AppearanceDrafts ==
    [edits |-> {EditOf("appearance", [glow |-> FALSE, glowRange |-> 10], look) :
                    look \in Looks}
               \cup {EditOf("appearance", [glow |-> on, glowRange |-> 5],
                            LookOf(<<>>, Windows("linear"))) : on \in BOOLEAN},
     writes |-> Looks]

GestureOf(id, direction, action, scale) ==
    [id |-> id, fingers |-> 3, modifiers |-> "", direction |-> direction,
     action |-> action, scale |-> scale, ok |-> TRUE]
GestureRecords ==
    {GestureOf("g1", "left", "workspace", 1), GestureOf("g2", "horizontal", "move", 1),
     GestureOf("g1", "swipe", "scrollMove", 1), GestureOf("g3", "left", "unset", 1),
     GestureOf("g4", "pinchIn", "liveZoom", 2)}
GestureChoices ==
    {<<g>> : g \in GestureRecords \cup {GestureOf("g4", "pinchIn", "liveZoom", 1)}}
    \cup {gh \in GestureRecords \X GestureRecords : gh[1].id # gh[2].id}
    \cup {<<GestureOf("g1", "left", "workspace", 1), GestureOf("g3", "left", "unset", 1),
            GestureOf("g2", "horizontal", "move", 1)>>}

GestureDrafts ==
    [edits |-> {EditOf("input", [tap |-> FALSE], [gestures |-> g]) : g \in GestureChoices},
     writes |-> {[gestures |-> g] : g \in {c \in GestureChoices : Len(c) # 2}}]

RuleOf(id, name) == [id |-> id, name |-> name, ok |-> TRUE]
RuleChoices ==
    {<<>>, <<RuleOf("r1", "1")>>, <<RuleOf("r1", "1"), RuleOf("r2", "2")>>,
     <<RuleOf("r2", "f[1]")>>, <<RuleOf("r1", "1"), RuleOf("r2", "1")>>}

WorkspaceDrafts ==
    [edits |-> {EditOf("workspaces", [cycle |-> c], [workspaceRules |-> r]) :
                    c \in BOOLEAN, r \in RuleChoices},
     writes |-> {[workspaceRules |-> r] : r \in RuleChoices}
                \cup {[workspaceRules |-> <<RuleOf("shared", "f[1]")>> \o r] :
                          r \in RuleChoices}]

BindingOf(id, submap, key, target, enabled) ==
    [id |-> id, submap |-> submap, modifiers |-> "super", key |-> key,
     action |-> IF target = "" THEN "exec" ELSE "submap", target |-> target,
     enabled |-> enabled, ok |-> TRUE]
SubmapOf(name, reset, enabled) ==
    [id |-> name, name |-> name, reset |-> reset, enabled |-> enabled, ok |-> TRUE]
Resize(reset, enabled) == <<SubmapOf("resize", reset, enabled)>>
IntoResize == BindingOf("b2", "", "k", "resize", TRUE)
InResize == BindingOf("b3", "resize", "k", "", TRUE)
InMove == BindingOf("b4", "move", "catchall", "reset", TRUE)
KeymapOf(b, m) == [bindings |-> b, submaps |-> m]
Keymaps ==
    {KeymapOf(<<b>>, <<>>) :
         b \in {BindingOf("default.close", "", "k", "", TRUE), IntoResize,
                BindingOf("default.close", "", "Space", "", FALSE),
                BindingOf("b1", "", "Q", "", FALSE)}}
    \cup {KeymapOf(<<BindingOf("default.close", "", "k", "", TRUE), b>>, <<>>) :
              b \in {BindingOf("b1", "", "q", "", TRUE), BindingOf("b1", "", "K", "", FALSE),
                     BindingOf("b1", "", "K", "", TRUE)}}
    \cup {KeymapOf(<<IntoResize, b>>, m) :
              b \in {InResize, BindingOf("b3", "resize", "k", "", FALSE)},
              m \in {<<>>, Resize("reset", TRUE), Resize("", FALSE), Resize("move", TRUE),
                     Resize("resize", TRUE)}}
    \cup {KeymapOf(<<IntoResize, InResize, b>>,
                   Resize("move", TRUE) \o <<SubmapOf("move", reset, enabled)>>) :
              b \in {InMove, [InMove EXCEPT !.enabled = FALSE]},
              reset \in {"", "resize"}, enabled \in BOOLEAN}

KeyDrafts ==
    [edits |-> {EditOf("keys", <<>>, k) : k \in Keymaps}, writes |-> {KeymapOf(<<>>, <<>>)}]

MonitorOf(name, mirror) == [id |-> name, name |-> name, mirror |-> mirror, ok |-> TRUE]
MonitorChoices ==
    {<<>>} \cup
    {<<MonitorOf("m1", x), MonitorOf("m2", y), MonitorOf("m3", z)>> :
         x \in {"", "m1", "m2", "m4"}, y \in {"", "m1", "m3"}, z \in {"", "m2", "m1"}}

MonitorDrafts == [edits |-> {}, writes |-> {[monitors |-> m] : m \in MonitorChoices}]

RecordChoices == {<<>>, <<RuleOf("r1", "n")>>, <<RuleOf("r1", "n"), RuleOf("r2", "n")>>}
VariableOf(scope) == [id |-> "e", name |-> "PATH", scope |-> scope, ok |-> TRUE]

RecordDrafts ==
    [edits |-> {EditOf("rules", <<>>, [windowRules |-> w, layerRules |-> l]) :
                    w \in RecordChoices, l \in RecordChoices}
               \cup {EditOf("devices", <<>>, [devices |-> r]) : r \in RecordChoices}
               \cup {EditOf("permissions", <<>>, [permissions |-> r]) : r \in RecordChoices},
     writes |-> {[environment |-> e] :
                     e \in {<<>>, <<VariableOf("uwsm")>>, <<VariableOf("hyprland")>>}}]

SmallDrafts ==
    [options |-> OptionDrafts, appearance |-> AppearanceDrafts, input |-> GestureDrafts,
     workspaces |-> WorkspaceDrafts, keys |-> KeyDrafts, monitors |-> MonitorDrafts,
     records |-> RecordDrafts]

\* As shipped; of an older release, with what is no longer made; and with a glow
\* that is no longer taken.
OlderSections ==
    [options |-> [xwayland |-> FALSE, textInactive |-> "red"],
     curves |-> <<CurveOf("a", "bezier", "v1")>>,
     animations |-> <<AnimationOf("windows", "a")>>,
     gestures |-> <<GestureOf("g1", "left", "workspace", 1),
                    GestureOf("g5", "left", "unset", 1),
                    GestureOf("g4", "pinchIn", "liveZoom", 2)>>,
     submaps |-> <<SubmapOf("resize", "reset", TRUE)>>,
     bindings |-> <<BindingOf("b2", "", "k", "resize", TRUE),
                    BindingOf("b3", "resize", "k", "", TRUE)>>]

SmallSections ==
    {<<>>, OlderSections, [options |-> [glow |-> TRUE, glowRange |-> 5]]}

=============================================================================
