----------------------- MODULE ConfigurationDocument -----------------------
(***************************************************************************)
(* What the configuration of Hyprland says: the document that Settings     *)
(* edits (CompositorSnapshotEditor), that the service accepts              *)
(* (parseDesiredState) and judges (ActivationRequirement), that the        *)
(* renderer writes and that Hyprland, which keeps its curves over a        *)
(* reload, makes of it.  Settings edits the document it last read while    *)
(* other clients write theirs; how a document is stored and activated is   *)
(* ConfigurationTransaction's and ManagedActivation's.                     *)
(*                                                                         *)
(* A record's other fields, and their grammar, are its ok.                 *)
(***************************************************************************)
EXTENDS Naturals, Sequences, SequencesExt, TLC

CONSTANTS
    None,
    InitialSections,    \* what a document may first say beyond the default one
    Drafts,             \* of each topic, what is written in one behaviour: edits,
                        \* [op, values, sections], and sections others write
    MaxWrites           \* bound: documents stored

VARIABLES
    topic,
    desired,            \* the service's: [revision, document]
    client,             \* what Settings read of it
    edit,               \* its edit on the way: [asked, base, document]
    applied,            \* the document of the generation in effect, or None
    started,            \* the one Hyprland started under; None: its user's own
    curves              \* the curves that Hyprland knows, by type and name

vars == <<topic, desired, client, edit, applied, started, curves>>

-----------------------------------------------------------------------------
(* The catalog: the options that the properties tell apart.                *)

CatalogDefault ==
    [glow |-> FALSE, glowRange |-> 10, tap |-> FALSE, swallow |-> FALSE,
     cycle |-> FALSE, nearest |-> TRUE, xwayland |-> TRUE,
     text |-> "white", textInactive |-> None, textLocked |-> None]

Options == DOMAIN CatalogDefault

InheritedFrom == [textInactive |-> "text", textLocked |-> "textInactive"]

RestartOptions == {"xwayland"}

AppearanceOptions == {"glow", "glowRange"}
InputOptions == {"tap"}
WindowsOptions == {"swallow"}
WorkspacesOptions == {"cycle"}
AdvancedOptions == {"nearest"}

Groups ==
    [appearance |-> AppearanceOptions, input |-> InputOptions,
     windows |-> WindowsOptions, workspaces |-> WorkspacesOptions,
     advanced |-> AdvancedOptions]

Resolved(overrides) ==
    LET value[o \in Options] ==
            IF o \in DOMAIN overrides THEN overrides[o]
            ELSE IF o \in DOMAIN InheritedFrom THEN value[InheritedFrom[o]]
            ELSE CatalogDefault[o]
    IN value

Without(overrides, o) == [p \in DOMAIN overrides \ {o} |-> overrides[p]]

-----------------------------------------------------------------------------
(* The document.                                                           *)

SurfaceMode ==
    [monitors |-> "reload", devices |-> "restart", curves |-> "reload",
     animations |-> "reload", gestures |-> "reload", workspaceRules |-> "reload",
     windowRules |-> "reload", layerRules |-> "reload", submaps |-> "restart",
     bindings |-> "restart", permissions |-> "restart", environment |-> "session"]

Surfaces == DOMAIN SurfaceMode
Sections == Surfaces \cup {"options"}

SharedSpacingRule == [id |-> "shared", name |-> "f[1]", ok |-> TRUE]

DefaultDocument ==
    "workspaceRules" :> <<SharedSpacingRule>> @@ [s \in Sections |-> <<>>]

Unique(records, field) ==
    \A i, j \in DOMAIN records : records[i][field] = records[j][field] => i = j

RecordsAccepted(records) ==
    Unique(records, "id") /\ \A i \in DOMAIN records : records[i].ok

IdentitiesUnique(document) ==
    \A s \in {"monitors", "devices", "animations", "workspaceRules", "windowRules",
              "layerRules", "environment", "permissions"} :
        Unique(document[s], "name")

OptionsAccepted(overrides) ==
    \A o \in DOMAIN overrides : o \in Options /\ overrides[o] # CatalogDefault[o]

\* Monitors: a monitor's mirror, followed from one managed monitor to the next.
MirrorsOf(monitors) ==
    [name \in {monitors[i].name : i \in DOMAIN monitors} |->
        monitors[CHOOSE i \in DOMAIN monitors : monitors[i].name = name].mirror]

Followed(next, first, records) ==
    LET Step(path, record) ==
            Append(path, IF Last(path) \in DOMAIN next THEN next[Last(path)] ELSE "")
    IN FoldLeft(Step, <<first>>, records)

\* Faulty variant of MirrorsInCircle: only a monitor that mirrors itself.
MirrorsItself(monitors, i) == monitors[i].mirror = monitors[i].name

MirrorsInCircle(monitors, i) ==
    LET target == Followed(MirrorsOf(monitors), monitors[i].mirror, monitors)
    IN \E k \in DOMAIN target :
           /\ target[k] # ""
           /\ \/ target[k] = monitors[i].name
              \/ \E j \in 1..(k - 1) : target[j] = target[k]

MonitorsAccepted(monitors) ==
    \A i \in DOMAIN monitors : ~MirrorsInCircle(monitors, i)

\* Curves: two are built in.
CurveNames(records) == {records[i].name : i \in DOMAIN records}

CurvesAccepted(records) ==
    /\ Unique(records, "name")
    /\ \A i \in DOMAIN records : records[i].type \in {"bezier", "spring"}

AnimationsAccepted(document) ==
    \A i \in DOMAIN document.animations :
        document.animations[i].curve \in
            {"default", "linear"} \cup CurveNames(document.curves)

\* Gestures: a registry that Hyprland searches in order.
Axis(direction) ==
    CASE direction \in {"up", "down", "vertical"} -> "vertical"
      [] direction \in {"left", "right", "horizontal"} -> "horizontal"
      [] direction \in {"pinch", "pinchIn", "pinchOut"} -> "pinch"
      [] OTHER -> "swipe"

GestureTuple(g) == <<g.fingers, g.direction, g.modifiers, g.scale>>

Shadows(prior, g) ==
    /\ prior.fingers = g.fingers
    /\ prior.modifiers = g.modifiers
    /\ \/ prior.direction \in {Axis(g.direction), g.direction}
       \/ prior.direction = "swipe" /\ Axis(g.direction) \in {"vertical", "horizontal"}

RegisterGesture(registry, g) ==
    LET Others == SelectSeq(registry.active, LAMBDA a : GestureTuple(a) # GestureTuple(g))
    IN IF g.action = "unset"
       THEN [active |-> Others, valid |-> registry.valid /\ Others # registry.active]
       ELSE [active |-> Append(registry.active, g),
             valid |-> /\ registry.valid
                       /\ \A i \in DOMAIN registry.active : ~Shadows(registry.active[i], g)]

GestureRegistry(gestures) ==
    FoldLeft(RegisterGesture, [active |-> <<>>, valid |-> TRUE], gestures)

\* Workspace rules: one identity, and one exact rule, are the service's.
HasProtectedIdentity(rule) ==
    rule.id = SharedSpacingRule.id \/ rule.name = SharedSpacingRule.name

WorkspaceRulesAccepted(rules) ==
    \A i \in DOMAIN rules : HasProtectedIdentity(rules[i]) => rules[i] = SharedSpacingRule

\* Key bindings: two of the shipped defaults, and what a user's record replaces.
ShippedDefaults ==
    <<[id |-> "default.launch", submap |-> "", modifiers |-> "super", key |-> "Space",
       action |-> "exec", target |-> "", enabled |-> TRUE, ok |-> TRUE],
      [id |-> "default.close", submap |-> "", modifiers |-> "super", key |-> "q",
       action |-> "exec", target |-> "", enabled |-> TRUE, ok |-> TRUE]>>

UpperCase(key) == CASE key = "q" -> "Q" [] key = "k" -> "K" [] OTHER -> key

NormalizedChord(b) == <<b.submap, b.modifiers, UpperCase(b.key)>>

MatchedDefault(b) ==
    LET byId == {d \in DOMAIN ShippedDefaults : ShippedDefaults[d].id = b.id}
    IN IF byId # {} THEN byId
       ELSE {d \in DOMAIN ShippedDefaults :
                 NormalizedChord(ShippedDefaults[d]) = NormalizedChord(b)}

ReplacedDefaults(bindings) ==
    UNION {MatchedDefault(bindings[i]) : i \in DOMAIN bindings}

DefaultsReplacedOnce(bindings) ==
    \A i, j \in DOMAIN bindings :
        i # j => MatchedDefault(bindings[i]) \cap MatchedDefault(bindings[j]) = {}

\* Faulty variant of ChordsUnique: of the keys as they are written.
ChordsUniqueAsWritten(bindings) ==
    LET Written(b) == <<b.submap, b.modifiers, b.key>>
    IN /\ \A i, j \in DOMAIN bindings : Written(bindings[i]) = Written(bindings[j]) => i = j
       /\ \A i \in DOMAIN bindings :
              \A d \in DOMAIN ShippedDefaults \ ReplacedDefaults(bindings) :
                  Written(bindings[i]) # Written(ShippedDefaults[d])

\* Disabled records count too.
ChordsUnique(bindings) ==
    /\ \A i, j \in DOMAIN bindings :
           NormalizedChord(bindings[i]) = NormalizedChord(bindings[j]) => i = j
    /\ \A i \in DOMAIN bindings :
           \A d \in DOMAIN ShippedDefaults \ ReplacedDefaults(bindings) :
               NormalizedChord(bindings[i]) # NormalizedChord(ShippedDefaults[d])

EnabledSubmaps(document) ==
    {document.submaps[i].name :
         i \in {j \in DOMAIN document.submaps : document.submaps[j].enabled}}

HasEnabledBinding(document, name) ==
    \E i \in DOMAIN document.bindings :
        document.bindings[i].enabled /\ document.bindings[i].submap = name

ResetsOf(submaps) ==
    [name \in {submaps[i].name : i \in DOMAIN submaps} |->
        submaps[CHOOSE i \in DOMAIN submaps : submaps[i].name = name].reset]

ResetsInCircle(submaps, i) ==
    LET target == Followed(ResetsOf(submaps), submaps[i].reset, submaps)
    IN \E k \in DOMAIN target :
           /\ target[k] \in DOMAIN ResetsOf(submaps)
           /\ \/ target[k] = submaps[i].name
              \/ \E j \in 1..(k - 1) : target[j] = target[k]

SubmapsAccepted(document) ==
    LET submaps == document.submaps
    IN /\ Unique(submaps, "name")
       /\ \A i \in DOMAIN submaps :
              /\ submaps[i].name \notin {"", "reset"}
              /\ submaps[i].reset \notin {"", "reset"} =>
                     /\ submaps[i].reset \in DOMAIN ResetsOf(submaps)
                     /\ submaps[i].enabled =>
                            submaps[i].reset \in EnabledSubmaps(document)
              /\ ~ResetsInCircle(submaps, i)
              /\ submaps[i].enabled => HasEnabledBinding(document, submaps[i].name)

BindingScopeAccepted(document, b) ==
    /\ b.submap = "" =>
           b.key # "catchall"
    /\ b.submap # "" =>
           /\ b.submap \in DOMAIN ResetsOf(document.submaps)
           /\ b.enabled => b.submap \in EnabledSubmaps(document)
    /\ b.action = "submap" /\ b.target # "reset" =>
           /\ b.target \in DOMAIN ResetsOf(document.submaps)
           /\ b.enabled => /\ b.target \in EnabledSubmaps(document)
                           /\ HasEnabledBinding(document, b.target)

BindingsAccepted(document) ==
    /\ DefaultsReplacedOnce(document.bindings)
    /\ ChordsUnique(document.bindings)
    /\ \A i \in DOMAIN document.bindings :
           BindingScopeAccepted(document, document.bindings[i])

\* parseDesiredState.
Accepted(document) ==
    /\ OptionsAccepted(document.options)
    /\ \A s \in Surfaces : RecordsAccepted(document[s])
    /\ IdentitiesUnique(document)
    /\ MonitorsAccepted(document.monitors)
    /\ CurvesAccepted(document.curves)
    /\ AnimationsAccepted(document)
    /\ GestureRegistry(document.gestures).valid
    /\ WorkspaceRulesAccepted(document.workspaceRules)
    /\ SubmapsAccepted(document)
    /\ BindingsAccepted(document)

\* validateManagedActivationSafety: a narrow inner glow crashes Hyprland.
Safe(document) ==
    LET value == Resolved(document.options)
    IN value.glow => value.glowRange >= 10

-----------------------------------------------------------------------------
(* The editor of Settings.                                                 *)

Overridden(overrides, values, kept) ==
    [o \in (DOMAIN overrides \ DOMAIN values) \cup kept |->
        IF o \in kept THEN values[o] ELSE overrides[o]]

\* replaceGroupValues: a group's options inherit nothing.
GroupReplaced(overrides, values) ==
    Overridden(overrides, values,
               {o \in DOMAIN values : values[o] # CatalogDefault[o]})

\* Faulty variant of AllReplaced: the default that the option has.
AllReplacedByOldDefaults(overrides, values) ==
    Overridden(overrides, values,
               {o \in DOMAIN values : values[o] # Resolved(Without(overrides, o))[o]})

\* replaceAllOptionValues: what is asked for is an override unless it is the
\* default that the option will have.
AllReplaced(overrides, values) ==
    LET provisional == values @@ overrides
    IN Overridden(overrides, values,
                  {o \in DOMAIN values :
                       values[o] # Resolved(Without(provisional, o))[o]})

CurveTypes(records) ==
    {<<records[i].name, records[i].type>> : i \in DOMAIN records}

\* replaceAppearance: no structure of curves is changed from Settings.
CurvesEditable(before, after) ==
    /\ CurvesAccepted(before) /\ CurvesAccepted(after)
    /\ CurveTypes(before) = CurveTypes(after)

IsPinch(direction) == direction \in {"pinch", "pinchIn", "pinchOut"}

\* authoredGestureError.
AuthoredGesture(g) ==
    /\ g.action # "unset"
    /\ IsPinch(g.direction) => g.scale = 1 /\ g.action # "scrollMove"
    /\ g.action = "liveZoom" => IsPinch(g.direction)

\* replaceInput: what is not authored so is kept, moved or removed.
GesturesEditable(before, after) ==
    \A i \in DOMAIN after :
        \/ \E j \in DOMAIN before : before[j] = after[i]
        \/ /\ AuthoredGesture(after[i])
           /\ \A j \in DOMAIN before :
                  before[j].id = after[i].id => AuthoredGesture(before[j])

\* replaceWorkspaces: the service's rule is there, the last, and out of reach.
WorkspaceRulesEditable(before, after) ==
    /\ before # <<>> /\ before[Len(before)] = SharedSpacingRule
    /\ \A i \in 1..(Len(before) - 1) : ~HasProtectedIdentity(before[i])
    /\ \A i \in DOMAIN after : ~HasProtectedIdentity(after[i])

Editable(document, e) ==
    /\ e.op \in DOMAIN Groups => DOMAIN e.values = Groups[e.op]
    /\ e.op = "appearance" => CurvesEditable(document.curves, e.sections.curves)
    /\ e.op = "input" => GesturesEditable(document.gestures, e.sections.gestures)
    /\ e.op = "workspaces" =>
           WorkspaceRulesEditable(document.workspaceRules, e.sections.workspaceRules)

Edited(document, e) ==
    LET Replaced(overrides) == IF e.op = "all" THEN AllReplaced(overrides, e.values)
                               ELSE GroupReplaced(overrides, e.values)
        own == document.workspaceRules[Len(document.workspaceRules)]
        sections == IF e.op = "workspaces"
                    THEN [e.sections EXCEPT !.workspaceRules = Append(@, own)]
                    ELSE e.sections
    IN "options" :> Replaced(document.options) @@ sections @@ document

-----------------------------------------------------------------------------
(* What a document requires of Hyprland, and what it makes of one.         *)

ModeOf(o) == IF o \in RestartOptions THEN "restart" ELSE "reload"

Strongest(modes) ==
    CASE "session" \in modes -> "session"
      [] "restart" \in modes -> "restart"
      [] OTHER -> "reload"

RequirementOf(document) ==
    Strongest({ModeOf(o) : o \in DOMAIN document.options}
              \cup {SurfaceMode[s] : s \in {t \in Surfaces : document[t] # <<>>}}
              \cup (IF document.curves # <<>> THEN {"restart"} ELSE {}))

\* Faulty variant of ChangedOptions: those of the document that is applied.
ChangedOptionsOfTarget(before, after) ==
    {o \in DOMAIN after : o \notin DOMAIN before \/ before[o] # after[o]}

ChangedOptions(before, after) ==
    {o \in DOMAIN before \cup DOMAIN after :
        \/ o \notin DOMAIN before \cap DOMAIN after
        \/ before[o] # after[o]}

\* Faulty variant of Requirement: curves are a surface like any other.
RequirementOfSurfaces(before, after) ==
    IF before = None THEN RequirementOf(after)
    ELSE Strongest({ModeOf(o) : o \in ChangedOptions(before.options, after.options)}
                   \cup {SurfaceMode[s] : s \in {t \in Surfaces : before[t] # after[t]}})

Requirement(before, after) ==
    IF before = None THEN RequirementOf(after)
    ELSE Strongest({ModeOf(o) : o \in ChangedOptions(before.options, after.options)}
                   \cup {SurfaceMode[s] : s \in {t \in Surfaces : before[t] # after[t]}}
                   \cup (IF CurveTypes(before.curves) # CurveTypes(after.curves)
                         THEN {"restart"} ELSE {}))

\* The renderer's: what it has no statement for yet.
Renderable(document) ==
    /\ \A i \in DOMAIN document.bindings :
           document.bindings[i].enabled => document.bindings[i].action # "broker"
    /\ \A i \in DOMAIN document.environment :
           document.environment[i].scope = "hyprland"

\* hl.curve: the two of Hyprland's own first, then the document's.
BuiltinCurves ==
    <<"bezier", "default">> :> "builtin" @@ <<"spring", "default">> :> "builtin"
        @@ <<"bezier", "linear">> :> "builtin"

CurveStatements(records) ==
    [key \in {<<records[i].type, records[i].name>> : i \in DOMAIN records} |->
        records[CHOOSE i \in DOMAIN records :
                    <<records[i].type, records[i].name>> = key].value]

\* Faulty variant of Registered: Hyprland has its own curves already.
RegisteredOwn(known, document) ==
    CurveStatements(document.curves) @@ known

Registered(known, document) ==
    CurveStatements(document.curves) @@ BuiltinCurves @@ known

\* hl.animation names its curve as a spring only if the document has it so.
AnimationCurve(document, a) ==
    <<IF \E i \in DOMAIN document.curves :
             document.curves[i].name = a.curve /\ document.curves[i].type = "spring"
      THEN "spring" ELSE "bezier", a.curve>>

\* The user's own configuration has curves too.
OwnCurves ==
    <<"bezier", "linear">> :> "own" @@ <<"bezier", "mine">> :> "own"

CurvesAtStart(document) ==
    IF document = None THEN OwnCurves @@ BuiltinCurves
    ELSE Registered(BuiltinCurves, document)

\* hl.bind and hl.define_submap: the defaults that are left, the bindings of the
\* submaps that are enabled, then those outside.
BindStatements(document) ==
    {[of |-> "default", index |-> d] :
         d \in DOMAIN ShippedDefaults \ ReplacedDefaults(document.bindings)}
    \cup {[of |-> "user", index |-> i] :
            i \in {j \in DOMAIN document.bindings :
                      /\ document.bindings[j].enabled
                      /\ document.bindings[j].submap \in
                             {""} \cup EnabledSubmaps(document)}}

BindingOf(document, statement) ==
    IF statement.of = "default" THEN ShippedDefaults[statement.index]
    ELSE document.bindings[statement.index]

-----------------------------------------------------------------------------
(* The service, its clients and Hyprland.                                  *)

Init ==
    /\ topic \in DOMAIN Drafts
    /\ \E d \in {sections @@ DefaultDocument : sections \in InitialSections} :
          /\ Accepted(d)
          /\ desired = [revision |-> 0, document |-> d]
          /\ applied \in {None} \cup {x \in {d} : Safe(x)}
    /\ client = desired
    /\ edit = None
    /\ started = applied
    /\ curves = CurvesAtStart(applied)

\* One of the editor's operations, on what Settings has read; nothing is sent
\* when nothing changes.
Edit ==
    /\ edit = None
    /\ \E e \in Drafts[topic].edits :
          /\ Editable(client.document, e)
          /\ LET document == Edited(client.document, e)
             IN /\ Accepted(document)
                /\ document # client.document /\ Safe(document)
                /\ edit' = [asked |-> e, base |-> client.revision,
                            document |-> document]
    /\ UNCHANGED <<topic, desired, client, applied, started, curves>>

Store(document) ==
    /\ Accepted(document) /\ Safe(document)
    /\ desired' = [revision |-> desired.revision + 1, document |-> document]

\* Faulty variant of Receive: whatever the edit was made from.
ReceiveLate ==
    /\ edit # None
    /\ edit' = None
    /\ IF desired.revision < MaxWrites THEN Store(edit.document) ELSE UNCHANGED desired
    /\ UNCHANGED <<topic, client, applied, started, curves>>

\* replaceDesired.
Receive ==
    /\ edit # None
    /\ edit' = None
    /\ IF edit.base = desired.revision /\ desired.revision < MaxWrites
       THEN Store(edit.document)
       ELSE UNCHANGED desired
    /\ UNCHANGED <<topic, client, applied, started, curves>>

\* Any other client, with a document of its own making.
Write ==
    /\ desired.revision < MaxWrites
    /\ \E sections \in Drafts[topic].writes :
          /\ sections @@ desired.document # desired.document
          /\ Store(sections @@ desired.document)
    /\ UNCHANGED <<topic, client, edit, applied, started, curves>>

Refresh ==
    /\ client # desired
    /\ client' = desired
    /\ UNCHANGED <<topic, desired, edit, applied, started, curves>>

\* Apply: only what a reload brings about.
Applicable ==
    /\ applied # desired.document
    /\ Safe(desired.document)
    /\ Requirement(applied, desired.document) = "reload"
    /\ Renderable(desired.document)

Apply ==
    /\ Applicable
    /\ applied' = desired.document
    /\ curves' = Registered(curves, desired.document)
    /\ UNCHANGED <<topic, desired, client, edit, started>>

\* It was loaded, could not be proved, and what was there before is loaded again.
ApplyFails ==
    /\ Applicable
    /\ curves' = IF applied = None THEN OwnCurves @@ Registered(curves, desired.document)
                 ELSE Registered(Registered(curves, desired.document), applied)
    /\ UNCHANGED <<topic, desired, client, edit, applied, started>>

RestartHyprland ==
    /\ started' = applied
    /\ curves' = CurvesAtStart(applied)
    /\ UNCHANGED <<topic, desired, client, edit, applied>>

Next ==
    \/ Edit \/ Receive \/ Write \/ Refresh
    \/ Apply \/ ApplyFails \/ RestartHyprland

Spec == Init /\ [][Next]_vars

-----------------------------------------------------------------------------

\* No mirror, and no reset, leads back to where it came from.
NoCircle(next) ==
    \A names \in SUBSET DOMAIN next \ {{}} : \E n \in names : next[n] \notin names

NoCircles ==
    /\ NoCircle(MirrorsOf(desired.document.monitors))
    /\ NoCircle(ResetsOf(desired.document.submaps))

\* What a gesture listens to.
Movements(direction) ==
    CASE direction = "swipe" -> {"up", "down", "left", "right"}
      [] direction = "vertical" -> {"up", "down"}
      [] direction = "horizontal" -> {"left", "right"}
      [] direction = "pinch" -> {"pinchIn", "pinchOut"}
      [] OTHER -> {direction}

\* No gesture is wholly taken by an earlier one, whatever was unset in between.
GesturesRespond ==
    LET active == GestureRegistry(desired.document.gestures).active
    IN \A j \in DOMAIN active : \A i \in 1..(j - 1) :
           active[i].fingers = active[j].fingers
           /\ active[i].modifiers = active[j].modifiers
           => ~(Movements(active[j].direction) \subseteq Movements(active[i].direction))

\* The keymap that would be rendered: a key does one thing in each submap; what a
\* user has enabled is bound; what the user has not touched is bound as shipped;
\* a key into a submap leads somewhere from which a key leads on.
KeyPressed(b) == <<b.submap, b.modifiers, UpperCase(b.key)>>

KeymapHolds ==
    LET document == desired.document
        statements == BindStatements(document)
        bindings == document.bindings
    IN /\ \A s, t \in statements :
              KeyPressed(BindingOf(document, s)) = KeyPressed(BindingOf(document, t))
              => s = t
       /\ \A i \in DOMAIN bindings :
              bindings[i].enabled => [of |-> "user", index |-> i] \in statements
       /\ \A d \in DOMAIN ShippedDefaults :
              \/ [of |-> "default", index |-> d] \in statements
              \/ \E i \in DOMAIN bindings :
                    \/ bindings[i].id = ShippedDefaults[d].id
                    \/ KeyPressed(bindings[i]) = KeyPressed(ShippedDefaults[d])
       /\ \A s \in statements :
              LET target == BindingOf(document, s).target
              IN target \notin {"", "reset"} =>
                     \E t \in statements : BindingOf(document, t).submap = target
       /\ \A name \in EnabledSubmaps(document) :
              ResetsOf(document.submaps)[name] \in
                  {"", "reset"} \cup EnabledSubmaps(document)

\* What cannot be changed by a reload is as Hyprland started with it.
StartOnly(document) ==
    [s \in {"devices", "submaps", "bindings", "permissions", "environment"} |->
        document[s]]

RestartPartsRun ==
    applied # None =>
        LET running == IF started = None THEN DefaultDocument ELSE started
        IN /\ StartOnly(applied) = StartOnly(running)
           /\ \A o \in RestartOptions :
                  Resolved(applied.options)[o] = Resolved(running.options)[o]

\* Each animation has the curve that the document gives it, or the built-in one;
\* and no curve is left of a document that is not in effect: Hyprland knows those
\* it would know, had it started now, and its user's own.
CurvesAreTheDocuments ==
    applied # None =>
        /\ \A i \in DOMAIN applied.animations :
              LET a == applied.animations[i]
                  own == {j \in DOMAIN applied.curves : applied.curves[j].name = a.curve}
                  key == AnimationCurve(applied, a)
              IN /\ key \in DOMAIN curves
                 /\ IF own = {} THEN curves[key] = "builtin"
                    ELSE \E j \in own : curves[key] = applied.curves[j].value
        /\ curves = IF started = None THEN Registered(CurvesAtStart(None), applied)
                    ELSE CurvesAtStart(applied)

DocumentHolds ==
    /\ NoCircles
    /\ GesturesRespond
    /\ KeymapHolds
    /\ applied # None => Safe(applied)
    /\ RestartPartsRun
    /\ CurvesAreTheDocuments

\* An edit that the service takes does what was asked for, to what is there then:
\* the options asked have those values, no other override and no other section
\* changes, the service's own rule stays the last, no gesture of an older release
\* is made or altered, and no curve comes, goes or changes its type.
TakenAsAsked(e, before, after) ==
    /\ \A o \in DOMAIN e.values : Resolved(after.options)[o] = e.values[o]
    /\ \A o \in DOMAIN before.options \cup DOMAIN after.options :
           o \in DOMAIN e.values
           \/ /\ o \in DOMAIN before.options \cap DOMAIN after.options
              /\ before.options[o] = after.options[o]
    /\ \A s \in Surfaces : after[s] # before[s] => s \in DOMAIN e.sections
    /\ e.op = "workspaces" =>
           after.workspaceRules[Len(after.workspaceRules)] = SharedSpacingRule
    /\ e.op = "input" =>
           \A i \in DOMAIN after.gestures :
               \/ \E j \in DOMAIN before.gestures : before.gestures[j] = after.gestures[i]
               \/ /\ AuthoredGesture(after.gestures[i])
                  /\ \A j \in DOMAIN before.gestures :
                         before.gestures[j].id = after.gestures[i].id =>
                             AuthoredGesture(before.gestures[j])
    /\ e.op = "appearance" => CurveTypes(before.curves) = CurveTypes(after.curves)

EditsAreAsAsked ==
    [][edit # None /\ edit' = None /\ desired' # desired =>
           TakenAsAsked(edit.asked, desired.document, desired'.document)]_vars

=============================================================================
