------------------------ MODULE ServiceParts_proofs ------------------------
(***************************************************************************)
(* For every number of Hyprlands, disruptions, edits, transitions and      *)
(* revisions: what the service takes for the proof of a reload is one; a   *)
(* settings file of a later release is not touched; no file of the user's  *)
(* is lost to the adoption of hyprland.lua; and what the authority decided *)
(* stays the entrypoint.                                                   *)
(***************************************************************************)
EXTENDS ServiceParts, TLAPS

-----------------------------------------------------------------------------
(* The reloads: what is true of them between any two steps *)

Modes == {"ManagedReload", "AdoptionFullReset", "ManagedRollback", "LegacyRollback"}
Pinned ==
    {"pinned", "drained", "sent", "waiting", "reloaded", "errors", "provider",
     "prepared", "proved", "verified", "failed"}
Resting == {"idle", "ended"}
Steps == Pinned \cup Resting \cup {"resolving"}

LoadType == [file: Reloads!Files, provider: Reloads!Providers]
LoadedType == [file: Reloads!Files, provider: Reloads!Providers, errors: BOOLEAN]
HyprlandType ==
    [started: BOOLEAN, runs: BOOLEAN, directory: BOOLEAN, kind: Reloads!Kinds \cup {None},
     loaded: LoadedType \cup {None}, loading: LoadType \cup {None},
     asked: BOOLEAN \cup {None}]

BaselineType == [errors: BOOLEAN, provider: Reloads!Providers \cup {None}]
BeforeType == [file: Reloads!Before, errors: BOOLEAN, provider: Reloads!Providers \cup {None}]

\* What the world and the service have, each of its kind.
WorldTypes ==
    /\ hyprlands \in [Hyprland -> HyprlandType]
    /\ environment \in Hyprland \cup {None}
    /\ entrypoint \in Reloads!Files
    /\ userCustom \in BOOLEAN
    /\ stream \in Seq(Reloads!Loaders \cup {"configreloaded"})
    /\ evidence \subseteq LoadedType

RuntimeTypes ==
    runtime \in
        [step: Steps, mode: Modes \cup {None}, pinned: Hyprland \cup {None},
         request: {"none", "sent", "answered"}, full: BOOLEAN, proving: BOOLEAN,
         baseline: BaselineType \cup {None}, before: BeforeType \cup {None},
         published: BOOLEAN]

\* A loader is written in Lua.
InLua(load) == load.file \in Reloads!Loaders => load.provider = "lua"

\* A Hyprland that runs has loaded something, and only one that runs loads.
HyprlandHolds(h) ==
    /\ h.runs => h.started /\ h.loaded \in LoadedType /\ InLua(h.loaded)
    /\ h.loading # None => h.runs /\ InLua(h.loading)
    /\ h.asked # None => h.runs

HyprlandsHold ==
    /\ \A p \in Hyprland : HyprlandHolds(hyprlands[p])
    /\ \A load \in evidence : InLua(load)

\* What a session is for is settled where it begins.
PurposeHolds ==
    runtime.step \notin Resting =>
        /\ runtime.mode \in Modes
        /\ runtime.before \in BeforeType
        /\ Reloads!Managed(runtime.mode) <=> runtime.before.file = "prior"
        /\ /\ runtime.before.file = "prior"
           /\ runtime.published \/ Reloads!RollbackMode(runtime.mode)
           => runtime.before.provider = "lua"

\* It has one Hyprland, which never starts again, and one request at a time.
SessionHolds ==
    /\ runtime.step \in Pinned =>
           runtime.pinned \in Hyprland /\ hyprlands[runtime.pinned].started
    /\ runtime.step \notin Pinned => runtime.pinned = None
    /\ runtime.request # "none" <=> runtime.step = "sent"
    /\ runtime.proving =>
           /\ runtime.published
           /\ runtime.full <=> Reloads!FullReset(runtime.mode)
           /\ runtime.step \in Pinned \ {"pinned", "prepared", "failed"}
    /\ runtime.step \in {"proved", "verified"} => runtime.proving

\* The first of its two reloads says what there was.
BaselineHolds ==
    ~runtime.proving =>
        /\ runtime.step \in {"errors", "provider", "prepared"} =>
               runtime.baseline \in BaselineType
        /\ /\ runtime.step \in {"provider", "prepared"}
           /\ ~runtime.published /\ runtime.mode = "ManagedReload"
           => runtime.baseline.provider = "lua"

\* While the entrypoint is what was published, the nonce of a loader in the
\* stream, or read from it, is of a load of that file, and Hyprland loads no
\* other.
Known == {"reloaded", "errors", "provider", "proved"}
Expects(file) == runtime.proving /\ Reloads!Expected = file /\ entrypoint = file
Heard(file) ==
    runtime.step \in Known \/ \E i \in DOMAIN stream : stream[i] = file
OnlyLoads(h, file) ==
    h.loaded.file = file /\ (h.loading # None => h.loading.file = file)

LoaderHolds ==
    \A file \in Reloads!Loaders :
        Expects(file) =>
            /\ Heard(file) =>
                   /\ \E load \in evidence : load.file = file
                   /\ hyprlands[runtime.pinned].runs =>
                          /\ hyprlands[runtime.pinned].loaded \in evidence
                          /\ OnlyLoads(hyprlands[runtime.pinned], file)
            /\ runtime.step \in Known \ {"reloaded"} =>
                   \E load \in evidence :
                       load.file = file /\ load.errors \in Reloads!AcceptedErrors

\* A file without a nonce is asked for, loading or loaded since the answer.
Answered == runtime.request = "answered" \/ runtime.step \in Known \cup {"waiting"}
AsFile(load, file) == load.file = file /\ load.provider = Reloads!ProviderFor(file)

OtherHolds ==
    \A file \in {"user", "missing"} :
        Expects(file) /\ Answered /\ hyprlands[runtime.pinned].runs =>
            \/ hyprlands[runtime.pinned].asked = TRUE
            \/ /\ hyprlands[runtime.pinned].loading # None
               /\ AsFile(hyprlands[runtime.pinned].loading, file)
            \/ /\ AsFile(hyprlands[runtime.pinned].loaded, file)
               /\ hyprlands[runtime.pinned].loading = None

ReloadInv ==
    /\ WorldTypes
    /\ RuntimeTypes
    /\ HyprlandsHold
    /\ PurposeHolds
    /\ SessionHolds
    /\ BaselineHolds
    /\ LoaderHolds
    /\ OtherHolds

-----------------------------------------------------------------------------
(* What Hyprland does *)

\* What Hyprland reads is a load, and of the entrypoint when it is asked for a
\* full reset or has taken that file already.
LEMMA ReadIs ==
    ASSUME WorldTypes, NEW p \in Hyprland, NEW full \in BOOLEAN,
           hyprlands[p].loaded \in LoadedType
    PROVE  /\ Reloads!Read(p, full) \in LoadType
           /\ Reloads!Read(p, full) # None
           /\ InLua(Reloads!Read(p, full))
           /\ full => AsFile(Reloads!Read(p, full), entrypoint)
           /\ AsFile(hyprlands[p].loaded, entrypoint) =>
                     AsFile(Reloads!Read(p, full), entrypoint)
  <1>1. /\ entrypoint \in Reloads!Files
        /\ Reloads!ProviderFor(entrypoint) \in Reloads!Providers
        /\ "missing" \in Reloads!Files
    BY DEF WorldTypes, Reloads!ProviderFor, Reloads!Providers, Reloads!Files
  <1>2. /\ Reloads!Read(p, full) \in LoadType
        /\ InLua(Reloads!Read(p, full))
    BY <1>1 DEF Reloads!Read, LoadType, InLua, Reloads!Loaders, Reloads!Providers,
                Reloads!ProviderFor
  <1>3. Reloads!Read(p, full) # None
    BY <1>2, NoneAssumption DEF LoadType
  <1>4. /\ full => AsFile(Reloads!Read(p, full), entrypoint)
        /\ AsFile(hyprlands[p].loaded, entrypoint) =>
                  AsFile(Reloads!Read(p, full), entrypoint)
    BY <1>1 DEF Reloads!Read, AsFile, Reloads!ProviderFor, Reloads!Files,
                Reloads!Loaders
  <1> QED
    BY <1>2, <1>3, <1>4

\* What it has loaded then is of the file that it read.
LEMMA LoadsAre ==
    ASSUME WorldTypes, NEW read \in LoadType, NEW load \in Reloads!Loads(read)
    PROVE  load \in LoadedType /\ load.file = read.file /\ load.provider = read.provider
  <1>1. Reloads!ErrorsOf(read) \subseteq BOOLEAN
    <2>1. userCustom \in BOOLEAN
      BY DEF WorldTypes
    <2> QED
      BY <2>1, Zenon DEF Reloads!ErrorsOf
  <1>2. PICK errors \in BOOLEAN :
            load = [file |-> read.file, provider |-> read.provider, errors |-> errors]
    BY <1>1 DEF Reloads!Loads
  <1>3. read.file \in Reloads!Files /\ read.provider \in Reloads!Providers
    BY DEF LoadType
  <1> QED
    BY <1>2, <1>3 DEF LoadedType

\* One Hyprland becomes h.
LEMMA OneChanges ==
    ASSUME WorldTypes, NEW p \in Hyprland, NEW h \in HyprlandType,
           hyprlands' = [hyprlands EXCEPT ![p] = h]
    PROVE  /\ hyprlands' \in [Hyprland -> HyprlandType]
           /\ hyprlands'[p] = h
           /\ \A q \in Hyprland : q # p => hyprlands'[q] = hyprlands[q]
  BY DEF WorldTypes

\* It begins to load, of its own accord or as it was asked.
Begins(p, h) ==
    /\ h.loaded = hyprlands[p].loaded
    /\ hyprlands[p].loading = None
    /\ \/ /\ \E full \in BOOLEAN : h.loading = Reloads!Read(p, full)
          /\ h.asked = hyprlands[p].asked
       \/ /\ hyprlands[p].asked \in BOOLEAN
          /\ h.loading = Reloads!Read(p, hyprlands[p].asked) /\ h.asked = None

\* A Hyprland that starts, stops or begins to load changes nothing of what the
\* service may rely on.
LEMMA HyprlandKeeps ==
    ASSUME ReloadInv, NEW p \in Hyprland, NEW h \in HyprlandType,
           HyprlandHolds(h),
           hyprlands' = [hyprlands EXCEPT ![p] = h],
           hyprlands[p].started => h.started,
           hyprlands[p].started /\ h.runs => hyprlands[p].runs /\ Begins(p, h),
           environment' \in {environment, p},
           UNCHANGED <<entrypoint, userCustom, stream, runtime, evidence>>
    PROVE  ReloadInv'
  <1> USE DEF ReloadInv
  <1>1. /\ hyprlands' \in [Hyprland -> HyprlandType]
        /\ hyprlands'[p] = h
        /\ \A q \in Hyprland : q # p => hyprlands'[q] = hyprlands[q]
    BY OneChanges
  <1>2. WorldTypes' /\ RuntimeTypes'
    BY <1>1 DEF WorldTypes, RuntimeTypes
  <1>3. HyprlandsHold'
    BY <1>1 DEF HyprlandsHold
  <1>4. PurposeHolds' /\ BaselineHolds'
    BY DEF PurposeHolds, BaselineHolds
  <1>5. SessionHolds'
    BY <1>1 DEF SessionHolds
  <1>6. ASSUME runtime.proving, p = runtime.pinned, h.runs
        PROVE  /\ hyprlands[p].runs /\ Begins(p, h)
               /\ hyprlands[p].loaded \in LoadedType
               /\ InLua(hyprlands[p].loaded)
               /\ hyprlands[p].asked = TRUE =>
                         AsFile(h.loading, entrypoint) \/ h.asked = TRUE
               /\ AsFile(hyprlands[p].loaded, entrypoint) => AsFile(h.loading, entrypoint)
               /\ h.loading # None
    <2>1. hyprlands[p].started
      BY <1>6 DEF SessionHolds
    <2>2. /\ hyprlands[p].runs /\ Begins(p, h)
          /\ hyprlands[p].loaded \in LoadedType
          /\ InLua(hyprlands[p].loaded)
      BY <1>6, <2>1 DEF HyprlandsHold, HyprlandHolds
    <2>3. CASE /\ \E full \in BOOLEAN : h.loading = Reloads!Read(p, full)
               /\ h.asked = hyprlands[p].asked
      BY <2>2, <2>3, ReadIs
    <2>4. CASE /\ hyprlands[p].asked \in BOOLEAN
               /\ h.loading = Reloads!Read(p, hyprlands[p].asked)
      BY <2>2, <2>4, ReadIs
    <2> QED
      BY <2>2, <2>3, <2>4 DEF Begins
  <1>7. LoaderHolds'
    <2> SUFFICES ASSUME NEW file \in Reloads!Loaders, Expects(file)
                 PROVE  /\ Heard(file) =>
                            /\ \E load \in evidence : load.file = file
                            /\ hyprlands[runtime.pinned]'.runs =>
                                /\ hyprlands[runtime.pinned]'.loaded \in evidence
                                /\ OnlyLoads(hyprlands[runtime.pinned]', file)
                        /\ runtime.step \in Known \ {"reloaded"} =>
                               \E load \in evidence :
                                  load.file = file /\ load.errors \in Reloads!AcceptedErrors
      BY DEF LoaderHolds, Expects, Heard, Reloads!Expected, Reloads!AcceptedErrors
    <2>1. runtime.proving /\ entrypoint = file /\ runtime.pinned \in Hyprland
      BY DEF Expects, SessionHolds
    <2>2. CASE p # runtime.pinned
      BY <1>1, <2>1, <2>2 DEF LoaderHolds
    <2>3. CASE p = runtime.pinned
      <3>1. ASSUME Heard(file), h.runs
            PROVE  h.loaded \in evidence /\ OnlyLoads(h, file)
        <4>1. hyprlands[p].loaded \in evidence /\ hyprlands[p].loaded.file = file
          BY <1>6, <2>1, <2>3, <3>1 DEF LoaderHolds, OnlyLoads
        <4>2. AsFile(hyprlands[p].loaded, file)
          BY <1>6, <2>1, <2>3, <3>1, <4>1 DEF AsFile, Reloads!ProviderFor, InLua,
                                              Reloads!Loaders
        <4> QED
          BY <1>6, <2>1, <2>3, <3>1, <4>1, <4>2 DEF AsFile, OnlyLoads, Begins
      <3> QED
        BY <1>1, <2>1, <2>3, <3>1 DEF LoaderHolds
    <2> QED
      BY <2>2, <2>3
  <1>8. OtherHolds'
    <2> SUFFICES ASSUME NEW file \in {"user", "missing"}, Expects(file), Answered,
                        hyprlands[runtime.pinned]'.runs
                 PROVE  \/ hyprlands[runtime.pinned]'.asked = TRUE
                        \/ /\ hyprlands[runtime.pinned]'.loading # None
                           /\ AsFile(hyprlands[runtime.pinned]'.loading, file)
                        \/ /\ AsFile(hyprlands[runtime.pinned]'.loaded, file)
                           /\ hyprlands[runtime.pinned]'.loading = None
      BY DEF OtherHolds, Expects, Answered, Reloads!Expected
    <2>1. runtime.proving /\ entrypoint = file /\ runtime.pinned \in Hyprland
      BY DEF Expects, SessionHolds
    <2>2. CASE p # runtime.pinned
      BY <1>1, <2>1, <2>2 DEF OtherHolds
    <2>3. CASE p = runtime.pinned
      BY <1>1, <1>6, <2>1, <2>3 DEF OtherHolds, Begins
    <2> QED
      BY <2>2, <2>3
  <1> QED
    BY <1>2, <1>3, <1>4, <1>5, <1>7, <1>8

\* One that starts, which the service cannot have pinned, keeps the invariant (Start).
LEMMA StartKeeps ==
    ASSUME ReloadInv, NEW p \in Hyprland, Reloads!Start(p)
    PROVE  ReloadInv'
  <1> DEFINE read == [file |-> entrypoint, provider |-> Reloads!ProviderFor(entrypoint)]
  <1>1. read \in LoadType /\ InLua(read)
    BY DEF ReloadInv, WorldTypes, LoadType, InLua, Reloads!ProviderFor,
           Reloads!Providers, Reloads!Loaders
  <1>2. PICK load \in Reloads!Loads(read), kind \in Reloads!Kinds :
            hyprlands' = [hyprlands EXCEPT
               ![p] = [Reloads!NotStarted EXCEPT !.started = TRUE, !.runs = TRUE,
                                         !.directory = TRUE, !.kind = kind, !.loaded = load]]
    BY DEF Reloads!Start
  <1> DEFINE h == [Reloads!NotStarted EXCEPT !.started = TRUE, !.runs = TRUE,
                                     !.directory = TRUE, !.kind = kind, !.loaded = load]
  <1>3. hyprlands' = [hyprlands EXCEPT ![p] = h]
    BY <1>2
  <1>4. load \in LoadedType /\ InLua(load)
    BY <1>1, LoadsAre DEF ReloadInv, InLua
  <1>5. h \in HyprlandType /\ HyprlandHolds(h) /\ h.started
    BY <1>4 DEF HyprlandType, HyprlandHolds, Reloads!NotStarted
  <1>6. /\ ~hyprlands[p].started
        /\ environment' \in {environment, p}
        /\ UNCHANGED <<entrypoint, userCustom, stream, runtime, evidence>>
    BY DEF Reloads!Start
  <1> HIDE DEF h
  <1> QED
    BY <1>3, <1>5, <1>6, HyprlandKeeps

\* So does one that stops: nothing is claimed of what it ran (Stop).
LEMMA StopKeeps ==
    ASSUME ReloadInv, NEW p \in Hyprland, Reloads!Stop(p)
    PROVE  ReloadInv'
  <1>1. PICK left \in BOOLEAN :
            hyprlands' = [hyprlands EXCEPT
               ![p] = [Reloads!NotStarted EXCEPT !.started = TRUE, !.directory = left]]
    BY DEF Reloads!Stop
  <1> DEFINE h == [Reloads!NotStarted EXCEPT !.started = TRUE, !.directory = left]
  <1>2. hyprlands' = [hyprlands EXCEPT ![p] = h]
    BY <1>1
  <1>3. h \in HyprlandType /\ HyprlandHolds(h) /\ h.started /\ ~h.runs
    BY DEF HyprlandType, HyprlandHolds, Reloads!NotStarted
  <1>4. /\ environment' \in {environment, p}
        /\ UNCHANGED <<entrypoint, userCustom, stream, runtime, evidence>>
    BY DEF Reloads!Stop
  <1> HIDE DEF h
  <1> QED
    BY <1>2, <1>3, <1>4, HyprlandKeeps

\* A load that begins, by itself or as it was asked for.
LEMMA LoadBegins ==
    ASSUME ReloadInv, NEW p \in Hyprland, NEW full \in BOOLEAN,
           NEW asked \in BOOLEAN \cup {None},
           hyprlands[p].runs, hyprlands[p].loading = None,
           \/ asked = hyprlands[p].asked
           \/ full = hyprlands[p].asked /\ asked = None,
           hyprlands' = [hyprlands EXCEPT
               ![p] = [hyprlands[p] EXCEPT !.loading = Reloads!Read(p, full), !.asked = asked]],
           UNCHANGED <<environment, entrypoint, userCustom, stream, runtime, evidence>>
    PROVE  ReloadInv'
  <1>1. hyprlands[p] \in HyprlandType /\ HyprlandHolds(hyprlands[p])
    BY DEF ReloadInv, WorldTypes, HyprlandsHold
  <1>2. Reloads!Read(p, full) \in LoadType /\ InLua(Reloads!Read(p, full))
    BY <1>1, ReadIs DEF ReloadInv, HyprlandHolds
  <1> DEFINE h == [hyprlands[p] EXCEPT !.loading = Reloads!Read(p, full), !.asked = asked]
  <1>3. /\ h \in HyprlandType
        /\ h.loading = Reloads!Read(p, full) /\ h.asked = asked
        /\ h.loaded = hyprlands[p].loaded
        /\ h.runs = hyprlands[p].runs /\ h.started = hyprlands[p].started
    BY <1>1, <1>2 DEF HyprlandType
  <1> HIDE DEF h
  <1>4. HyprlandHolds(h)
    BY <1>1, <1>2, <1>3 DEF HyprlandHolds
  <1>5. Begins(p, h)
    BY <1>3 DEF Begins
  <1>6. hyprlands' = [hyprlands EXCEPT ![p] = h]
    BY DEF h
  <1> QED
    BY <1>3, <1>4, <1>5, <1>6, HyprlandKeeps

\* A load that nobody asked for is of the same entrypoint (ReloadByItself).
LEMMA ReloadByItselfKeeps ==
    ASSUME ReloadInv, NEW p \in Hyprland, Reloads!ReloadByItself(p)
    PROVE  ReloadInv'
  <1>1. hyprlands[p] \in HyprlandType /\ hyprlands \in [Hyprland -> HyprlandType]
    BY DEF ReloadInv, WorldTypes
  <1>2. PICK full \in BOOLEAN :
            hyprlands' = [hyprlands EXCEPT ![p].loading = Reloads!Read(p, full)]
    BY DEF Reloads!ReloadByItself
  <1>3. [hyprlands[p] EXCEPT !.loading = Reloads!Read(p, full)]
            = [hyprlands[p] EXCEPT
                   !.loading = Reloads!Read(p, full), !.asked = hyprlands[p].asked]
    BY <1>1 DEF HyprlandType
  <1>4. hyprlands' = [hyprlands EXCEPT
            ![p] = [hyprlands[p] EXCEPT !.loading = Reloads!Read(p, full)]]
    BY <1>1, <1>2
  <1>5. hyprlands[p].asked \in BOOLEAN \cup {None}
    BY <1>1 DEF HyprlandType
  <1>6. /\ hyprlands[p].runs /\ hyprlands[p].loading = None
        /\ UNCHANGED <<environment, entrypoint, userCustom, stream, runtime, evidence>>
    BY DEF Reloads!ReloadByItself
  <1>7. hyprlands' = [hyprlands EXCEPT
            ![p] = [hyprlands[p] EXCEPT
                        !.loading = Reloads!Read(p, full), !.asked = hyprlands[p].asked]]
    BY <1>3, <1>4
  <1> QED
    BY <1>2, <1>5, <1>6, <1>7, LoadBegins

\* The load that follows an "ok" is the one that was asked for (LoadAsked).
LEMMA LoadAskedKeeps ==
    ASSUME ReloadInv, NEW p \in Hyprland, Reloads!LoadAsked(p)
    PROVE  ReloadInv'
  <1>1. hyprlands[p] \in HyprlandType /\ hyprlands \in [Hyprland -> HyprlandType]
    BY DEF ReloadInv, WorldTypes
  <1>2. hyprlands[p].asked \in BOOLEAN /\ hyprlands[p].runs
    BY <1>1 DEF Reloads!LoadAsked, HyprlandType, ReloadInv, HyprlandsHold, HyprlandHolds
  <1>3. hyprlands' = [hyprlands EXCEPT
            ![p] = [hyprlands[p] EXCEPT !.loading = Reloads!Read(p, hyprlands[p].asked),
                                        !.asked = None]]
    BY <1>1 DEF Reloads!LoadAsked
  <1> QED
    BY <1>2, <1>3, LoadBegins DEF Reloads!LoadAsked

\* A load that ends is what Hyprland runs then, and its events and history are
\* the service's if it is the pinned one.
LEMMA FinishLoadKeeps ==
    ASSUME ReloadInv, NEW p \in Hyprland, Reloads!FinishLoad(p)
    PROVE  ReloadInv'
  <1> USE DEF ReloadInv
  <1>1. /\ hyprlands[p] \in HyprlandType /\ HyprlandHolds(hyprlands[p])
        /\ hyprlands \in [Hyprland -> HyprlandType]
    BY DEF WorldTypes, HyprlandsHold
  <1> DEFINE read == hyprlands[p].loading
  <1>2. read \in LoadType /\ InLua(read) /\ hyprlands[p].runs
    BY <1>1 DEF Reloads!FinishLoad, HyprlandType, HyprlandHolds
  <1>3. PICK load \in Reloads!Loads(read) :
            /\ hyprlands' = [hyprlands EXCEPT ![p].loaded = load, ![p].loading = None]
            /\ evidence' = IF p = runtime.pinned THEN evidence \cup {load} ELSE evidence
    BY DEF Reloads!FinishLoad
  <1>4. /\ load \in LoadedType /\ InLua(load)
        /\ load.file = read.file /\ load.provider = read.provider
    BY <1>2, LoadsAre DEF InLua
  <1> DEFINE h == [hyprlands[p] EXCEPT !.loaded = load, !.loading = None]
  <1>5. /\ h \in HyprlandType
        /\ h.loaded = load /\ h.loading = None
        /\ h.runs /\ h.started = hyprlands[p].started /\ h.asked = hyprlands[p].asked
    BY <1>1, <1>2, <1>4 DEF HyprlandType
  <1>6. hyprlands' = [hyprlands EXCEPT ![p] = h]
    BY <1>1, <1>3
  <1> HIDE DEF h
  <1>7. /\ hyprlands' \in [Hyprland -> HyprlandType]
        /\ hyprlands'[p] = h
        /\ \A q \in Hyprland : q # p => hyprlands'[q] = hyprlands[q]
    BY <1>5, <1>6, OneChanges
  <1>8. HyprlandHolds(h)
    BY <1>1, <1>2, <1>4, <1>5 DEF HyprlandHolds
  <1>9. UNCHANGED <<environment, entrypoint, userCustom, runtime>>
    BY DEF Reloads!FinishLoad
  <1> DEFINE news == Reloads!EventsOf(read)
  <1>10. /\ news \in Seq(Reloads!Loaders \cup {"configreloaded"})
         /\ stream' = IF p = runtime.pinned THEN stream \o news ELSE stream
         /\ \A i \in DOMAIN news : news[i] \in Reloads!Loaders => news[i] = read.file
    <2>1. stream' = IF p = runtime.pinned THEN stream \o news ELSE stream
      BY DEF Reloads!FinishLoad
    <2>2. CASE read.file \in Reloads!Loaders
      <3>1. news = <<read.file>> \o <<"configreloaded">>
        BY <2>2 DEF Reloads!EventsOf
      <3> QED
        BY <2>1, <2>2, <3>1 DEF Reloads!Loaders
    <2>3. CASE read.file \notin Reloads!Loaders
      <3>1. news = <<>> \o <<"configreloaded">>
        BY <2>3 DEF Reloads!EventsOf
      <3> QED
        BY <2>1, <2>3, <3>1 DEF Reloads!Loaders
    <2> QED
      BY <2>2, <2>3
  <1> HIDE DEF news, read
  <1>11. WorldTypes' /\ RuntimeTypes'
    <2>1. stream' \in Seq(Reloads!Loaders \cup {"configreloaded"})
      BY <1>10 DEF WorldTypes
    <2> QED
      BY <1>3, <1>4, <1>7, <1>9, <2>1 DEF WorldTypes, RuntimeTypes
  <1>12. HyprlandsHold'
    BY <1>3, <1>4, <1>7, <1>8 DEF HyprlandsHold
  <1>13. PurposeHolds' /\ BaselineHolds'
    BY <1>9 DEF PurposeHolds, BaselineHolds
  <1>14. SessionHolds'
    BY <1>5, <1>7, <1>9 DEF SessionHolds
  <1>15. LoaderHolds'
    <2> SUFFICES ASSUME NEW file \in Reloads!Loaders, Expects(file)
                 PROVE  /\ Heard(file)' =>
                            /\ \E l \in evidence' : l.file = file
                            /\ hyprlands'[runtime.pinned].runs =>
                                /\ hyprlands'[runtime.pinned].loaded \in evidence'
                                /\ OnlyLoads(hyprlands'[runtime.pinned], file)
                        /\ runtime.step \in Known \ {"reloaded"} =>
                               \E l \in evidence' :
                                  l.file = file /\ l.errors \in Reloads!AcceptedErrors
      BY <1>9 DEF LoaderHolds, Expects, Reloads!Expected, Reloads!AcceptedErrors
    <2>1. runtime.pinned \in Hyprland
      BY DEF Expects, SessionHolds
    <2>2. CASE p # runtime.pinned
      BY <1>3, <1>7, <1>9, <1>10, <2>1, <2>2 DEF LoaderHolds, Heard
    <2>3. CASE p = runtime.pinned
      <3>1. evidence' = evidence \cup {load} /\ stream' = stream \o news
        BY <1>3, <1>10, <2>3
      <3>2. runtime.step \in Known \ {"reloaded"} =>
                \E l \in evidence' : l.file = file /\ l.errors \in Reloads!AcceptedErrors
        BY <3>1 DEF LoaderHolds
      <3>3. ASSUME Heard(file)' PROVE load.file = file
        <4>1. CASE Heard(file)
          BY <1>2, <1>4, <2>3, <4>1 DEF LoaderHolds, OnlyLoads, Reloads!FinishLoad, read
        <4>2. CASE ~Heard(file)
          <5>1. PICK i \in DOMAIN (stream \o news) : (stream \o news)[i] = file
            BY <1>9, <3>1, <3>3, <4>2 DEF Heard
          <5>2. /\ stream \in Seq(Reloads!Loaders \cup {"configreloaded"})
                /\ \A k \in DOMAIN stream : stream[k] # file
            BY <4>2 DEF Heard, WorldTypes
          <5>3. i \in 1..(Len(stream) + Len(news)) /\ i \notin 1..Len(stream)
            BY <1>10, <5>1, <5>2
          <5>4. i - Len(stream) \in DOMAIN news /\ news[i - Len(stream)] = file
            BY <1>10, <5>1, <5>2, <5>3
          <5> QED
            BY <1>4, <1>10, <5>4
        <4> QED
          BY <4>1, <4>2
      <3>4. Heard(file)' => load.file = file /\ load \in evidence'
                              /\ OnlyLoads(hyprlands'[p], file)
                              /\ hyprlands'[p].loaded = load
        BY <1>5, <1>7, <3>1, <3>3 DEF OnlyLoads
      <3> QED
        BY <2>3, <3>2, <3>4
    <2> QED
      BY <2>2, <2>3
  <1>16. OtherHolds'
    <2> SUFFICES ASSUME NEW file \in {"user", "missing"}, Expects(file), Answered
                 PROVE  hyprlands'[runtime.pinned].runs =>
                        \/ hyprlands'[runtime.pinned].asked = TRUE
                        \/ /\ hyprlands'[runtime.pinned].loading # None
                           /\ AsFile(hyprlands'[runtime.pinned].loading, file)
                        \/ /\ AsFile(hyprlands'[runtime.pinned].loaded, file)
                           /\ hyprlands'[runtime.pinned].loading = None
      BY <1>9 DEF OtherHolds, Expects, Answered, Reloads!Expected
    <2>1. runtime.pinned \in Hyprland
      BY DEF Expects, SessionHolds
    <2>2. CASE p # runtime.pinned
      BY <1>7, <2>1, <2>2 DEF OtherHolds
    <2>3. CASE p = runtime.pinned
      <3>1. hyprlands[p].loading # None
        BY DEF Reloads!FinishLoad
      <3>2. hyprlands[p].asked = TRUE \/ AsFile(read, file)
        BY <1>2, <2>3, <3>1 DEF OtherHolds, read
      <3> QED
        BY <1>4, <1>5, <1>7, <2>3, <3>2 DEF AsFile
    <2> QED
      BY <2>2, <2>3
  <1> QED
    BY <1>11, <1>12, <1>13, <1>14, <1>15, <1>16

\* The user's edit is of no file that is expected.
LEMMA UserEditKeeps ==
    ASSUME ReloadInv, Reloads!UserEdit
    PROVE  ReloadInv'
  <1> USE DEF ReloadInv
  <1>1. /\ UNCHANGED <<hyprlands, environment, stream, runtime, evidence>>
        /\ entrypoint' \in {entrypoint, "edited"}
        /\ userCustom' \in BOOLEAN
    BY DEF Reloads!UserEdit, WorldTypes
  <1>2. WorldTypes' /\ RuntimeTypes' /\ HyprlandsHold'
    BY <1>1 DEF WorldTypes, RuntimeTypes, HyprlandsHold, Reloads!Files
  <1>3. PurposeHolds' /\ SessionHolds' /\ BaselineHolds'
    BY <1>1 DEF PurposeHolds, SessionHolds, BaselineHolds
  <1>4. \A file \in Reloads!Loaders \cup {"user", "missing"} : Expects(file)' =>
               Expects(file)
    BY <1>1 DEF Expects, Reloads!Expected, Reloads!Loaders
  <1>5. LoaderHolds'
    BY <1>1, <1>4 DEF LoaderHolds, Heard, Reloads!AcceptedErrors
  <1>6. OtherHolds'
    BY <1>1, <1>4 DEF OtherHolds, Answered
  <1> QED
    BY <1>2, <1>3, <1>5, <1>6

\* What is no loader is expected of a full reset.
LEMMA OtherIsFull ==
    ASSUME ReloadInv, NEW file \in {"user", "missing"}, Expects(file)
    PROVE  runtime.full
  <1>1. /\ runtime.mode \in Modes /\ runtime.step \notin Resting
        /\ Reloads!Managed(runtime.mode) <=> runtime.before.file = "prior"
        /\ runtime.full <=> Reloads!FullReset(runtime.mode)
    BY DEF ReloadInv, Expects, SessionHolds, PurposeHolds, Pinned, Resting
  <1>2. runtime.before.file = file
    BY DEF Expects, Reloads!Expected
  <1> QED
    BY <1>1, <1>2 DEF Modes, Reloads!Managed, Reloads!FullReset

\* The answer to a request leaves Hyprland with a load to come (TakeRequest).
LEMMA TakeRequestKeeps ==
    ASSUME ReloadInv, Reloads!TakeRequest
    PROVE  ReloadInv'
  <1> USE DEF ReloadInv
  <1> DEFINE p == runtime.pinned
             h == [hyprlands[p] EXCEPT !.asked = runtime.full]
  <1>1. /\ runtime.step = "sent" /\ p \in Hyprland
        /\ runtime.full \in BOOLEAN
    BY DEF Reloads!TakeRequest, SessionHolds, RuntimeTypes, Pinned
  <1>2. /\ hyprlands[p] \in HyprlandType /\ HyprlandHolds(hyprlands[p])
        /\ hyprlands[p].runs /\ hyprlands[p].loading = None
    BY <1>1 DEF WorldTypes, HyprlandsHold, Reloads!TakeRequest
  <1>3. /\ h \in HyprlandType /\ h.asked = runtime.full
        /\ h.runs /\ h.started = hyprlands[p].started
        /\ h.loaded = hyprlands[p].loaded /\ h.loading = None
    BY <1>1, <1>2 DEF HyprlandType
  <1>4. hyprlands' = [hyprlands EXCEPT ![p] = h]
    BY <1>1 DEF Reloads!TakeRequest, WorldTypes
  <1> HIDE DEF h
  <1>5. /\ hyprlands' \in [Hyprland -> HyprlandType]
        /\ hyprlands'[p] = h
        /\ \A q \in Hyprland : q # p => hyprlands'[q] = hyprlands[q]
    BY <1>1, <1>3, <1>4, OneChanges
  <1>6. HyprlandHolds(h)
    BY <1>2, <1>3 DEF HyprlandHolds
  <1>7. /\ UNCHANGED <<environment, entrypoint, userCustom, stream, evidence>>
        /\ runtime' = [runtime EXCEPT !.request = "answered"]
    BY DEF Reloads!TakeRequest
  <1>8. /\ runtime'.step = "sent" /\ runtime'.request = "answered"
        /\ runtime'.mode = runtime.mode /\ runtime'.before = runtime.before
        /\ runtime'.pinned = p /\ runtime'.full = runtime.full
        /\ runtime'.proving = runtime.proving /\ runtime'.published = runtime.published
        /\ runtime'.baseline = runtime.baseline
        /\ RuntimeTypes'
    BY <1>1, <1>7 DEF RuntimeTypes
  <1>9. WorldTypes'
    BY <1>5, <1>7 DEF WorldTypes
  <1>10. HyprlandsHold'
    BY <1>5, <1>6, <1>7 DEF HyprlandsHold
  <1>11. PurposeHolds' /\ BaselineHolds'
    BY <1>1, <1>8 DEF PurposeHolds, BaselineHolds
  <1>12. SessionHolds'
    BY <1>1, <1>3, <1>5, <1>8 DEF SessionHolds, Pinned
  <1>13. \A file : Expects(file)' <=> Expects(file)
    BY <1>7, <1>8 DEF Expects, Reloads!Expected
  <1>14. LoaderHolds'
    <2>1. \A file : Heard(file)' <=> Heard(file)
      BY <1>1, <1>7, <1>8 DEF Heard
    <2>2. Reloads!AcceptedErrors' = Reloads!AcceptedErrors
      BY <1>8 DEF Reloads!AcceptedErrors
    <2>3. \A file : OnlyLoads(hyprlands[p], file) => OnlyLoads(h, file)
      BY <1>3 DEF OnlyLoads
    <2> QED
      BY <1>1, <1>2, <1>3, <1>5, <1>7, <1>8, <1>13, <2>1, <2>2, <2>3 DEF LoaderHolds
  <1>15. OtherHolds'
    BY <1>3, <1>5, <1>8, <1>13, OtherIsFull DEF OtherHolds
  <1> QED
    BY <1>8, <1>9, <1>10, <1>11, <1>12, <1>14, <1>15

-----------------------------------------------------------------------------
(* What the service does *)

\* A step of the service leaves the Hyprlands as they are.
LEMMA WorldKeeps ==
    ASSUME ReloadInv, UNCHANGED <<hyprlands, environment, userCustom>>,
           entrypoint' \in Reloads!Files, evidence' \subseteq evidence,
           stream' \in Seq(Reloads!Loaders \cup {"configreloaded"})
    PROVE  WorldTypes' /\ HyprlandsHold'
  BY DEF ReloadInv, WorldTypes, HyprlandsHold

\* Nothing is claimed of a session that proves nothing yet.
LEMMA NoProof ==
    ASSUME ~runtime'.proving
    PROVE  LoaderHolds' /\ OtherHolds'
  BY DEF LoaderHolds, OtherHolds, Expects

\* What is claimed of one that does, as its steps go on.
LEMMA ProofKeeps ==
    ASSUME ReloadInv, UNCHANGED <<hyprlands, entrypoint, evidence>>,
           /\ runtime'.proving = runtime.proving /\ runtime'.mode = runtime.mode
           /\ runtime'.before = runtime.before /\ runtime'.pinned = runtime.pinned,
           \A file \in Reloads!Loaders :
               Expects(file) =>
                   /\ Heard(file)' => Heard(file)
                   /\ runtime'.step \in Known \ {"reloaded"} =>
                          \E load \in evidence :
                              load.file = file /\ load.errors \in Reloads!AcceptedErrors,
           Answered' => Answered
    PROVE  LoaderHolds' /\ OtherHolds'
  <1>1. \A file : Expects(file)' <=> Expects(file)
    BY DEF Expects, Reloads!Expected
  <1>2. Reloads!AcceptedErrors' = Reloads!AcceptedErrors
    BY DEF Reloads!AcceptedErrors
  <1>3. LoaderHolds'
    BY <1>1, <1>2 DEF ReloadInv, LoaderHolds
  <1>4. OtherHolds'
    BY <1>1 DEF ReloadInv, OtherHolds
  <1> QED
    BY <1>3, <1>4

\* A session begins for what the entrypoint is (publishAndActivate).
LEMMA BeginKeeps ==
    ASSUME ReloadInv, Reloads!Begin
    PROVE  ReloadInv'
  <1>1. /\ runtime.step = "idle" /\ runtime.pinned = None
        /\ entrypoint \in Reloads!Before
        /\ UNCHANGED <<hyprlands, environment, entrypoint, userCustom, stream, evidence>>
    BY DEF Reloads!Begin, Reloads!Idle, Reloads!world
  <1>2. /\ runtime'.step = "resolving" /\ runtime'.pinned = None
        /\ runtime'.mode = IF entrypoint = "prior" THEN "ManagedReload"
                           ELSE "AdoptionFullReset"
        /\ runtime'.before = [file |-> entrypoint, errors |-> FALSE, provider |-> None]
        /\ runtime'.request = "none" /\ ~runtime'.proving /\ ~runtime'.published
    BY DEF Reloads!Begin, Reloads!Idle
  <1>3. RuntimeTypes'
    BY <1>1 DEF Reloads!Begin, Reloads!Idle, RuntimeTypes, Steps, Modes, BeforeType
  <1>4. WorldTypes' /\ HyprlandsHold'
    BY <1>1, WorldKeeps DEF ReloadInv, WorldTypes
  <1>5. PurposeHolds'
    BY <1>1, <1>2 DEF PurposeHolds, Modes, BeforeType, Reloads!Managed,
                      Reloads!RollbackMode
  <1>6. SessionHolds' /\ BaselineHolds'
    BY <1>2 DEF SessionHolds, BaselineHolds, Pinned
  <1> QED
    BY <1>2, <1>3, <1>4, <1>5, <1>6, NoProof DEF ReloadInv

\* It takes a Hyprland that runs (HyprlandIpcRuntime::prepare).
LEMMA PinKeeps ==
    ASSUME ReloadInv, Reloads!Pin
    PROVE  ReloadInv'
  <1> USE DEF ReloadInv
  <1>1. PICK p \in Reloads!Signature :
            /\ Reloads!Listens(p)
            /\ runtime' = [runtime EXCEPT !.pinned = p, !.step = "pinned"]
    BY DEF Reloads!Pin
  <1>2. /\ p \in Hyprland /\ hyprlands[p].started
    <2>1. p \in Hyprland
      BY DEF Reloads!Signature, WorldTypes
    <2> QED
      BY <1>1, <2>1 DEF Reloads!Listens, HyprlandsHold, HyprlandHolds
  <1>3. /\ runtime.step = "resolving" /\ stream' = <<>>
        /\ UNCHANGED <<hyprlands, environment, entrypoint, userCustom, evidence>>
    BY DEF Reloads!Pin, Reloads!world
  <1>4. ~runtime.proving /\ runtime.request = "none"
    BY <1>3 DEF SessionHolds, RuntimeTypes, Pinned
  <1>5. /\ runtime'.step = "pinned" /\ runtime'.pinned = p
        /\ runtime'.mode = runtime.mode /\ runtime'.before = runtime.before
        /\ runtime'.request = "none" /\ ~runtime'.proving
        /\ runtime'.published = runtime.published
        /\ RuntimeTypes'
    BY <1>1, <1>2, <1>4 DEF RuntimeTypes, Steps, Pinned
  <1>6. WorldTypes' /\ HyprlandsHold'
    BY <1>3, WorldKeeps DEF WorldTypes
  <1>7. PurposeHolds'
    BY <1>3, <1>5 DEF PurposeHolds, Resting
  <1>8. SessionHolds' /\ BaselineHolds'
    BY <1>2, <1>3, <1>5 DEF SessionHolds, BaselineHolds, Pinned
  <1> QED
    BY <1>5, <1>6, <1>7, <1>8, NoProof

\* After the stream is drained nothing is claimed of it yet (drainEvents).
LEMMA DrainKeeps ==
    ASSUME ReloadInv, Reloads!Drain
    PROVE  ReloadInv'
  <1> USE DEF ReloadInv
  <1>1. /\ runtime.step \in {"pinned", "prepared"}
        /\ runtime.step = "prepared" => runtime.published
        /\ stream' = <<>> /\ evidence' = {}
        /\ UNCHANGED <<hyprlands, environment, entrypoint, userCustom>>
    BY DEF Reloads!Drain, Reloads!world
  <1>2. /\ runtime.pinned \in Hyprland /\ hyprlands[runtime.pinned].started
        /\ runtime.request = "none"
    BY <1>1 DEF SessionHolds, RuntimeTypes, Pinned
  <1>3. /\ runtime'.step = "drained" /\ runtime'.pinned = runtime.pinned
        /\ runtime'.mode = runtime.mode /\ runtime'.before = runtime.before
        /\ runtime'.request = "none" /\ runtime'.published = runtime.published
        /\ runtime'.proving <=> runtime.step = "prepared"
        /\ runtime'.full <=> runtime.step = "prepared" /\ Reloads!FullReset(runtime.mode)
        /\ RuntimeTypes'
    BY ZenonT(60), <1>2 DEF Reloads!Drain, RuntimeTypes, Steps, Pinned
  <1>4. WorldTypes' /\ HyprlandsHold'
    BY <1>1, WorldKeeps DEF WorldTypes
  <1>5. PurposeHolds'
    BY <1>1, <1>3 DEF PurposeHolds, Resting
  <1>6. SessionHolds' /\ BaselineHolds'
    BY <1>1, <1>2, <1>3 DEF SessionHolds, BaselineHolds, Pinned
  <1>7. LoaderHolds' /\ OtherHolds'
    BY <1>1, <1>3 DEF LoaderHolds, OtherHolds, Heard, Answered, Known
  <1> QED
    BY <1>3, <1>4, <1>5, <1>6, <1>7

\* The steps that change nothing but where the service stands.
LEMMA StepKeeps ==
    ASSUME ReloadInv, UNCHANGED <<hyprlands, environment, entrypoint, userCustom, evidence>>,
           stream' \in Seq(Reloads!Loaders \cup {"configreloaded"}),
           runtime.step \in Pinned, NEW next \in Pinned,
           NEW reply \in {"none", "sent", "answered"},
           runtime' = [runtime EXCEPT !.step = next, !.request = reply],
           reply # "none" <=> next = "sent",
           runtime.proving => next \in Pinned \ {"pinned", "prepared", "failed"},
           next \in {"proved", "verified"} => runtime.proving,
           next \notin {"errors", "provider"},
           ~runtime.proving /\ next = "prepared" => runtime.step = "provider",
           \A file \in Reloads!Loaders :
               Expects(file) =>
                   /\ Heard(file)' => Heard(file)
                   /\ next = "proved" => runtime.step = "provider",
           Answered' => Answered
    PROVE  ReloadInv'
  <1> USE DEF ReloadInv
  <1>1. /\ runtime'.step = next /\ runtime'.request = reply
        /\ runtime'.mode = runtime.mode /\ runtime'.before = runtime.before
        /\ runtime'.pinned = runtime.pinned /\ runtime'.full = runtime.full
        /\ runtime'.proving = runtime.proving /\ runtime'.published = runtime.published
        /\ runtime'.baseline = runtime.baseline
        /\ RuntimeTypes'
    BY DEF RuntimeTypes, Steps
  <1>2. WorldTypes' /\ HyprlandsHold'
    BY WorldKeeps DEF WorldTypes
  <1>3. PurposeHolds'
    BY <1>1 DEF PurposeHolds, Pinned, Resting
  <1>4. SessionHolds'
    BY <1>1 DEF SessionHolds
  <1>5. BaselineHolds'
    BY <1>1 DEF BaselineHolds
  <1>6. \A file \in Reloads!Loaders :
            Expects(file) =>
                /\ Heard(file)' => Heard(file)
                /\ runtime'.step \in Known \ {"reloaded"} =>
                       \E load \in evidence :
                           load.file = file /\ load.errors \in Reloads!AcceptedErrors
    BY <1>1 DEF LoaderHolds, Known
  <1>7. LoaderHolds' /\ OtherHolds'
    BY <1>1, <1>6, ProofKeeps
  <1> QED
    BY <1>1, <1>2, <1>3, <1>4, <1>5, <1>7

\* Nor when the reload is asked for (reloadBarrier).
LEMMA SendReloadKeeps ==
    ASSUME ReloadInv, Reloads!SendReload
    PROVE  ReloadInv'
  <1>1. /\ runtime.step = "drained"
        /\ runtime' = [runtime EXCEPT !.step = "sent", !.request = "sent"]
        /\ UNCHANGED <<hyprlands, environment, entrypoint, userCustom, stream, evidence>>
    BY DEF Reloads!SendReload, Reloads!world
  <1>2. runtime'.step = "sent" /\ runtime'.request = "sent"
    BY <1>1 DEF ReloadInv, RuntimeTypes
  <1>3. \A file : Heard(file)' => Heard(file)
    BY <1>1, <1>2 DEF Heard, Known
  <1>4. ~Answered'
    BY <1>2 DEF Answered, Known
  <1>5. stream' \in Seq(Reloads!Loaders \cup {"configreloaded"})
    BY <1>1 DEF ReloadInv, WorldTypes
  <1> QED
    BY <1>1, <1>3, <1>4, <1>5, StepKeeps DEF Pinned

\* Hyprland has answered before the service waits (reloadBarrier).
LEMMA AcknowledgedKeeps ==
    ASSUME ReloadInv, Reloads!Acknowledged
    PROVE  ReloadInv'
  <1>1. /\ runtime.step = "sent" /\ runtime.request = "answered"
        /\ runtime' = [runtime EXCEPT !.step = "waiting", !.request = "none"]
        /\ UNCHANGED <<hyprlands, environment, entrypoint, userCustom, stream, evidence>>
    BY DEF Reloads!Acknowledged, Reloads!world
  <1>2. runtime'.step = "waiting"
    BY <1>1 DEF ReloadInv, RuntimeTypes
  <1>3. \A file : Heard(file)' => Heard(file)
    BY <1>1, <1>2 DEF Heard, Known
  <1>4. Answered
    BY <1>1 DEF Answered
  <1>5. stream' \in Seq(Reloads!Loaders \cup {"configreloaded"})
    BY <1>1 DEF ReloadInv, WorldTypes
  <1> QED
    BY <1>1, <1>3, <1>4, <1>5, StepKeeps DEF Pinned

\* The step that leaves the request as it is.
LEMMA ToIs ==
    ASSUME ReloadInv, NEW next, Reloads!To(next), next # "sent", runtime.step # "sent"
    PROVE  /\ runtime' = [runtime EXCEPT !.step = next, !.request = "none"]
           /\ runtime'.step = next
  <1>1. runtime.request = "none"
    BY DEF ReloadInv, SessionHolds
  <1> QED
    BY <1>1 DEF Reloads!To, ReloadInv, RuntimeTypes

\* The nonce that is read was in the stream.
LEMMA WaitForReloadKeeps ==
    ASSUME ReloadInv, Reloads!WaitForReload
    PROVE  ReloadInv'
  <1> USE DEF ReloadInv
  <1>1. /\ runtime.step = "waiting" /\ Reloads!To("reloaded")
        /\ UNCHANGED <<hyprlands, environment, entrypoint, userCustom, evidence>>
    BY DEF Reloads!WaitForReload, Reloads!world
  <1>2. PICK first \in DOMAIN stream :
            /\ Reloads!NonceObserved(Reloads!NonceOf(Reloads!Expected), stream, first)
            /\ stream' = SubSeq(stream, first + 1, Len(stream))
    BY DEF Reloads!WaitForReload
  <1>3. stream \in Seq(Reloads!Loaders \cup {"configreloaded"})
    BY DEF WorldTypes
  <1>4. stream' \in Seq(Reloads!Loaders \cup {"configreloaded"})
    BY <1>2, <1>3
  <1>5. ASSUME NEW file \in Reloads!Loaders, Expects(file) PROVE Heard(file)
    <2>1. Reloads!NonceOf(Reloads!Expected) = file /\ file # None
      BY <1>5, NoneAssumption DEF Expects, Reloads!NonceOf, Reloads!Files
    <2>2. PICK j \in 1..(first - 1) : stream[j] = file
      BY <1>2, <2>1 DEF Reloads!NonceObserved
    <2>3. j \in DOMAIN stream
      BY <1>2, <1>3, <2>2
    <2> QED
      BY <2>2, <2>3 DEF Heard
  <1>6. Answered
    BY <1>1 DEF Answered
  <1>7. runtime' = [runtime EXCEPT !.step = "reloaded", !.request = "none"]
    BY <1>1, ToIs
  <1> QED
    BY <1>1, <1>4, <1>5, <1>6, <1>7, StepKeeps DEF Pinned

\* The last check changes nothing that is claimed (verifyIdentity).
LEMMA ConfirmKeeps ==
    ASSUME ReloadInv, Reloads!Confirm
    PROVE  ReloadInv'
  <1> DEFINE next == IF runtime.proving THEN "proved" ELSE "prepared"
  <1>1. /\ runtime.step = "provider" /\ Reloads!To(next)
        /\ UNCHANGED <<hyprlands, environment, entrypoint, userCustom, stream, evidence>>
    BY DEF Reloads!Confirm, Reloads!world
  <1>2. /\ next \in {"proved", "prepared"}
        /\ next = "proved" <=> runtime.proving
    OBVIOUS
  <1> HIDE DEF next
  <1>3. runtime' = [runtime EXCEPT !.step = next, !.request = "none"]
    BY <1>1, <1>2, ToIs
  <1>4. \A file : Heard(file)
    BY <1>1 DEF Heard, Known
  <1>5. Answered
    BY <1>1 DEF Answered, Known
  <1>6. stream' \in Seq(Reloads!Loaders \cup {"configreloaded"})
    BY <1>1 DEF ReloadInv, WorldTypes
  <1> QED
    BY <1>1, <1>2, <1>3, <1>4, <1>5, <1>6, StepKeeps DEF Pinned

\* Nor does the check of the entrypoint (verifyTransition).
LEMMA VerifyKeeps ==
    ASSUME ReloadInv, Reloads!Verify
    PROVE  ReloadInv'
  <1>1. /\ runtime.step = "proved" /\ Reloads!To("verified") /\ runtime.proving
        /\ UNCHANGED <<hyprlands, environment, entrypoint, userCustom, stream, evidence>>
    BY DEF Reloads!Verify, Reloads!world, ReloadInv, SessionHolds
  <1>2. runtime' = [runtime EXCEPT !.step = "verified", !.request = "none"]
    BY <1>1, ToIs
  <1>3. \A file : Heard(file)
    BY <1>1 DEF Heard, Known
  <1>4. Answered
    BY <1>1 DEF Answered, Known
  <1>5. stream' \in Seq(Reloads!Loaders \cup {"configreloaded"})
    BY <1>1 DEF ReloadInv, WorldTypes
  <1> QED
    BY <1>1, <1>2, <1>3, <1>4, <1>5, StepKeeps DEF Pinned

\* The errors are those of the load whose nonce was read, or of a later one of the
\* same file.
LEMMA QueryErrorsKeeps ==
    ASSUME ReloadInv, Reloads!QueryErrors
    PROVE  ReloadInv'
  <1> USE DEF ReloadInv
  <1> DEFINE h == hyprlands[runtime.pinned]
  <1>1. /\ runtime.step = "reloaded" /\ h.runs
        /\ h.loaded.errors \in Reloads!AcceptedErrors
        /\ UNCHANGED <<hyprlands, environment, entrypoint, userCustom, stream, evidence>>
    BY DEF Reloads!QueryErrors, Reloads!Answers, Reloads!Identified,
           Reloads!SameProcess, Reloads!world
  <1>2. /\ runtime.pinned \in Hyprland /\ h.started
        /\ h.loaded \in LoadedType
        /\ runtime.request = "none"
    BY <1>1 DEF SessionHolds, HyprlandsHold, HyprlandHolds, Pinned
  <1> DEFINE baseline == IF runtime.proving THEN runtime.baseline
                         ELSE [errors |-> h.loaded.errors, provider |-> None]
  <1>3. /\ baseline \in BaselineType \cup {None}
        /\ ~runtime.proving => baseline \in BaselineType
    BY <1>2 DEF RuntimeTypes, BaselineType, LoadedType
  <1>4. runtime' = [runtime EXCEPT !.step = "errors", !.baseline = baseline]
    BY DEF Reloads!QueryErrors, RuntimeTypes
  <1> HIDE DEF baseline
  <1>5. /\ runtime'.step = "errors" /\ runtime'.request = "none"
        /\ runtime'.mode = runtime.mode /\ runtime'.before = runtime.before
        /\ runtime'.pinned = runtime.pinned /\ runtime'.full = runtime.full
        /\ runtime'.proving = runtime.proving /\ runtime'.published = runtime.published
        /\ runtime'.baseline = baseline
        /\ RuntimeTypes'
    BY <1>2, <1>3, <1>4 DEF RuntimeTypes, Steps, Pinned
  <1>6. WorldTypes' /\ HyprlandsHold'
    BY <1>1, WorldKeeps DEF WorldTypes
  <1>7. PurposeHolds'
    BY <1>1, <1>5 DEF PurposeHolds, Resting
  <1>8. SessionHolds'
    BY <1>1, <1>2, <1>5 DEF SessionHolds, Pinned
  <1>9. BaselineHolds'
    BY <1>3, <1>5 DEF BaselineHolds
  <1>10. \A file \in Reloads!Loaders :
             Expects(file) =>
                 /\ Heard(file)
                 /\ \E load \in evidence :
                        load.file = file /\ load.errors \in Reloads!AcceptedErrors
    BY <1>1 DEF LoaderHolds, Heard, Known, OnlyLoads
  <1>11. Answered
    BY <1>1 DEF Answered, Known
  <1>12. LoaderHolds' /\ OtherHolds'
    BY <1>1, <1>5, <1>10, <1>11, ProofKeeps
  <1> QED
    BY <1>5, <1>6, <1>7, <1>8, <1>9, <1>12

\* The provider of the first reload is that of the baseline (j/status).
LEMMA QueryProviderKeeps ==
    ASSUME ReloadInv, Reloads!QueryProvider
    PROVE  ReloadInv'
  <1> USE DEF ReloadInv
  <1> DEFINE h == hyprlands[runtime.pinned]
  <1>1. /\ runtime.step = "errors" /\ h.runs
        /\ h.loaded.provider \in Reloads!AcceptedProviders
        /\ UNCHANGED <<hyprlands, environment, entrypoint, userCustom, stream, evidence>>
    BY DEF Reloads!QueryProvider, Reloads!Answers, Reloads!Identified,
           Reloads!SameProcess, Reloads!world
  <1>2. /\ runtime.pinned \in Hyprland /\ h.started
        /\ h.loaded.provider \in Reloads!Providers
        /\ runtime.request = "none"
    BY <1>1 DEF SessionHolds, HyprlandsHold, HyprlandHolds, Pinned, LoadedType
  <1> DEFINE baseline == IF runtime.proving THEN runtime.baseline
                         ELSE [runtime.baseline EXCEPT !.provider = h.loaded.provider]
  <1>3. /\ baseline \in BaselineType \cup {None}
        /\ ~runtime.proving => /\ baseline \in BaselineType
                               /\ baseline.provider = h.loaded.provider
    <2>1. CASE runtime.proving
      BY <2>1 DEF RuntimeTypes
    <2>2. CASE ~runtime.proving
      <3>1. runtime.baseline \in BaselineType
        BY <1>1, <2>2 DEF BaselineHolds
      <3> QED
        BY <1>2, <2>2, <3>1 DEF BaselineType
    <2> QED
      BY <2>1, <2>2
  <1>4. runtime' = [runtime EXCEPT !.step = "provider", !.baseline = baseline]
    BY DEF Reloads!QueryProvider, RuntimeTypes
  <1> HIDE DEF baseline
  <1>5. /\ runtime'.step = "provider" /\ runtime'.request = "none"
        /\ runtime'.mode = runtime.mode /\ runtime'.before = runtime.before
        /\ runtime'.pinned = runtime.pinned /\ runtime'.full = runtime.full
        /\ runtime'.proving = runtime.proving /\ runtime'.published = runtime.published
        /\ runtime'.baseline = baseline
        /\ RuntimeTypes'
    BY <1>2, <1>3, <1>4 DEF RuntimeTypes, Steps, Pinned
  <1>6. WorldTypes' /\ HyprlandsHold'
    BY <1>1, WorldKeeps DEF WorldTypes
  <1>7. PurposeHolds'
    BY <1>1, <1>5 DEF PurposeHolds, Resting
  <1>8. SessionHolds'
    BY <1>1, <1>2, <1>5 DEF SessionHolds, Pinned
  <1>9. BaselineHolds'
    BY <1>1, <1>3, <1>5 DEF BaselineHolds, Reloads!AcceptedProviders, Reloads!Managed
  <1>10. \A file \in Reloads!Loaders :
             Expects(file) =>
                 /\ Heard(file)
                 /\ \E load \in evidence :
                        load.file = file /\ load.errors \in Reloads!AcceptedErrors
    BY <1>1 DEF LoaderHolds, Heard, Known
  <1>11. Answered
    BY <1>1 DEF Answered, Known
  <1>12. LoaderHolds' /\ OtherHolds'
    BY <1>1, <1>5, <1>10, <1>11, ProofKeeps
  <1> QED
    BY <1>5, <1>6, <1>7, <1>8, <1>9, <1>12

\* What there was is kept with what is published.
LEMMA PublishKeeps ==
    ASSUME ReloadInv, Reloads!Publish
    PROVE  ReloadInv'
  <1> USE DEF ReloadInv
  <1>1. /\ runtime.step = "prepared" /\ ~runtime.published
        /\ ~Reloads!RollbackMode(runtime.mode)
        /\ UNCHANGED <<hyprlands, environment, userCustom, stream, evidence>>
        /\ entrypoint' \in {"target", entrypoint}
    BY DEF Reloads!Publish
  <1>2. PICK next \in {"prepared", "failed"} :
            runtime' = [runtime EXCEPT
                 !.step = next, !.published = TRUE,
                 !.before.errors = runtime.baseline.errors,
                 !.before.provider = runtime.baseline.provider]
    BY DEF Reloads!Publish
  <1>3. /\ ~runtime.proving /\ runtime.request = "none"
        /\ runtime.pinned \in Hyprland /\ hyprlands[runtime.pinned].started
        /\ runtime.baseline \in BaselineType
        /\ runtime.mode \in Modes /\ runtime.before \in BeforeType
        /\ Reloads!Managed(runtime.mode) <=> runtime.before.file = "prior"
    BY <1>1 DEF SessionHolds, BaselineHolds, PurposeHolds, Pinned, Resting
  <1> DEFINE before == [runtime.before EXCEPT !.errors = runtime.baseline.errors,
                                              !.provider = runtime.baseline.provider]
  <1>4. /\ before \in BeforeType /\ before.file = runtime.before.file
        /\ before.provider = runtime.baseline.provider
    BY <1>3 DEF BaselineType, BeforeType
  <1>5. runtime' = [runtime EXCEPT !.step = next, !.published = TRUE, !.before = before]
    BY <1>2, <1>3 DEF RuntimeTypes
  <1> HIDE DEF before
  <1>6. /\ runtime'.step = next /\ runtime'.request = "none"
        /\ runtime'.mode = runtime.mode /\ runtime'.before = before
        /\ runtime'.pinned = runtime.pinned
        /\ ~runtime'.proving /\ runtime'.published
        /\ runtime'.baseline = runtime.baseline
        /\ RuntimeTypes'
    BY <1>3, <1>4, <1>5 DEF RuntimeTypes, Steps, Pinned
  <1>7. WorldTypes' /\ HyprlandsHold'
    BY <1>1, WorldKeeps DEF WorldTypes, Reloads!Files, Reloads!Loaders
  <1>8. before.file = "prior" => before.provider = "lua"
    BY <1>1, <1>3, <1>4 DEF BaselineHolds, Modes, Reloads!Managed, Reloads!RollbackMode
  <1>9. PurposeHolds'
    BY <1>3, <1>4, <1>6, <1>8 DEF PurposeHolds
  <1>10. SessionHolds' /\ BaselineHolds'
    BY <1>1, <1>3, <1>6 DEF SessionHolds, BaselineHolds, Pinned
  <1> QED
    BY <1>6, <1>7, <1>9, <1>10, NoProof

\* The rollback restores what the session before it kept (LiveActivationBackend::rollback).
LEMMA RestoreKeeps ==
    ASSUME ReloadInv, Reloads!Restore
    PROVE  ReloadInv'
  <1> USE DEF ReloadInv
  <1>1. /\ runtime.step = "prepared" /\ Reloads!RollbackMode(runtime.mode)
        /\ UNCHANGED <<hyprlands, environment, userCustom, stream, evidence>>
        /\ entrypoint' = runtime.before.file
        /\ runtime' = [runtime EXCEPT !.published = TRUE]
    BY DEF Reloads!Restore
  <1>2. /\ ~runtime.proving
        /\ runtime.before \in BeforeType
    BY <1>1 DEF SessionHolds, PurposeHolds, Pinned, Resting
  <1>3. /\ runtime'.step = runtime.step /\ runtime'.request = runtime.request
        /\ runtime'.mode = runtime.mode /\ runtime'.before = runtime.before
        /\ runtime'.pinned = runtime.pinned /\ ~runtime'.proving
        /\ runtime'.published /\ runtime'.baseline = runtime.baseline
        /\ RuntimeTypes'
    BY <1>1, <1>2 DEF RuntimeTypes
  <1>4. WorldTypes' /\ HyprlandsHold'
    <2>1. entrypoint' \in Reloads!Files
      BY <1>1, <1>2 DEF BeforeType, Reloads!Before, Reloads!Files, Reloads!Loaders
    <2> QED
      BY <1>1, <2>1, WorldKeeps DEF WorldTypes
  <1>5. PurposeHolds'
    BY <1>1, <1>3 DEF PurposeHolds
  <1>6. SessionHolds' /\ BaselineHolds'
    BY <1>1, <1>2, <1>3 DEF SessionHolds, BaselineHolds, Pinned
  <1> QED
    BY <1>3, <1>4, <1>5, <1>6, NoProof

\* A failure claims nothing, and its rollback has the purpose of what failed (cancel).
LEMMA FailKeeps ==
    ASSUME ReloadInv, Reloads!Fail
    PROVE  ReloadInv'
  <1> USE DEF ReloadInv
  <1>1. /\ runtime.step \notin Resting /\ stream' = <<>>
        /\ UNCHANGED <<hyprlands, environment, entrypoint, userCustom, evidence>>
    BY DEF Reloads!Fail, Resting, Reloads!world
  <1>2. /\ runtime.mode \in Modes /\ runtime.before \in BeforeType
        /\ runtime.published /\ runtime.before.file = "prior"
               => runtime.before.provider = "lua"
    BY <1>1 DEF PurposeHolds
  <1>3. WorldTypes' /\ HyprlandsHold'
    BY <1>1, WorldKeeps DEF WorldTypes
  <1>4. CASE runtime.published /\ ~Reloads!RollbackMode(runtime.mode)
    <2>1. /\ runtime'.step = "resolving" /\ runtime'.before = runtime.before
          /\ runtime'.mode = IF runtime.before.file = "prior" THEN "ManagedRollback"
                             ELSE "LegacyRollback"
          /\ runtime'.pinned = None /\ runtime'.request = "none"
          /\ ~runtime'.proving
          /\ RuntimeTypes'
      BY ZenonT(60), <1>2, <1>4 DEF Reloads!Fail, Reloads!Idle, RuntimeTypes, Steps, Modes
    <2>2. PurposeHolds'
      BY <1>2, <1>4, <2>1 DEF PurposeHolds, Modes, Reloads!Managed
    <2>3. SessionHolds' /\ BaselineHolds'
      BY <2>1 DEF SessionHolds, BaselineHolds, Pinned
    <2> QED
      BY <1>3, <2>1, <2>2, <2>3, NoProof
  <1>5. CASE ~(runtime.published /\ ~Reloads!RollbackMode(runtime.mode))
    <2>1. /\ runtime'.step = "ended" /\ runtime'.pinned = None
          /\ runtime'.request = "none" /\ ~runtime'.proving
          /\ RuntimeTypes'
      BY <1>5 DEF Reloads!Fail, Reloads!Idle, RuntimeTypes, Steps, Resting
    <2>2. PurposeHolds' /\ SessionHolds' /\ BaselineHolds'
      BY <2>1 DEF PurposeHolds, SessionHolds, BaselineHolds, Pinned, Resting
    <2> QED
      BY <1>3, <2>1, <2>2, NoProof
  <1> QED
    BY <1>4, <1>5

-----------------------------------------------------------------------------
(* The theorem *)

\* The invariant holds where the service starts.
LEMMA InitReloads == Reloads!Init => ReloadInv
  <1> SUFFICES ASSUME Reloads!Init PROVE ReloadInv
    OBVIOUS
  <1>1. /\ entrypoint \in Reloads!Before /\ environment = None /\ userCustom = FALSE
        /\ hyprlands = [p \in Hyprland |-> Reloads!NotStarted]
        /\ stream = <<>> /\ runtime = Reloads!Idle /\ evidence = {}
    BY DEF Reloads!Init
  <1>2. Reloads!NotStarted \in HyprlandType /\ HyprlandHolds(Reloads!NotStarted)
    BY DEF Reloads!NotStarted, HyprlandType, HyprlandHolds
  <1>3. WorldTypes
    <2>1. hyprlands \in [Hyprland -> HyprlandType]
      BY <1>1, <1>2
    <2>2. stream \in Seq(Reloads!Loaders \cup {"configreloaded"})
      BY <1>1
    <2>3. entrypoint \in Reloads!Files
      BY <1>1 DEF Reloads!Before, Reloads!Files, Reloads!Loaders
    <2> QED
      BY <1>1, <2>1, <2>2, <2>3 DEF WorldTypes
  <1>4. HyprlandsHold
    BY <1>1, <1>2 DEF HyprlandsHold
  <1>5. RuntimeTypes
    BY <1>1 DEF RuntimeTypes, Reloads!Idle, Steps, Resting
  <1>6. /\ runtime.step = "idle" /\ runtime.pinned = None
        /\ runtime.request = "none" /\ ~runtime.proving
    BY <1>1 DEF Reloads!Idle
  <1>7. PurposeHolds /\ SessionHolds /\ BaselineHolds
    BY <1>6 DEF PurposeHolds, SessionHolds, BaselineHolds, Pinned, Resting
  <1>8. LoaderHolds /\ OtherHolds
    BY <1>6 DEF LoaderHolds, OtherHolds, Expects
  <1> QED
    BY <1>3, <1>4, <1>5, <1>7, <1>8 DEF ReloadInv

\* Every step of Hyprland, its user and the service keeps the invariant.
LEMMA ReloadStepKeeps ==
    ASSUME ReloadInv, Reloads!Next
    PROVE  ReloadInv'
  BY StartKeeps, StopKeeps, ReloadByItselfKeeps, LoadAskedKeeps, FinishLoadKeeps,
     UserEditKeeps, TakeRequestKeeps, BeginKeeps, PinKeeps, DrainKeeps,
     SendReloadKeeps, AcknowledgedKeeps, WaitForReloadKeeps, QueryErrorsKeeps,
     QueryProviderKeeps, ConfirmKeeps, PublishKeeps, RestoreKeeps, VerifyKeeps,
     FailKeeps DEF Reloads!Next

\* Another part's step, or none.
LEMMA ReloadsRest ==
    ASSUME ReloadInv, UNCHANGED reloads
    PROVE  ReloadInv'
  <1>1. UNCHANGED <<hyprlands, environment, entrypoint, userCustom, stream, runtime,
                    evidence>>
    BY DEF reloads
  <1>2. WorldTypes' /\ RuntimeTypes' /\ HyprlandsHold'
    BY <1>1 DEF ReloadInv, WorldTypes, RuntimeTypes, HyprlandsHold
  <1>3. PurposeHolds' /\ SessionHolds' /\ BaselineHolds'
    BY <1>1 DEF ReloadInv, PurposeHolds, SessionHolds, BaselineHolds
  <1>4. \A file : (Expects(file)' <=> Expects(file)) /\ (Heard(file)' <=> Heard(file))
    BY <1>1 DEF Expects, Reloads!Expected, Heard
  <1>5. LoaderHolds' /\ OtherHolds'
    BY <1>1, <1>4 DEF ReloadInv, LoaderHolds, OtherHolds, Reloads!AcceptedErrors,
                      Answered
  <1> QED
    BY <1>2, <1>3, <1>5 DEF ReloadInv

\* The invariant has what the proof of a reload claims.
LEMMA ReloadsProve == ReloadInv => Reloads!ReloadsAreProven
  <1> SUFFICES ASSUME ReloadInv PROVE Reloads!ReloadsAreProven
    OBVIOUS
  <1> USE DEF ReloadInv
  <1>1. Reloads!TypeOK
    BY DEF Reloads!TypeOK, WorldTypes, RuntimeTypes, HyprlandsHold, HyprlandHolds,
           LoadedType
  <1>2. Reloads!Exact => /\ runtime.step = "proved" /\ runtime.proving
                 /\ Expects(Reloads!Expected)
                 /\ Reloads!Expected \in Reloads!Loaders \cup {"user", "missing"}
    <2> SUFFICES ASSUME Reloads!Exact
                 PROVE  /\ runtime.proving
                        /\ Expects(Reloads!Expected)
                        /\ Reloads!Expected \in Reloads!Loaders \cup {"user", "missing"}
      BY DEF Reloads!Exact
    <2>1. runtime.proving /\ runtime.before \in BeforeType
      BY DEF Reloads!Exact, SessionHolds, PurposeHolds, Resting
    <2>2. runtime.before.file \in Reloads!Before
      BY <2>1 DEF BeforeType
    <2> QED
      BY <2>1, <2>2 DEF Reloads!Exact, Expects, Reloads!Expected, Reloads!Before,
                        Reloads!Loaders
  <1>3. Reloads!ProofIsOfTheFile
    <2> SUFFICES ASSUME Reloads!Exact, Reloads!NonceOf(Reloads!Expected) # None
                 PROVE  \E load \in evidence :
                            /\ load.file = Reloads!Expected
                            /\ load.errors \in Reloads!AcceptedErrors
                            /\ load.provider \in Reloads!AcceptedProviders
      BY DEF Reloads!ProofIsOfTheFile
    <2>1. Reloads!Expected \in Reloads!Loaders
      BY DEF Reloads!NonceOf
    <2>2. PICK load \in evidence :
              load.file = Reloads!Expected /\ load.errors \in Reloads!AcceptedErrors
      BY <1>2, <2>1 DEF LoaderHolds, Known
    <2>3. load.provider = "lua"
      BY <2>1, <2>2 DEF HyprlandsHold, InLua
    <2>4. Reloads!AcceptedProviders = {"lua"}
      <3>1. Reloads!RollbackMode(runtime.mode) => runtime.before.provider = "lua"
        BY <1>2, <2>1 DEF PurposeHolds, Resting, BeforeType, Reloads!Before,
                          Reloads!Loaders, Reloads!Expected
      <3> QED
        BY <1>2, <3>1 DEF Reloads!AcceptedProviders
    <2> QED
      BY <2>2, <2>3, <2>4
  <1>4. Reloads!ProvenIsLoaded
    <2> SUFFICES ASSUME Reloads!Exact, hyprlands[runtime.pinned].runs
                 PROVE  \/ hyprlands[runtime.pinned].loaded.file = Reloads!Expected
                        \/ /\ Reloads!NonceOf(Reloads!Expected) = None
                           /\ \/ hyprlands[runtime.pinned].asked # None
                              \/ /\ hyprlands[runtime.pinned].loading # None
                                 /\ hyprlands[runtime.pinned].loading.file = Reloads!Expected
      BY DEF Reloads!ProvenIsLoaded
    <2>1. CASE Reloads!Expected \in Reloads!Loaders
      BY <1>2, <2>1 DEF LoaderHolds, Heard, Known, OnlyLoads
    <2>2. CASE Reloads!Expected \in {"user", "missing"}
      <3>1. Reloads!NonceOf(Reloads!Expected) = None /\ Answered
        BY <1>2, <2>2 DEF Reloads!NonceOf, Reloads!Loaders, Answered, Known
      <3>2. None # TRUE
        BY NoneAssumption
      <3> QED
        BY <1>2, <2>2, <3>1, <3>2 DEF OtherHolds, AsFile
    <2> QED
      BY <1>2, <2>1, <2>2
  <1> QED
    BY <1>1, <1>3, <1>4 DEF Reloads!ReloadsAreProven

\* When the backend has its proof and finds the entrypoint as it published it, the
\* proof is of a load of that file, after the stream was drained, with the errors
\* and the provider that were asked for, and Hyprland runs that file, or will
\* (reloadBarrier, waitForReloadEvents, verifyTransition).
THEOREM ReloadsAlwaysProven == Spec => []ReloadsAreProven
  <1>1. Init => ReloadInv
    BY InitReloads DEF Init
  <1>2. ASSUME ReloadInv, [Next]_vars PROVE ReloadInv'
    <2>1. CASE OnlyReloads /\ Reloads!Next
      BY <1>2, <2>1, ReloadStepKeeps
    <2>2. CASE \/ OnlyActivation \/ OnlySettings \/ OnlyVisual \/ OnlyCaptures
               \/ OnlyGenerations \/ OnlyPackageStore \/ OnlyDocument
               \/ UNCHANGED vars
      <3>1. UNCHANGED reloads
        BY <2>2 DEF OnlyActivation, OnlySettings, OnlyVisual, OnlyCaptures,
                    OnlyGenerations, OnlyPackageStore, OnlyDocument, vars, parts
      <3> QED
        BY <1>2, <3>1, ReloadsRest
    <2> QED
      BY <1>2, <2>1, <2>2 DEF Next
  <1>3. ReloadInv => ReloadsAreProven
    BY ReloadsProve DEF ReloadsAreProven
  <1> QED
    BY <1>1, <1>2, <1>3, PTL DEF Spec

-----------------------------------------------------------------------------
(* The settings: what the stores may write, and where *)

ValidFile == {f \in Settings!File : f.status = "valid"}
WriteOf == [file: Settings!Files, content: ValidFile, optional: BOOLEAN]
WritesTo(s) == {w \in WriteOf : w.file[1] = s}
JobKinds == {"load", "set", "retire", "replace", "components", "reload"}
JobType ==
    [kind: JobKinds, writes: Seq(WriteOf), state: ValidFile \cup {None},
     next: ValidFile \cup {None}, available: BOOLEAN, writable: BOOLEAN, written: Nat]

\* No file of the store is of a later release.
Supported(s) == \A copy \in {"active", "recovery"} : disk[<<s, copy>>].status # "future"

DiskType == disk \in [Settings!Files -> Settings!File]

\* What runs has taken over files that it supports.
ProcessHolds(proc) ==
    /\ proc \in Settings!Process
    /\ proc.shell \in ValidFile
    /\ proc.component \in ValidFile \cup {None}
    /\ proc.available => proc.component \in ValidFile
    /\ Supported("shell")
    /\ proc.writable => Supported("component")

\* It writes only what it may replace.
JobHolds(j) ==
    /\ j \in JobType
    /\ \A i \in DOMAIN j.writes : Supported(j.writes[i].file[1])
    /\ j.kind \in {"set", "replace", "components", "reload"} => j.next \in ValidFile
    /\ j.kind \in {"components", "reload"} =>
           j.state \in ValidFile /\ (j.writable => Supported("component"))
    /\ j.kind = "reload" => configd.component \in ValidFile

SettingsInv ==
    /\ DiskType
    /\ catalog \in {"old", "new"}
    /\ configd # None => ProcessHolds(configd)
    /\ job # None => configd # None /\ JobHolds(job)

-----------------------------------------------------------------------------
(* What the operators return *)

LEMMA ParsedIs ==
    ASSUME NEW f \in Settings!File
    PROVE  /\ Settings!Parsed(f) \in Settings!File /\ Settings!Parsed(f).status = f.status
           /\ Settings!Parsed(f).workspace \in {"absent", "present"}
           /\ Settings!Without(f) \in Settings!File
           /\ Settings!Without(f).status = f.status
  BY DEF Settings!Parsed, Settings!Without, Settings!File

LEMMA BlankIs ==
    \A status \in {"missing", "damaged", "future", "unreadable", "valid"} :
        Settings!Blank(status) \in Settings!File /\ Settings!Blank(status).status = status
  BY RevisionAssumption DEF Settings!Blank, Settings!File

LEMMA FoundIs ==
    ASSUME DiskType, NEW file \in Settings!Files
    PROVE  /\ Settings!Found(file) \in Settings!File
           /\ ~Settings!Untouchable(Settings!Found(file)) => disk[file].status # "future"
           /\ Settings!Found(file).status = "valid" => Settings!Found(file) = disk[file]
  BY BlankIs DEF DiskType, Settings!Found, Settings!Untouchable

LEMMA ShellChoiceIs ==
    ASSUME NEW active \in Settings!File, NEW recovery \in Settings!File
    PROVE  Settings!ShellChoice(active, recovery) \in ValidFile
  BY BlankIs DEF Settings!ShellChoice, Settings!Defaults, ValidFile

LEMMA WriteIs ==
    ASSUME NEW s \in Settings!Stores, NEW copy \in {"active", "recovery"}, NEW content \in ValidFile
    PROVE  /\ Settings!Write(<<s, copy>>, content) \in WritesTo(s)
           /\ Settings!Write(<<s, copy>>, content).content = content
           /\ Settings!OptionalWrite(<<s, copy>>, content) \in WritesTo(s)
  BY DEF Settings!Write, Settings!OptionalWrite, WriteOf, WritesTo, Settings!Files,
         Settings!Stores

LEMMA BothIs ==
    ASSUME NEW s \in Settings!Stores, NEW content \in ValidFile
    PROVE  /\ Settings!Both(s, content) \in Seq(WritesTo(s)) \ {<<>>}
           /\ Head(Settings!Both(s, content)).content = content
  BY WriteIs DEF Settings!Both

LEMMA PersistIs ==
    ASSUME NEW s \in Settings!Stores, NEW current \in ValidFile, NEW next \in ValidFile
    PROVE  Settings!PersistWrites(s, current, next) \in Seq(WritesTo(s))
  BY WriteIs DEF Settings!PersistWrites

LEMMA ShellWritesAre ==
    ASSUME NEW active \in Settings!File, NEW recovery \in Settings!File
    PROVE  Settings!ShellWrites(active, recovery) \in Seq(WritesTo("shell"))
  <1> DEFINE chosen == Settings!Parsed(Settings!ShellChoice(active, recovery))
  <1>1. chosen \in ValidFile
    BY ShellChoiceIs, ParsedIs DEF ValidFile
  <1>2. Settings!ShellWrites(active, recovery) \in
            {Settings!Both("shell", chosen), <<Settings!Write(<<"shell", "recovery">>, chosen)>>,
             <<Settings!Write(<<"shell", "active">>, chosen)>>, <<>>}
    BY DEF Settings!ShellWrites
  <1>3. "shell" \in Settings!Stores
    BY DEF Settings!Stores
  <1> HIDE DEF chosen
  <1>4. /\ Settings!Both("shell", chosen) \in Seq(WritesTo("shell"))
        /\ <<Settings!Write(<<"shell", "recovery">>, chosen)>> \in Seq(WritesTo("shell"))
        /\ <<Settings!Write(<<"shell", "active">>, chosen)>> \in Seq(WritesTo("shell"))
    BY <1>1, <1>3, BothIs, WriteIs
  <1>5. <<>> \in Seq(WritesTo("shell"))
    OBVIOUS
  <1> QED
    BY <1>2, <1>4, <1>5, Zenon

LEMMA ComponentChoiceIs ==
    ASSUME NEW active \in Settings!File, NEW recovery \in Settings!File,
           NEW workspace \in {"absent", "present"}
    PROVE  Settings!ComponentChoice(active, recovery, workspace) \in ValidFile
  BY BlankIs DEF Settings!ComponentChoice, Settings!Defaults, ValidFile, Settings!File

LEMMA MigratedIs ==
    ASSUME NEW f \in ValidFile, NEW release, Settings!Migrates(release, f)
    PROVE  Settings!Migrated(f) \in ValidFile
  <1>1. f \in Settings!File /\ f.status = "valid" /\ f.revision + 1 \in 0..MaxRevision
    BY RevisionAssumption DEF ValidFile, Settings!File, Settings!Migrates
  <1>2. Settings!Migrated(f) = [f EXCEPT !.form = "new", !.revision = f.revision + 1]
    BY DEF Settings!Migrated
  <1> QED
    BY <1>1, <1>2 DEF ValidFile, Settings!File

LEMMA ComponentLoadIs ==
    ASSUME NEW active \in Settings!File, NEW recovery \in Settings!File,
           NEW workspace \in {"absent", "present"}, NEW release
    PROVE  LET plan == Settings!ComponentLoad(release, active, recovery, workspace)
           IN /\ plan.available \in BOOLEAN /\ plan.writable \in BOOLEAN
              /\ plan.state \in ValidFile
              /\ plan.writes \in Seq(WritesTo("component"))
              /\ plan.writable \/ plan.writes # <<>> =>
                     ~Settings!Untouchable(active) /\ ~Settings!Untouchable(recovery)
  <1> DEFINE chosen == Settings!ComponentChoice(active, recovery, workspace)
             plan == Settings!ComponentLoad(release, active, recovery, workspace)
             other == IF chosen = active THEN "recovery" ELSE "active"
             copied == <<Settings!Write(<<"component", other>>, chosen)>>
  <1>1. chosen \in ValidFile
    BY ComponentChoiceIs
  <1>2. "component" \in Settings!Stores /\ other \in {"active", "recovery"}
    BY DEF Settings!Stores
  <1>3. /\ plan.available \in BOOLEAN /\ plan.writable \in BOOLEAN /\ plan.state = chosen
        /\ plan.writable \/ plan.writes # <<>> =>
               ~Settings!Untouchable(active) /\ ~Settings!Untouchable(recovery)
        /\ \/ plan.writes \in {<<>>, Settings!Both("component", chosen), copied}
           \/ /\ Settings!Migrates(release, chosen)
              /\ plan.writes = Settings!Both("component", Settings!Migrated(chosen))
    BY DEF Settings!ComponentLoad
  <1> HIDE DEF chosen, other, plan
  <1>4. <<>> \in Seq(WritesTo("component")) /\ copied \in Seq(WritesTo("component"))
    <2>1. Settings!Write(<<"component", other>>, chosen) \in WritesTo("component")
      BY <1>1, <1>2, WriteIs
    <2> QED
      BY <2>1
  <1>5. Settings!Migrates(release, chosen) => Settings!Migrated(chosen) \in ValidFile
    BY <1>1, MigratedIs
  <1>6. plan.writes \in Seq(WritesTo("component"))
    <2>1. /\ Settings!Both("component", chosen) \in Seq(WritesTo("component"))
          /\ Settings!Migrates(release, chosen) =>
                 Settings!Both("component", Settings!Migrated(chosen)) \in Seq(WritesTo("component"))
      BY <1>1, <1>2, <1>5, BothIs
    <2> HIDE DEF copied
    <2> QED
      BY <1>3, <1>4, <2>1, Zenon
  <1> QED
    BY <1>1, <1>3, <1>6 DEF plan

-----------------------------------------------------------------------------
(* What the handlers keep *)

\* Writes to one store, with what they were made for.
LEMMA JobIs ==
    ASSUME NEW kind \in JobKinds, NEW s \in Settings!Stores, NEW writes \in Seq(WritesTo(s)),
           NEW state \in ValidFile \cup {None}, NEW next \in ValidFile \cup {None},
           NEW j, j = Settings!Job(kind, writes, state, next)
    PROVE  /\ j \in JobType
           /\ j.kind = kind /\ j.writes = writes /\ j.state = state /\ j.next = next
           /\ \A i \in DOMAIN j.writes : j.writes[i].file[1] = s
  <1>1. writes \in Seq(WriteOf) /\ \A i \in DOMAIN writes : writes[i].file[1] = s
    BY DEF WritesTo
  <1> QED
    BY <1>1 DEF Settings!Job, JobType

LEMMA RetireJobIs ==
    ASSUME NEW proc, proc.shell \in ValidFile
    PROVE  /\ Settings!RetireJob(proc) \in JobType
           /\ Settings!RetireJob(proc).kind = "retire"
           /\ \A i \in DOMAIN Settings!RetireJob(proc).writes :
                     Settings!RetireJob(proc).writes[i].file[1] = "shell"
  <1>1. Settings!Without(proc.shell) \in ValidFile
    BY ParsedIs DEF ValidFile
  <1> DEFINE writes == Settings!Both("shell", Settings!Without(proc.shell))
  <1>2. writes \in Seq(WritesTo("shell"))
    BY <1>1, BothIs DEF Settings!Stores
  <1>3. Settings!RetireJob(proc) = Settings!Job("retire", writes, None, None)
    BY DEF Settings!RetireJob
  <1> HIDE DEF writes
  <1>4. writes \in Seq(WriteOf) /\ \A i \in DOMAIN writes : writes[i].file[1] = "shell"
    BY <1>2 DEF WritesTo
  <1> QED
    BY <1>3, <1>4 DEF Settings!Job, JobType, JobKinds

LEMMA LoadJobIs ==
    ASSUME NEW kind \in {"components", "reload"}, NEW plan,
           plan.available \in BOOLEAN, plan.writable \in BOOLEAN,
           plan.state \in ValidFile, plan.writes \in Seq(WritesTo("component"))
    PROVE  LET j == Settings!LoadJob(kind, plan)
           IN /\ j \in JobType
              /\ j.kind = kind /\ j.writes = plan.writes /\ j.writable = plan.writable
              /\ j.state \in ValidFile /\ j.next \in ValidFile
              /\ \A i \in DOMAIN j.writes : j.writes[i].file[1] = "component"
  <1> DEFINE next == IF plan.writes = <<>> THEN plan.state ELSE Head(plan.writes).content
             base == Settings!Job(kind, plan.writes, plan.state, next)
  <1>1. next \in ValidFile
    BY DEF WritesTo, WriteOf
  <1>2. "component" \in Settings!Stores /\ kind \in JobKinds
    BY DEF Settings!Stores, JobKinds
  <1>b. base = Settings!Job(kind, plan.writes, plan.state, next)
    OBVIOUS
  <1> HIDE DEF next, base
  <1>3. /\ base \in JobType
        /\ base.kind = kind /\ base.writes = plan.writes
        /\ base.state = plan.state /\ base.next = next
        /\ \A i \in DOMAIN base.writes : base.writes[i].file[1] = "component"
    <2>1. next \in ValidFile \cup {None} /\ plan.state \in ValidFile \cup {None}
      BY <1>1
    <2> QED
      BY <1>2, <1>b, <2>1, JobIs
  <1>4. Settings!LoadJob(kind, plan)
            = [base EXCEPT !.available = plan.available, !.writable = plan.writable]
    BY DEF Settings!LoadJob, base, next
  <1> QED
    <2>1. /\ base.writes \in Seq(WriteOf) /\ base.written \in Nat
          /\ base.kind \in JobKinds
          /\ base = [kind |-> base.kind, writes |-> base.writes, state |-> base.state,
                     next |-> base.next, available |-> base.available,
                     writable |-> base.writable, written |-> base.written]
      BY <1>3 DEF JobType
    <2>2. Settings!LoadJob(kind, plan)
            = [kind |-> kind, writes |-> plan.writes, state |-> plan.state,
               next |-> next, available |-> plan.available,
               writable |-> plan.writable, written |-> base.written]
      BY <1>3, <1>4, <2>1
    <2> QED
      BY <1>1, <1>3, <2>1, <2>2 DEF JobType

\* The end of applyCatalog, whatever it takes over.
LEMMA TakeKeeps ==
    ASSUME SettingsInv, configd # None,
           NEW available \in BOOLEAN, NEW writable \in BOOLEAN, NEW state \in ValidFile \cup {None},
           available => state \in ValidFile, writable => Supported("component"),
           Settings!TakeConfiguration(available, writable, state), UNCHANGED <<disk, catalog>>
    PROVE  SettingsInv'
  <1>1. configd \in Settings!Process /\ ProcessHolds(configd)
    BY DEF SettingsInv, ProcessHolds
  <1> DEFINE proc == [configd EXCEPT !.available = available, !.writable = writable,
                                     !.component = state]
  <1>2. Settings!Establish(proc)
    BY DEF Settings!TakeConfiguration
  <1>3. /\ proc \in Settings!Process /\ proc.shell = configd.shell
        /\ proc.component = state /\ proc.available = available
        /\ proc.writable = writable
    BY <1>1 DEF Settings!Process, ValidFile
  <1> HIDE DEF proc
  <1> DEFINE after == [proc EXCEPT !.authorized = proc.authorized \/ proc.available,
                                   !.held = IF proc.available THEN "absent" ELSE proc.held]
  <1>4. configd' = after /\ job' \in {Settings!RetireJob(proc), None}
    BY <1>2 DEF Settings!Establish
  <1>5. /\ after \in Settings!Process /\ after.shell = configd.shell
        /\ after.component = state /\ after.available = available
        /\ after.writable = writable
    BY <1>3 DEF Settings!Process
  <1> HIDE DEF after
  <1>6. ProcessHolds(configd)'
    BY <1>1, <1>4, <1>5 DEF ProcessHolds, Supported
  <1>7. job' # None => JobHolds(job)'
    BY <1>1, <1>3, <1>4, RetireJobIs DEF ProcessHolds, JobHolds, Supported
  <1>8. configd' # None
    BY <1>4, <1>5, NoneAssumption
  <1> QED
    BY <1>6, <1>7, <1>8 DEF SettingsInv, DiskType

\* The next of the writes is of a file that may be replaced, and so are the others.
LEMMA WritesShrink ==
    ASSUME NEW j, JobHolds(j), j.writes # <<>>
    PROVE  /\ Head(j.writes) \in WriteOf
           /\ Supported(Head(j.writes).file[1])
           /\ Tail(j.writes) \in Seq(WriteOf)
           /\ \A i \in DOMAIN Tail(j.writes) : Supported(Tail(j.writes)[i].file[1])
  <1>1. j.writes \in Seq(WriteOf) /\ \A i \in DOMAIN j.writes :
               Supported(j.writes[i].file[1])
    BY DEF JobHolds, JobType
  <1> QED
    BY <1>1

\* A file is replaced by one that is supported (WriteSucceeds).
LEMMA WriteSucceedsKeeps ==
    ASSUME SettingsInv, Settings!WriteSucceeds
    PROVE  /\ SettingsInv'
           /\ \A file \in Settings!Files : disk[file].status = "future" =>
                     disk'[file] = disk[file]
  <1> DEFINE w == Head(job.writes)
             shorter == [job EXCEPT !.writes = Tail(job.writes), !.written = job.written + 1]
  <1>1. /\ job # None /\ job.writes # <<>> /\ JobHolds(job) /\ ProcessHolds(configd)
        /\ configd # None
    BY DEF Settings!WriteSucceeds, SettingsInv
  <1>2. /\ disk' = [disk EXCEPT ![w.file] = w.content]
        /\ job' = shorter
        /\ UNCHANGED <<configd, catalog>>
    BY DEF Settings!WriteSucceeds, Settings!Environment
  <1>3. /\ w \in WriteOf
        /\ Supported(w.file[1])
        /\ Tail(job.writes) \in Seq(WriteOf)
        /\ \A i \in DOMAIN Tail(job.writes) : Supported(Tail(job.writes)[i].file[1])
    BY <1>1, WritesShrink
  <1>4. /\ shorter \in JobType /\ shorter.kind = job.kind
        /\ shorter.writes = Tail(job.writes)
        /\ shorter.state = job.state /\ shorter.next = job.next
        /\ shorter.writable = job.writable
    <2> DEFINE rest == Tail(job.writes)
    <2>1. job \in JobType /\ job.written + 1 \in Nat /\ rest \in Seq(WriteOf)
      BY <1>1, <1>3 DEF JobHolds, JobType
    <2>2. shorter = [job EXCEPT !.writes = rest, !.written = job.written + 1]
      OBVIOUS
    <2> HIDE DEF shorter, rest
    <2>3. /\ shorter \in JobType /\ shorter.kind = job.kind /\ shorter.writes = rest
          /\ shorter.state = job.state /\ shorter.next = job.next
          /\ shorter.writable = job.writable
      BY <2>1, <2>2 DEF JobType
    <2> QED
      BY <2>3 DEF rest
  <1> HIDE DEF w, shorter
  <1>5. /\ w.file \in Settings!Files /\ w.content \in ValidFile
        /\ w.content \in Settings!File /\ w.content.status = "valid"
    BY <1>3 DEF WriteOf, ValidFile
  <1>6. /\ disk \in [Settings!Files -> Settings!File]
        /\ disk' \in [Settings!Files -> Settings!File]
    BY <1>2, <1>5 DEF SettingsInv, DiskType
  <1>7. \A s : Supported(s) => Supported(s)'
    <2> SUFFICES ASSUME NEW s, Supported(s), NEW copy \in {"active", "recovery"}
                 PROVE  disk'[<<s, copy>>].status # "future"
      BY DEF Supported
    <2>1. CASE <<s, copy>> = w.file
      BY <1>2, <1>5, <1>6, <2>1
    <2>2. CASE <<s, copy>> # w.file
      BY <1>2, <1>6, <2>2 DEF Supported
    <2> QED
      BY <2>1, <2>2
  <1>8. \A file \in Settings!Files : disk[file].status = "future" =>
               disk'[file] = disk[file]
    <2>1. disk[w.file].status # "future"
      BY <1>3, <1>5 DEF Supported, Settings!Files, Settings!Stores
    <2> QED
      BY <1>2, <1>6, <2>1
  <1>9. ProcessHolds(configd)'
    BY <1>1, <1>2, <1>7 DEF ProcessHolds
  <1>10. JobHolds(job)'
    BY <1>1, <1>2, <1>3, <1>4, <1>7 DEF JobHolds
  <1> QED
    BY <1>1, <1>2, <1>6, <1>8, <1>9, <1>10 DEF SettingsInv, DiskType

\* A job that is dropped leaves what was served, and one that only drops a write
\* goes on.
LEMMA NothingTaken ==
    ASSUME SettingsInv, configd # None, UNCHANGED <<disk, catalog>>, job' = None,
           configd' # None => ProcessHolds(configd')
    PROVE  SettingsInv'
  BY DEF SettingsInv, DiskType, ProcessHolds, Supported

LEMMA ReloadKeeps ==
    ASSUME SettingsInv, configd # None, configd.component \in ValidFile,
           NEW writable \in BOOLEAN, NEW state \in ValidFile,
           writable => Supported("component"),
           Settings!Reload(writable, state), UNCHANGED <<disk, catalog>>
    PROVE  SettingsInv'
  <1>1. \/ Settings!TakeConfiguration(TRUE, writable, state)
        \/ Settings!TakeConfiguration(TRUE, FALSE, configd.component)
    BY DEF Settings!Reload
  <1> QED
    BY <1>1, TakeKeeps

\* What could not be written is not taken over (WriteFails).
LEMMA WriteFailsKeeps ==
    ASSUME SettingsInv, Settings!WriteFails
    PROVE  SettingsInv' /\ UNCHANGED disk
  <1>1. /\ job # None /\ job.writes # <<>> /\ JobHolds(job) /\ ProcessHolds(configd)
        /\ configd # None
    BY DEF Settings!WriteFails, SettingsInv
  <1>2. UNCHANGED <<disk, catalog>>
    BY DEF Settings!WriteFails, Settings!Environment
  <1>3. CASE Head(job.writes).optional
    <2> DEFINE shorter == [job EXCEPT !.writes = Tail(job.writes)]
    <2>1. job' = shorter /\ UNCHANGED configd
      BY <1>3 DEF Settings!WriteFails
    <2>2. /\ Tail(job.writes) \in Seq(WriteOf)
          /\ \A i \in DOMAIN Tail(job.writes) : Supported(Tail(job.writes)[i].file[1])
      BY <1>1, WritesShrink
    <2>3. /\ shorter \in JobType /\ shorter.kind = job.kind
          /\ shorter.writes = Tail(job.writes)
          /\ shorter.state = job.state /\ shorter.next = job.next
          /\ shorter.writable = job.writable
      BY <1>1, <2>2 DEF JobHolds, JobType
    <2> HIDE DEF shorter
    <2> QED
      BY <1>1, <1>2, <2>1, <2>2, <2>3 DEF SettingsInv, DiskType, ProcessHolds,
                                          JobHolds, Supported
  <1>4. CASE /\ ~Head(job.writes).optional
             /\ job.kind \in {"load", "set", "replace", "retire"}
    <2>1. /\ job' = None
          /\ configd' \in {None, configd, [configd EXCEPT !.timer = TRUE]}
      BY <1>4 DEF Settings!WriteFails
    <2>2. ProcessHolds([configd EXCEPT !.timer = TRUE])
      BY <1>1 DEF ProcessHolds, Settings!Process
    <2> QED
      BY <1>1, <1>2, <2>1, <2>2, NothingTaken
  <1>5. CASE /\ ~Head(job.writes).optional
             /\ job.kind \in {"components", "reload"}
    <2>1. /\ job.state \in ValidFile /\ job.next \in ValidFile
          /\ job.kind = "reload" => configd.component \in ValidFile
      BY <1>1, <1>5 DEF JobHolds
    <2>2. Settings!ServedSoFar \in ValidFile
      BY <2>1 DEF Settings!ServedSoFar
    <2>3. \/ Settings!TakeConfiguration(TRUE, FALSE, Settings!ServedSoFar)
          \/ Settings!TakeConfiguration(FALSE, FALSE, None)
          \/ job.kind = "reload" /\ Settings!Reload(FALSE, Settings!ServedSoFar)
          \/ job.kind = "reload" /\ Settings!TakeConfiguration(TRUE, FALSE, configd.component)
      BY <1>5 DEF Settings!WriteFails
    <2> QED
      BY <1>1, <1>2, <2>1, <2>2, <2>3, TakeKeeps, ReloadKeeps
  <1> QED
    BY <1>1, <1>2, <1>3, <1>4, <1>5 DEF JobHolds, JobType, JobKinds

\* What was written is taken over (JobSucceeds).
LEMMA JobSucceedsKeeps ==
    ASSUME SettingsInv, Settings!JobSucceeds
    PROVE  SettingsInv' /\ UNCHANGED disk
  <1>1. /\ job # None /\ JobHolds(job) /\ ProcessHolds(configd) /\ configd # None
    BY DEF Settings!JobSucceeds, SettingsInv
  <1>2. UNCHANGED <<disk, catalog>>
    BY DEF Settings!JobSucceeds, Settings!Environment
  <1>3. CASE job.kind \in {"load", "set", "retire", "replace"}
    <2>1. /\ configd \in Settings!Process /\ configd.shell \in ValidFile
          /\ job.kind \in {"set", "replace"} => job.next \in ValidFile
          /\ Settings!Without(configd.shell) \in ValidFile
          /\ ValidFile \subseteq Settings!File
      BY <1>1, ParsedIs DEF ProcessHolds, JobHolds, ValidFile
    <2> DEFINE served == [configd EXCEPT !.serving = TRUE]
               set == [configd EXCEPT !.shell = job.next]
               dropped == [configd EXCEPT !.retiring = FALSE, !.timer = FALSE,
                                           !.shell = Settings!Without(configd.shell)]
               replaced == [configd EXCEPT !.component = job.next]
    <2>2. /\ job' = None
          /\ \/ configd' = served
             \/ job.kind = "set" /\ configd' = set
             \/ configd' = dropped
             \/ job.kind = "replace" /\ configd' = replaced
      BY <1>3 DEF Settings!JobSucceeds
    <2>3. /\ ProcessHolds(served)
          /\ job.kind = "set" => ProcessHolds(set)
          /\ ProcessHolds(dropped)
          /\ job.kind = "replace" => ProcessHolds(replaced)
      BY <1>1, <2>1 DEF ProcessHolds, Settings!Process
    <2> HIDE DEF served, set, dropped, replaced
    <2> QED
      BY <1>1, <1>2, <2>2, <2>3, NothingTaken
  <1>4. CASE job.kind \in {"components", "reload"}
    <2>1. /\ job.next \in ValidFile /\ job.writable \in BOOLEAN
          /\ job.writable => Supported("component")
          /\ job.kind = "reload" => configd.component \in ValidFile
      BY <1>1, <1>4 DEF JobHolds, JobType
    <2>2. \/ Settings!TakeConfiguration(TRUE, job.writable, job.next)
          \/ Settings!TakeConfiguration(FALSE, FALSE, None)
          \/ job.kind = "reload" /\ Settings!Reload(job.writable, job.next)
          \/ job.kind = "reload" /\ Settings!TakeConfiguration(TRUE, FALSE, configd.component)
      BY <1>4 DEF Settings!JobSucceeds
    <2> QED
      BY <1>1, <1>2, <2>1, <2>2, TakeKeeps, ReloadKeeps
  <1> QED
    BY <1>1, <1>2, <1>3, <1>4 DEF JobHolds, JobType, JobKinds

\* The service starts only from files that it supports (Start).
LEMMA SettingsStartKeeps ==
    ASSUME SettingsInv, Settings!Start
    PROVE  SettingsInv' /\ UNCHANGED disk
  <1> DEFINE active == Settings!Found(<<"shell", "active">>)
             recovery == Settings!Found(<<"shell", "recovery">>)
             chosen == Settings!ShellChoice(active, recovery)
             begun == [serving |-> FALSE, shell |-> Settings!Parsed(chosen),
                       retiring |-> chosen.workspace # "absent",
                       authorized |-> FALSE, timer |-> FALSE,
                       held |-> Settings!Parsed(chosen).workspace,
                       available |-> FALSE, writable |-> FALSE, component |-> None]
             writes == Settings!ShellWrites(active, recovery)
  <1>1. /\ Settings!ShellLoads(active, recovery)
        /\ configd' = begun
        /\ job' = Settings!Job("load", writes, None, None)
        /\ UNCHANGED <<disk, catalog>>
    BY DEF Settings!Start, Settings!Environment
  <1>2. active \in Settings!File /\ recovery \in Settings!File /\ Supported("shell")
    BY <1>1, FoundIs DEF SettingsInv, Settings!ShellLoads, Supported, Settings!Files,
                         Settings!Stores
  <1>3. /\ Settings!Parsed(chosen) \in ValidFile
        /\ Settings!Parsed(chosen).workspace \in {"absent", "present"}
    BY <1>2, ShellChoiceIs, ParsedIs DEF ValidFile
  <1>4. writes \in Seq(WritesTo("shell"))
    BY <1>2, ShellWritesAre
  <1> HIDE DEF active, recovery, chosen, writes
  <1>5. begun \in Settings!Process /\ ProcessHolds(begun)
    BY <1>2, <1>3 DEF ProcessHolds, Settings!Process, ValidFile
  <1>6. begun # None
    BY <1>5, NoneAssumption
  <1> HIDE DEF begun
  <1>7. ProcessHolds(configd)'
    BY <1>1, <1>5 DEF ProcessHolds, Supported
  <1>8. writes \in Seq(WriteOf) /\ \A i \in DOMAIN writes : writes[i].file[1] = "shell"
    BY <1>4 DEF WritesTo
  <1>9. JobHolds(job)'
    BY <1>1, <1>2, <1>8 DEF JobHolds, Settings!Job, JobType, JobKinds, Supported
  <1> QED
    BY <1>1, <1>6, <1>7, <1>9 DEF SettingsInv, DiskType

\* A setter writes to the store that it serves (Set, ReplaceSnapshot).
LEMMA EditKeeps ==
    ASSUME SettingsInv, configd # None,
           NEW kind \in {"set", "replace"}, NEW s \in Settings!Stores, Supported(s),
           NEW current \in ValidFile, NEW value \in {1, 2}, current.revision < MaxRevision,
           NEW next, next = [current EXCEPT !.revision = current.revision + 1, !.value = value],
           job' = Settings!Job(kind, Settings!PersistWrites(s, current, next), current, next),
           UNCHANGED <<disk, catalog, configd>>
    PROVE  SettingsInv'
  <1> DEFINE writes == Settings!PersistWrites(s, current, next)
  <1>1. next \in ValidFile
    <2>1. /\ current \in Settings!File /\ current.status = "valid"
          /\ current.revision + 1 \in 0..MaxRevision
      BY RevisionAssumption DEF ValidFile, Settings!File
    <2> QED
      BY <2>1 DEF ValidFile, Settings!File
  <1>2. writes \in Seq(WritesTo(s))
    BY <1>1, PersistIs
  <1> HIDE DEF writes
  <1>3. writes \in Seq(WriteOf) /\ \A i \in DOMAIN writes : writes[i].file[1] = s
    BY <1>2 DEF WritesTo
  <1>4. job' = Settings!Job(kind, writes, current, next)
    BY DEF writes
  <1>5. /\ job' \in JobType /\ job'.kind = kind /\ job'.writes = writes
        /\ job'.next = next
    BY <1>1, <1>3, <1>4 DEF Settings!Job, JobType, JobKinds
  <1>6. Supported(s)'
    BY DEF Supported
  <1>7. JobHolds(job)'
    BY <1>1, <1>3, <1>5, <1>6 DEF JobHolds
  <1> QED
    BY <1>7 DEF SettingsInv, DiskType, ProcessHolds, Supported

LEMMA SetKeeps ==
    ASSUME SettingsInv, NEW value \in {1, 2}, Settings!Set(value)
    PROVE  SettingsInv' /\ UNCHANGED disk
  <1> DEFINE next == [configd.shell EXCEPT !.revision = configd.shell.revision + 1,
                                           !.value = value]
  <1>1. /\ configd # None /\ configd.shell.revision < MaxRevision
        /\ job' = Settings!Job("set", Settings!PersistWrites("shell", configd.shell, next),
                                configd.shell, next)
        /\ UNCHANGED <<disk, catalog, configd>>
    BY DEF Settings!Set, Settings!Idle, Settings!Environment
  <1>2. configd.shell \in ValidFile /\ Supported("shell") /\ "shell" \in Settings!Stores
    BY <1>1 DEF SettingsInv, ProcessHolds, Settings!Stores
  <1> QED
    BY <1>1, <1>2, EditKeeps

LEMMA ReplaceSnapshotKeeps ==
    ASSUME SettingsInv, NEW value \in {1, 2}, Settings!ReplaceSnapshot(value)
    PROVE  SettingsInv' /\ UNCHANGED disk
  <1> DEFINE next == [configd.component EXCEPT !.revision = configd.component.revision + 1,
                                               !.value = value]
  <1>1. /\ configd # None /\ configd.component.revision < MaxRevision
        /\ configd.available /\ configd.writable
        /\ job' = Settings!Job("replace",
                                Settings!PersistWrites("component", configd.component, next),
                      configd.component, next)
        /\ UNCHANGED <<disk, catalog, configd>>
    BY DEF Settings!ReplaceSnapshot, Settings!Idle, Settings!Environment
  <1>2. /\ configd.component \in ValidFile /\ Supported("component")
        /\ "component" \in Settings!Stores
    BY <1>1 DEF SettingsInv, ProcessHolds, Settings!Stores
  <1> QED
    BY <1>1, <1>2, EditKeeps

\* A retirement that failed is tried again (RetireTimer).
LEMMA RetireTimerKeeps ==
    ASSUME SettingsInv, Settings!RetireTimer
    PROVE  SettingsInv' /\ UNCHANGED disk
  <1> DEFINE stopped == [configd EXCEPT !.timer = FALSE]
  <1>1. /\ configd # None
        /\ configd' = stopped /\ job' = Settings!RetireJob(configd)
        /\ UNCHANGED <<disk, catalog>>
    BY DEF Settings!RetireTimer, Settings!Idle, Settings!Environment
  <1>2. ProcessHolds(configd)
    BY <1>1 DEF SettingsInv
  <1>3. stopped \in Settings!Process /\ ProcessHolds(stopped)
    BY <1>2 DEF ProcessHolds, Settings!Process
  <1>4. stopped # None
    BY <1>3, NoneAssumption
  <1> HIDE DEF stopped
  <1>5. ProcessHolds(configd)'
    BY <1>1, <1>3 DEF ProcessHolds, Supported
  <1>6. JobHolds(job)'
    BY <1>1, <1>2, RetireJobIs DEF ProcessHolds, JobHolds, Supported
  <1> QED
    BY <1>1, <1>4, <1>5, <1>6 DEF SettingsInv, DiskType

\* A catalog loads the component configuration, or migrates the one that is
\* served: either is written only where both files are supported (ApplyCatalog).
LEMMA ApplyCatalogKeeps ==
    ASSUME SettingsInv, NEW release \in {"old", "new"}, Settings!ApplyCatalog(release)
    PROVE  SettingsInv' /\ UNCHANGED disk
  <1> DEFINE active == Settings!Found(<<"component", "active">>)
             recovery == Settings!Found(<<"component", "recovery">>)
             first == Settings!ComponentLoad(release, active, recovery, configd.held)
             again == Settings!ComponentLoad(release, active, recovery, "absent")
             served == [available |-> TRUE, writable |-> TRUE, state |-> configd.component,
                        writes |-> IF Settings!Migrates(release, configd.component)
                                   THEN Settings!Both("component", Settings!Migrated(configd.component))
                                   ELSE <<>>]
  <1>1. /\ configd # None /\ catalog' = release
        /\ UNCHANGED <<disk, configd>>
        /\ \/ job' = Settings!LoadJob("components", first)
           \/ configd.component # None /\ job' = Settings!LoadJob("reload", again)
           \/ /\ configd.component # None /\ configd.writable
              /\ job' = Settings!LoadJob("components", served)
    BY DEF Settings!ApplyCatalog, Settings!Idle
  <1>2. /\ configd \in Settings!Process /\ ProcessHolds(configd)
        /\ configd.held \in {"absent", "present"}
    BY <1>1 DEF SettingsInv, ProcessHolds, Settings!Process
  <1>3. /\ active \in Settings!File /\ recovery \in Settings!File
        /\ ~Settings!Untouchable(active) /\ ~Settings!Untouchable(recovery) =>
                  Supported("component")
    BY FoundIs DEF SettingsInv, Supported, Settings!Files, Settings!Stores
  <1> DEFINE Plan(plan) ==
                 /\ plan.available \in BOOLEAN /\ plan.writable \in BOOLEAN
                 /\ plan.state \in ValidFile
                 /\ plan.writes \in Seq(WritesTo("component"))
                 /\ plan.writable \/ plan.writes # <<>> => Supported("component")
  <1>4. Plan(first) /\ Plan(again)
    BY <1>2, <1>3, ComponentLoadIs
  <1>5. configd.component # None /\ configd.writable => Plan(served)
    <2> SUFFICES ASSUME configd.component # None, configd.writable
                 PROVE  Plan(served)
      OBVIOUS
    <2>1. configd.component \in ValidFile /\ Supported("component")
      BY <1>2 DEF ProcessHolds
    <2>2. served.writes \in Seq(WritesTo("component"))
      <3>1. Settings!Migrates(release, configd.component) =>
                Settings!Both("component", Settings!Migrated(configd.component)) \in Seq(WritesTo("component"))
        BY <2>1, MigratedIs, BothIs DEF Settings!Stores
      <3>2. <<>> \in Seq(WritesTo("component"))
        OBVIOUS
      <3> QED
        BY <3>1, <3>2
    <2> QED
      BY <2>1, <2>2
  <1> HIDE DEF first, again, served
  <1>6. PICK kind \in {"components", "reload"}, plan \in {first, again, served} :
            /\ job' = Settings!LoadJob(kind, plan) /\ Plan(plan)
            /\ kind = "reload" => configd.component # None
    BY <1>1, <1>4, <1>5
  <1>7. /\ job' \in JobType /\ job'.kind = kind /\ job'.writes = plan.writes
        /\ job'.writable = plan.writable
        /\ job'.state \in ValidFile /\ job'.next \in ValidFile
        /\ \A i \in DOMAIN job'.writes : job'.writes[i].file[1] = "component"
    BY <1>6, LoadJobIs
  <1>8. plan.writable \/ plan.writes # <<>> => Supported("component")'
    BY <1>1, <1>6 DEF Supported
  <1>9. plan.writes = <<>> => DOMAIN job'.writes = {}
    BY <1>7
  <1>10. JobHolds(job)'
    BY <1>1, <1>2, <1>6, <1>7, <1>8, <1>9 DEF JobHolds, ProcessHolds
  <1> QED
    BY <1>1, <1>2, <1>10 DEF SettingsInv, DiskType, ProcessHolds, Supported

\* Every step of the stores keeps the invariant and the files of a later release.
LEMMA SettingsStepKeeps ==
    ASSUME SettingsInv, Settings!Next
    PROVE  /\ SettingsInv'
           /\ \A file \in Settings!Files : disk[file].status = "future" =>
                     disk'[file] = disk[file]
  <1>1. CASE Settings!Start
    BY <1>1, SettingsStartKeeps
  <1>2. CASE Settings!WriteSucceeds
    BY <1>2, WriteSucceedsKeeps
  <1>3. CASE Settings!WriteFails
    BY <1>3, WriteFailsKeeps
  <1>4. CASE Settings!JobSucceeds
    BY <1>4, JobSucceedsKeeps
  <1>5. ASSUME NEW value \in {1, 2}, Settings!Set(value) \/ Settings!ReplaceSnapshot(value)
        PROVE  SettingsInv' /\ UNCHANGED disk
    BY <1>5, SetKeeps, ReplaceSnapshotKeeps
  <1>6. CASE Settings!RetireTimer
    BY <1>6, RetireTimerKeeps
  <1>7. ASSUME NEW release \in {"old", "new"}, Settings!ApplyCatalog(release)
        PROVE  SettingsInv' /\ UNCHANGED disk
    BY <1>7, ApplyCatalogKeeps
  <1>8. CASE Settings!Crash
    BY <1>8 DEF Settings!Crash, Settings!Environment, SettingsInv, DiskType
  <1>9. ASSUME NEW file \in Settings!Files, Settings!Outage(file)
        PROVE  SettingsInv' /\ UNCHANGED disk
    BY <1>9 DEF Settings!Outage, SettingsInv, DiskType, ProcessHolds, JobHolds,
                Supported
  <1> QED
    BY <1>1, <1>2, <1>3, <1>4, <1>5, <1>6, <1>7, <1>8, <1>9 DEF Settings!Next

LEMMA InitSettings ==
    ASSUME Settings!Init
    PROVE  SettingsInv
  <1>1. PICK shell \in Settings!Copies(Settings!ShellFiles),
             component \in Settings!Copies(Settings!ComponentFiles) :
            disk = [file \in Settings!Files |->
                LET pair == IF file[1] = "shell" THEN shell ELSE component
                IN IF file[2] = "active" THEN pair[1] ELSE pair[2]]
    BY DEF Settings!Init
  <1>2. /\ Settings!ShellFiles \subseteq Settings!File
        /\ Settings!ComponentFiles \subseteq Settings!File
    <2>1. Settings!Lost \subseteq Settings!File
      BY BlankIs DEF Settings!Lost
    <2>2. ASSUME NEW form \in {"old", "new"}, NEW workspace \in {"absent", "broken", "present"}
          PROVE  Settings!Valid(form, workspace) \in Settings!File
      <3>1. Settings!Blank("valid") \in Settings!File
        BY BlankIs
      <3>2. 1 \in 0..MaxRevision
        BY RevisionAssumption
      <3> QED
        BY <3>1, <3>2 DEF Settings!Valid, Settings!File
    <2> QED
      BY <2>1, <2>2 DEF Settings!ShellFiles, Settings!ComponentFiles
  <1>3. /\ shell[1] \in Settings!File /\ shell[2] \in Settings!File
        /\ component[1] \in Settings!File /\ component[2] \in Settings!File
    BY <1>2 DEF Settings!Copies
  <1>4. DiskType
    BY <1>1, <1>3 DEF DiskType
  <1> QED
    BY <1>4 DEF Settings!Init, SettingsInv

\* A file that a later release wrote is left as it is by both stores, by every
\* sequence of handlers, failed writes, crashes and outages (ConfigStore::load,
\* ComponentStore::load, persist, retireLegacyWorkspace).
THEOREM FutureFilesAlwaysKept == Spec => FutureFilesKept
  <1>1. Init => SettingsInv
    BY InitSettings DEF Init
  <1>2. ASSUME SettingsInv, [Next]_vars
        PROVE  /\ SettingsInv'
               /\ [\A file \in Settings!Files : disk[file].status = "future"
                         => disk'[file] = disk[file]]_(Settings!vars)
    <2> USE DEF Settings!vars
    <2>1. CASE OnlySettings /\ Settings!Next
      BY <1>2, <2>1, SettingsStepKeeps
    <2>2. CASE UNCHANGED settings
      BY <1>2, <2>2 DEF settings, SettingsInv, DiskType, ProcessHolds, JobHolds,
                        Supported
    <2>3. CASE \/ OnlyActivation \/ OnlyVisual \/ OnlyCaptures \/ OnlyGenerations
               \/ OnlyPackageStore \/ OnlyReloads \/ OnlyDocument \/ UNCHANGED vars
      <3>1. UNCHANGED settings
        BY <2>3 DEF OnlyActivation, OnlyVisual, OnlyCaptures, OnlyGenerations,
                    OnlyPackageStore, OnlyReloads, OnlyDocument, vars, parts
      <3> QED
        BY <2>2, <3>1
    <2> QED
      BY <1>2, <2>1, <2>3 DEF Next
  <1> QED
    BY <1>1, <1>2, PTL DEF Spec, FutureFilesKept, Settings!FutureFilesKept

-----------------------------------------------------------------------------
(* The entrypoint: where the user's files are *)

\* The files that anybody made so far; no file at all counts as ours.
Ours == {Activation!Loader(t) : t \in 1..tokens} \cup {Missing}
Written == {Activation!UserFile(e) : e \in 0..edits}
KnownFile == Ours \cup Written

OwnershipKnown == [generation: Nat, original: KnownFile]
BridgeKnown ==
    [phase: {"Staging", "Ready"}, token: Nat, before: KnownFile,
     beforeOwnership: OwnershipKnown \cup {Missing}]
DirectoriesKnown ==
    [stable: KnownFile, original: KnownFile, transition: KnownFile,
     ownership: OwnershipKnown \cup {Missing}, bridge: BridgeKnown \cup {Missing}]

\* A bridge leads from another file than the one it leads to, and from a loader
\* when that was managed.
BridgeHolds(b) ==
    /\ b.before # Activation!Loader(b.token)
    /\ b.before # Missing
    /\ b.beforeOwnership # Missing => b.before \in Ours

\* Without a bridge there is nothing of the user's but the entrypoint and what
\* an adoption has displaced; and during an adoption not under another name.
ShapeHolds(s) ==
    /\ s.stable # Missing
    /\ s.bridge = Missing =>
           /\ s.transition \in Ours
           /\ s.ownership = Missing => s.original \in Ours
    /\ s.bridge # Missing =>
           /\ BridgeHolds(s.bridge)
           /\ IF s.bridge.beforeOwnership = Missing THEN s.transition \in Ours
              ELSE s.ownership # Missing

FilesKept(s) == owned \subseteq {s.stable, s.original, s.transition}

DirectoriesHold ==
    \A s \in survivors : s \in DirectoriesKnown /\ ShapeHolds(s) /\ FilesKept(s)

\* The name that neither side of the bridge is exchanged with.
OtherName == IF Activation!swap = "original" THEN "transition" ELSE "original"

Synced(names) == \A s \in survivors : \A f \in names : s[f] = ns[f]
SwapIsOurs == \A s \in survivors : s[Activation!swap] \in Ours
SameSwap ==
    \A s \in survivors :
        s.bridge # Missing /\ s.bridge.beforeOwnership = Activation!bridge.beforeOwnership

\* A step that relies on a name of the managed directory has synced it.
Settled ==
    {"ready", "prepared", "publishing", "aborting", "staging", "staged", "probing",
     "exchanging", "reloading", "proving", "committing", "finalizing", "displaced",
     "retiring", "reconciling"}
SettledHolds == process \in Settled => Synced(Activation!ManagedDirectory)

Exchanges == {"verifying", "restoring", "syncing", "switching", "switched"}
Reverts == {"rollback", "reloadingPrior", "provingPrior", "discarding", "retiringPrior"}
Forward == {"staging", "staged", "probing", "exchanging"}
After == {"reloading", "proving", "committing"}
Last == {"finalizing", "displaced", "retiring"}

BridgedHolds ==
    process \in Exchanges \cup Reverts \cup Forward \cup After \cup Last =>
           Activation!bridge # Missing

\* The candidate is a new loader, staged where nothing of the user's is.
CandidateHolds ==
    /\ process \in {"prepared", "publishing"} =>
           Activation!target \in 1..tokens /\ ns.stable # Activation!Loader(Activation!target)
    /\ process = "staging" =>
           /\ Activation!target \in 1..tokens /\ Activation!bridge.token = Activation!target
           /\ ns[Activation!swap] \in Ours
    /\ process \in {"staged", "probing", "exchanging"} =>
           /\ Activation!bridge.token \in 1..tokens
           /\ ns[Activation!swap] = Activation!Loader(Activation!bridge.token)

\* From the exchange on, the entrypoint is not what it was before.
ExchangeHolds ==
    /\ process \in {"verifying", "restoring", "syncing"} \cup After =>
              ns.stable # Activation!bridge.before
    /\ process \in {"verifying", "restoring", "switching"} =>
              ns[Activation!swap] # Missing
    /\ process = "restoring" => ns[Activation!swap] # Activation!bridge.before

\* What survives differs in the exchanged name and in the bridge only.
OthersSynced ==
    /\ process \in Exchanges \cup Reverts => Synced({OtherName, "ownership"})
    /\ process \in Exchanges => SameSwap
    /\ process = "rollback" /\ Activation!bridge.phase = "Ready" => SameSwap

\* An entrypoint that is back where it was, with the candidate staged, is so in
\* all that survives.
CandidateRemovable ==
    /\ process \in Reverts \ {"retiringPrior"} =>
           (ns.stable = Activation!bridge.before /\ ns[Activation!swap] \in Ours =>
                  SwapIsOurs)
    /\ process = "retiringPrior" =>
              SwapIsOurs /\ ns.ownership = Activation!bridge.beforeOwnership

\* What a managed entrypoint displaced is a loader.
DisplacedHolds ==
    /\ process \in {"displaced", "retiring"} => ns.ownership # Missing
    /\ process = "displaced" /\ Activation!bridge.beforeOwnership # Missing =>
              ns.transition \in Ours
    /\ process = "retiring" => ns.transition \in Ours

CountersHold ==
    /\ ns \in survivors
    /\ tokens \in Nat /\ edits \in Nat
    /\ owned \subseteq Written

StepsHold ==
    /\ SettledHolds
    /\ BridgedHolds
    /\ CandidateHolds
    /\ ExchangeHolds
    /\ OthersSynced
    /\ CandidateRemovable
    /\ DisplacedHolds

FilesHold == CountersHold /\ DirectoriesHold /\ StepsHold
FilesInv == owned # {} => FilesHold

-----------------------------------------------------------------------------
(* Files and names *)

Names == {"stable", "original", "transition", "ownership", "bridge"}

LEMMA FilesAre ==
    ASSUME tokens \in Nat, edits \in Nat
    PROVE  /\ KnownFile \subseteq EntrypointFile \cup {Missing}
           /\ Missing \in Ours /\ Missing \in KnownFile
           /\ \A t \in 1..tokens :
                     Activation!Loader(t) \in Ours /\ Activation!Loader(t) \in KnownFile
           /\ Ours \cap Written = {}
           /\ OwnershipKnown \subseteq EntrypointOwnership
           /\ BridgeKnown \subseteq EntrypointBridge
  <1>1. \A t \in 1..tokens : Activation!Loader(t) \in EntrypointFile
    BY DEF Activation!Loader, EntrypointFile
  <1>2. \A e \in 0..edits : Activation!UserFile(e) \in EntrypointFile
    BY DEF Activation!UserFile, EntrypointFile
  <1>3. KnownFile \subseteq EntrypointFile \cup {Missing}
    BY <1>1, <1>2 DEF KnownFile, Ours, Written
  <1>4. \A t \in 1..tokens :
               Activation!Loader(t) \in Ours /\ Activation!Loader(t) \in KnownFile
    BY DEF KnownFile, Ours
  <1>5. Missing \in Ours /\ Missing \in KnownFile
    BY DEF KnownFile, Ours
  <1>6. Missing \notin Written
    BY <1>2, FileAssumption DEF Written
  <1>7. \A t, e : Activation!Loader(t) # Activation!UserFile(e)
    BY DEF Activation!Loader, Activation!UserFile
  <1>8. Ours \cap Written = {}
    BY <1>6, <1>7 DEF Ours, Written
  <1>9. OwnershipKnown \subseteq EntrypointOwnership
    BY <1>3 DEF OwnershipKnown, EntrypointOwnership
  <1>10. BridgeKnown \subseteq EntrypointBridge
    BY <1>3, <1>9 DEF BridgeKnown, EntrypointBridge
  <1> QED
    BY <1>3, <1>4, <1>5, <1>8, <1>9, <1>10

LEMMA PutIs ==
    ASSUME NEW s \in DirectoriesKnown, NEW changes
    PROVE  /\ DOMAIN Activation!Put(s, changes) = Names
           /\ \A f \in Names :
                  Activation!Put(s, changes)[f] = IF f \in DOMAIN changes THEN changes[f] ELSE s[f]
           /\ Activation!Put(s, changes) = [f \in Names |-> Activation!Put(s, changes)[f]]
  BY DEF Activation!Put, DirectoriesKnown, Names

LEMMA KnownByName ==
    ASSUME NEW p, p = [f \in Names |-> p[f]],
           p["stable"] \in KnownFile, p["original"] \in KnownFile, p["transition"] \in KnownFile,
           p["ownership"] \in OwnershipKnown \cup {Missing},
           p["bridge"] \in BridgeKnown \cup {Missing}
    PROVE  p \in DirectoriesKnown
  BY DEF DirectoriesKnown, Names

LEMMA PutBridge ==
    ASSUME NEW s \in DirectoriesKnown, NEW b \in BridgeKnown \cup {Missing},
           NEW p, p = Activation!Put(s, [bridge |-> b])
    PROVE  /\ p \in DirectoriesKnown
           /\ p.stable = s.stable /\ p.original = s.original
           /\ p.transition = s.transition
           /\ p.ownership = s.ownership /\ p.bridge = b
  BY PutIs, KnownByName DEF DirectoriesKnown, Names

LEMMA PutOwnership ==
    ASSUME NEW s \in DirectoriesKnown, NEW o \in OwnershipKnown \cup {Missing},
           NEW p, p = Activation!Put(s, [ownership |-> o])
    PROVE  /\ p \in DirectoriesKnown
           /\ p.stable = s.stable /\ p.original = s.original
           /\ p.transition = s.transition
           /\ p.ownership = o /\ p.bridge = s.bridge
  BY PutIs, KnownByName DEF DirectoriesKnown, Names

LEMMA PutName ==
    ASSUME NEW s \in DirectoriesKnown, NEW name \in {"original", "transition"},
           NEW file \in KnownFile, NEW changes, DOMAIN changes = {name}, changes[name] = file,
           NEW p, p = Activation!Put(s, changes)
    PROVE  /\ p \in DirectoriesKnown
           /\ p.stable = s.stable /\ p.ownership = s.ownership /\ p.bridge = s.bridge
           /\ p[name] = file
           /\ \A other \in {"original", "transition"} \ {name} : p[other] = s[other]
  BY PutIs, KnownByName DEF DirectoriesKnown, Names

LEMMA PutExchanged ==
    ASSUME NEW s \in DirectoriesKnown, ns \in DirectoriesKnown,
           NEW name \in {"original", "transition"},
           NEW p, p = Activation!Put(s, Activation!Exchanged(name))
    PROVE  /\ p \in DirectoriesKnown
           /\ p.stable = ns[name] /\ p.ownership = s.ownership /\ p.bridge = s.bridge
           /\ p[name] = ns.stable
           /\ \A other \in {"original", "transition"} \ {name} : p[other] = s[other]
  <1>1. ns[name] \in KnownFile /\ ns.stable \in KnownFile
    BY DEF DirectoriesKnown
  <1> QED
    BY <1>1, PutIs, KnownByName DEF DirectoriesKnown, Names, Activation!Exchanged

LEMMA SwapIs ==
    /\ Activation!swap \in {"original", "transition"}
    /\ OtherName \in {"original", "transition"}
    /\ Activation!swap # OtherName
    /\ Activation!bridge.beforeOwnership = Missing <=> Activation!swap = "original"
  BY DEF Activation!swap, Activation!SwapName, Activation!bridge, OtherName

LEMMA PutSwap ==
    ASSUME NEW s \in DirectoriesKnown, NEW file \in KnownFile,
           NEW changes, DOMAIN changes = {Activation!swap}, changes[Activation!swap] = file,
           NEW p, p = Activation!Put(s, changes)
    PROVE  /\ p \in DirectoriesKnown
           /\ p.stable = s.stable /\ p.ownership = s.ownership /\ p.bridge = s.bridge
           /\ p[Activation!swap] = file /\ p[OtherName] = s[OtherName]
  <1> DEFINE name == Activation!swap
             other == OtherName
  <1>1. /\ name \in {"original", "transition"}
        /\ other \in {"original", "transition"} \ {name}
    BY SwapIs
  <1>2. DOMAIN changes = {name} /\ changes[name] = file
    OBVIOUS
  <1>3. name = Activation!swap /\ other = OtherName
    OBVIOUS
  <1> HIDE DEF name, other
  <1>4. /\ p \in DirectoriesKnown
        /\ p.stable = s.stable /\ p.ownership = s.ownership /\ p.bridge = s.bridge
        /\ p[name] = file /\ p[other] = s[other]
    BY <1>1, <1>2, PutName
  <1> QED
    BY <1>3, <1>4

LEMMA PutSwapped ==
    ASSUME NEW s \in DirectoriesKnown, ns \in DirectoriesKnown,
           NEW p, p = Activation!Put(s, Activation!Exchanged(Activation!swap))
    PROVE  /\ p \in DirectoriesKnown
           /\ p.stable = ns[Activation!swap] /\ p.ownership = s.ownership
           /\ p.bridge = s.bridge
           /\ p[Activation!swap] = ns.stable /\ p[OtherName] = s[OtherName]
  <1> DEFINE name == Activation!swap
             other == OtherName
  <1>1. /\ name \in {"original", "transition"}
        /\ other \in {"original", "transition"} \ {name}
    BY SwapIs
  <1>2. p = Activation!Put(s, Activation!Exchanged(name))
    OBVIOUS
  <1>3. name = Activation!swap /\ other = OtherName
    OBVIOUS
  <1> HIDE DEF name, other
  <1>4. /\ p \in DirectoriesKnown
        /\ p.stable = ns[name] /\ p.ownership = s.ownership /\ p.bridge = s.bridge
        /\ p[name] = ns.stable /\ p[other] = s[other]
    BY <1>1, <1>2, PutExchanged
  <1> QED
    BY <1>3, <1>4

-----------------------------------------------------------------------------
(* What an operation on the directories leaves *)

LEMMA WriteLeaves ==
    ASSUME ns \in survivors, NEW changes, NEW outcome \in Activation!Outcome,
           Activation!Write(changes, outcome)
    PROVE  /\ ns' \in survivors'
           /\ ns' = IF outcome = "notPublished" THEN ns ELSE Activation!Put(ns, changes)
           /\ outcome = "notPublished" => survivors' = survivors
           /\ \A p \in survivors' : p \in survivors \/ \E s \in survivors :
                     p = Activation!Put(s, changes)
           /\ outcome = "success" =>
                  \A p \in survivors' : \A f \in Activation!ManagedDirectory :
                         p[f] = ns'[f]
  BY DEF Activation!Write, Activation!Change, Activation!Agreeing, Activation!Outcome,
         Activation!namespace

LEMMA DirectoriesKeep ==
    ASSUME DirectoriesHold, UNCHANGED <<tokens, edits, owned>>,
           \A p \in survivors' :
               p \in survivors \/ (p \in DirectoriesKnown /\ ShapeHolds(p) /\ FilesKept(p))
    PROVE  DirectoriesHold'
  <1> SUFFICES ASSUME NEW p \in survivors'
               PROVE  p \in DirectoriesKnown' /\ ShapeHolds(p)' /\ FilesKept(p)'
    BY DEF DirectoriesHold
  <1>1. p \in DirectoriesKnown /\ ShapeHolds(p) /\ FilesKept(p)
    BY DEF DirectoriesHold
  <1>2. /\ Ours' = Ours /\ KnownFile' = KnownFile
        /\ DirectoriesKnown' = DirectoriesKnown
    BY DEF Ours, KnownFile, Written, DirectoriesKnown, BridgeKnown, OwnershipKnown
  <1>3. ShapeHolds(p)' <=> ShapeHolds(p)
    BY <1>2 DEF ShapeHolds, BridgeHolds
  <1>4. FilesKept(p)' <=> FilesKept(p)
    BY DEF FilesKept
  <1> QED
    BY <1>1, <1>2, <1>3, <1>4

\* A step that changes neither directory changes nothing that is said of them.
LEMMA Untouched ==
    ASSUME FilesHold, UNCHANGED <<ns, survivors, tokens, edits, owned>>
    PROVE  /\ CountersHold' /\ DirectoriesHold'
           /\ Ours' = Ours
           /\ Activation!bridge' = Activation!bridge /\ Activation!swap' = Activation!swap
           /\ OtherName' = OtherName
           /\ \A names : Synced(names)' <=> Synced(names)
           /\ SwapIsOurs' <=> SwapIsOurs
           /\ SameSwap' <=> SameSwap
  <1>1. CountersHold'
    BY DEF FilesHold, CountersHold, Written
  <1>2. DirectoriesHold'
    BY DirectoriesKeep DEF FilesHold
  <1>3. /\ Ours' = Ours
        /\ Activation!bridge' = Activation!bridge /\ Activation!swap' = Activation!swap
        /\ OtherName' = OtherName
    BY DEF Ours, Activation!bridge, Activation!swap, Activation!SwapName, OtherName
  <1>4. /\ \A names : Synced(names)' <=> Synced(names)
        /\ SwapIsOurs' <=> SwapIsOurs
        /\ SameSwap' <=> SameSwap
    BY <1>3 DEF Synced, SwapIsOurs, SameSwap
  <1> QED
    BY <1>1, <1>2, <1>3, <1>4

\* Nothing is claimed of a service that is down or has given up.
LEMMA StoppedHolds ==
    ASSUME process' \in {"down", "unreconciled"}
    PROVE  StepsHold'
  BY DEF StepsHold, SettledHolds, Settled, BridgedHolds, Exchanges, Reverts, Forward,
         After, Last, CandidateHolds, ExchangeHolds, OthersSynced, CandidateRemovable,
         DisplacedHolds

\* All managed names are the same in what survives: so is the exchanged one.
LEMMA SyncedIs ==
    ASSUME Synced(Activation!ManagedDirectory), Activation!bridge # Missing
    PROVE  /\ Synced({OtherName, "ownership"})
           /\ SameSwap
           /\ ns[Activation!swap] \in Ours => SwapIsOurs
  BY SwapIs DEF Synced, Activation!ManagedDirectory, SameSwap, SwapIsOurs,
                Activation!bridge

-----------------------------------------------------------------------------
(* Steps that only look *)

LEMMA PrepareKeeps ==
    ASSUME FilesHold, Activation!Prepare
    PROVE  FilesHold'
  <1>1. /\ process = "ready" /\ process' = "prepared"
        /\ UNCHANGED <<ns, survivors, edits, owned>>
        /\ tokens' = tokens + 1 /\ Activation!target' = tokens + 1
    BY DEF Activation!Prepare, Activation!Goto, Activation!namespace,
           Activation!environment, Activation!target
  <1>2. tokens \in Nat /\ edits \in Nat /\ ns \in survivors
    BY DEF FilesHold, CountersHold
  <1>3. /\ Ours \subseteq Ours' /\ KnownFile \subseteq KnownFile'
        /\ DirectoriesKnown \subseteq DirectoriesKnown'
    <2>1. Ours \subseteq Ours'
      BY <1>1, <1>2 DEF Ours
    <2>2. KnownFile \subseteq KnownFile'
      BY <1>1, <2>1 DEF KnownFile, Written
    <2>3. OwnershipKnown \subseteq OwnershipKnown'
      BY <2>2 DEF OwnershipKnown
    <2>4. BridgeKnown \subseteq BridgeKnown'
      BY <2>2, <2>3 DEF BridgeKnown
    <2> QED
      BY <2>1, <2>2, <2>3, <2>4 DEF DirectoriesKnown
  <1>4. CountersHold'
    BY <1>1, <1>2 DEF FilesHold, CountersHold, Written
  <1>5. DirectoriesHold'
    BY <1>1, <1>3 DEF FilesHold, DirectoriesHold, ShapeHolds, BridgeHolds, FilesKept
  <1>6. ns.stable # Activation!Loader(tokens + 1)
    <2>1. ns.stable \in KnownFile /\ tokens + 1 \notin 1..tokens
      BY <1>2 DEF FilesHold, DirectoriesHold, DirectoriesKnown
    <2> QED
      BY <2>1, <1>2, FileAssumption DEF KnownFile, Ours, Written, Activation!Loader,
                                        Activation!UserFile, EntrypointFile
  <1>7. Synced(Activation!ManagedDirectory)'
    BY <1>1 DEF FilesHold, StepsHold, SettledHolds, Settled, Synced
  <1>8. StepsHold'
    BY <1>1, <1>2, <1>6, <1>7
       DEF StepsHold, SettledHolds, Settled, BridgedHolds, Exchanges, Reverts, Forward,
           After, Last, CandidateHolds, ExchangeHolds, OthersSynced, CandidateRemovable,
           DisplacedHolds
  <1> QED
    BY <1>4, <1>5, <1>8 DEF FilesHold

LEMMA LooksKeep ==
    ASSUME FilesHold,
           \/ Activation!Activate \/ Activation!PublishRefused
           \/ Activation!ProbeEntrypoint \/ Activation!VerifyExchange
           \/ Activation!ReloadTarget \/ Activation!ProveTarget \/ Activation!CommitApply
    PROVE  FilesHold'
  <1>1. /\ UNCHANGED <<ns, survivors, tokens, edits, owned>>
        /\ process' \in {"rollback", "restoring", "syncing", "unreconciled"} =>
                  UNCHANGED Activation!bridge
    BY DEF Activation!Activate, Activation!PublishRefused, Activation!ProbeEntrypoint,
           Activation!VerifyExchange, Activation!ReloadTarget, Activation!ProveTarget,
           Activation!CommitApply, Activation!namespace, Activation!environment,
           Activation!bridge
  <1>2. StepsHold'
    <2> USE DEF FilesHold, StepsHold, SettledHolds, Settled, BridgedHolds, Exchanges,
                Reverts, Forward, After, Last, CandidateHolds, ExchangeHolds,
                OthersSynced, CandidateRemovable, DisplacedHolds, Activation!Goto,
                Activation!Unreconciled
    <2>1. CASE Activation!Activate
      BY <1>1, <2>1, Untouched DEF Activation!Activate, Activation!target
    <2>2. CASE Activation!PublishRefused
      BY <1>1, <2>2, Untouched DEF Activation!PublishRefused
    <2>3. CASE Activation!ProbeEntrypoint
      BY <1>1, <2>3, Untouched, SyncedIs, SwapIs DEF Activation!ProbeEntrypoint
    <2>4. CASE Activation!VerifyExchange
      BY <1>1, <2>4, Untouched DEF Activation!VerifyExchange
    <2>5. CASE Activation!ReloadTarget
      BY <1>1, <2>5, Untouched, SyncedIs DEF Activation!ReloadTarget
    <2>6. CASE Activation!ProveTarget
      BY <1>1, <2>6, Untouched, SyncedIs DEF Activation!ProveTarget
    <2>7. CASE Activation!CommitApply
      BY <1>1, <2>7, Untouched, SyncedIs DEF Activation!CommitApply
    <2> QED
      BY <2>1, <2>2, <2>3, <2>4, <2>5, <2>6, <2>7
  <1> QED
    BY <1>1, <1>2, Untouched DEF FilesHold

LEMMA RollbackLooksKeep ==
    ASSUME FilesHold,
           \/ Activation!TargetRefused \/ Activation!BeginRollback
           \/ Activation!ReloadPrior \/ Activation!ProvePrior \/ Activation!AbortApply
           \/ Activation!ReconcileStartup \/ Activation!Crash \/ Activation!HyprlandLoads
    PROVE  FilesHold'
  <1>1. UNCHANGED <<ns, survivors, tokens, edits, owned>>
    BY DEF Activation!TargetRefused, Activation!BeginRollback, Activation!ReloadPrior,
           Activation!ProvePrior, Activation!AbortApply, Activation!ReconcileStartup,
           Activation!Crash, Activation!HyprlandLoads, Activation!namespace,
           Activation!environment, Activation!Goto, Activation!Unreconciled,
           Activation!FinalizationFails, Activation!Stop
  <1>2. StepsHold'
    <2> USE DEF FilesHold, StepsHold, SettledHolds, Settled, BridgedHolds, Exchanges,
                Reverts, Forward, After, Last, CandidateHolds, ExchangeHolds,
                OthersSynced, CandidateRemovable, DisplacedHolds, Activation!Goto,
                Activation!Unreconciled
    <2>1. CASE Activation!TargetRefused \/ Activation!Crash
      BY <2>1, StoppedHolds DEF Activation!TargetRefused, Activation!Crash,
                                Activation!Stop, Activation!FinalizationFails
    <2>2. CASE Activation!BeginRollback
      <3>1. CASE process' = "unreconciled"
        BY <3>1, StoppedHolds
      <3>2. CASE process' # "unreconciled"
        <4>1. /\ process = "rollback" /\ Activation!RollbackPossible(ns)
              /\ process' = IF Activation!ExactBefore(ns) THEN "reloadingPrior" ELSE "switching"
          BY <2>2, <3>2 DEF Activation!BeginRollback
        <4>2. CASE Activation!ExactBefore(ns)
          BY <1>1, <4>1, <4>2, Untouched
        <4>3. CASE ~Activation!ExactBefore(ns)
          <5>1. /\ Activation!bridge.phase = "Ready" /\ Activation!bridge # Missing
                /\ BridgeHolds(Activation!bridge)
            BY <2>2, <4>1, <4>3 DEF Activation!RollbackPossible,
                                    Activation!ExactTarget, Activation!bridge,
                                    DirectoriesHold,
                 ShapeHolds, CountersHold
          <5>2. ns[Activation!swap] = Activation!bridge.before
            BY <4>1, <4>3, <5>1 DEF Activation!RollbackPossible, Activation!bridge,
                                    Activation!swap, BridgeHolds
          <5> QED
            BY <1>1, <4>1, <4>3, <5>1, <5>2, Untouched DEF BridgeHolds
        <4> QED
          BY <4>2, <4>3
      <3> QED
        BY <3>1, <3>2
    <2>3. CASE Activation!ReloadPrior
      BY <1>1, <2>3, Untouched DEF Activation!ReloadPrior
    <2>4. CASE Activation!ProvePrior
      BY <1>1, <2>4, Untouched DEF Activation!ProvePrior
    <2>5. CASE Activation!AbortApply
      BY <1>1, <2>5, Untouched DEF Activation!AbortApply
    <2>6. CASE Activation!ReconcileStartup
      BY <1>1, <2>6, Untouched, SyncedIs DEF Activation!ReconcileStartup
    <2>7. CASE Activation!HyprlandLoads
      BY <1>1, <2>7, Untouched DEF Activation!HyprlandLoads, Activation!memory,
                                   Activation!target
    <2> QED
      BY <2>1, <2>2, <2>3, <2>4, <2>5, <2>6, <2>7
  <1> QED
    BY <1>1, <1>2, Untouched DEF FilesHold

\* What a power loss leaves is one of what it may leave, and all of it.
LEMMA PowerLossKeeps ==
    ASSUME FilesHold, Activation!PowerLoss
    PROVE  FilesHold'
  <1>1. /\ ns' \in survivors /\ survivors' = {ns'} /\ process' = "down"
        /\ UNCHANGED <<tokens, edits, owned>>
    BY DEF Activation!PowerLoss, Activation!LoseUnsynced, Activation!Stop
  <1>2. DirectoriesHold'
    BY <1>1, DirectoriesKeep DEF FilesHold
  <1>3. CountersHold'
    BY <1>1 DEF FilesHold, CountersHold, Written
  <1> QED
    BY <1>1, <1>2, <1>3, StoppedHolds DEF FilesHold

LEMMA InitializeKeeps ==
    ASSUME FilesHold, Activation!Initialize
    PROVE  FilesHold'
  <1>1. PICK names \in {Activation!ConfigDirectory,
                       Activation!ConfigDirectory \cup Activation!ManagedDirectory} :
            /\ ns' = ns
            /\ survivors' = Activation!Agreeing(survivors, ns, names)
            /\ \/ /\ names = Activation!ConfigDirectory \cup Activation!ManagedDirectory
                  /\ process' = "reconciling"
               \/ process' = "down"
            /\ UNCHANGED <<tokens, edits, owned>>
    BY DEF Activation!Initialize, Activation!Sync, Activation!environment
  <1>2. ns \in survivors /\ ns \in survivors' /\ survivors' \subseteq survivors
    BY <1>1 DEF FilesHold, CountersHold, Activation!Agreeing
  <1>3. DirectoriesHold'
    BY <1>1, <1>2, DirectoriesKeep DEF FilesHold
  <1>4. CountersHold'
    BY <1>1, <1>2 DEF FilesHold, CountersHold, Written
  <1>5. CASE process' = "reconciling"
    <2>1. Synced(Activation!ManagedDirectory)'
      BY <1>1, <1>5 DEF Synced, Activation!Agreeing
    <2>2. StepsHold'
      BY <1>5, <2>1
         DEF StepsHold, SettledHolds, Settled, BridgedHolds, Exchanges, Reverts, Forward,
             After, Last, CandidateHolds, ExchangeHolds, OthersSynced, CandidateRemovable,
             DisplacedHolds
    <2> QED
      BY <1>3, <1>4, <2>2 DEF FilesHold
  <1>6. CASE process' = "down"
    BY <1>3, <1>4, <1>6, StoppedHolds DEF FilesHold
  <1> QED
    BY <1>1, <1>5, <1>6

\* The user writes a file that was never seen before, and every survivor has it.
LEMMA EditEntrypointKeeps ==
    ASSUME FilesHold, ~MayRemove, Activation!EditEntrypoint
    PROVE  FilesHold'
  <1> DEFINE file == Activation!UserFile(edits + 1)
  <1>1. /\ edits' = edits + 1
        /\ ns' = [ns EXCEPT !.stable = file]
        /\ survivors' = {[s EXCEPT !.stable = file] :
                  s \in Activation!Agreeing(survivors, ns, Activation!ConfigDirectory)}
        /\ owned' = (owned \ {ns.stable}) \cup ({file} \ {Missing})
        /\ UNCHANGED <<authority, tokens, process>>
    BY DEF Activation!EditEntrypoint, Activation!Edit
  <1>2. tokens \in Nat /\ edits \in Nat /\ ns \in survivors /\ edits + 1 \in Nat
    BY DEF FilesHold, CountersHold
  <1>3. /\ Ours' = Ours /\ Written' = Written \cup {file}
        /\ KnownFile' = KnownFile \cup {file}
    BY <1>1, <1>2 DEF Ours, Written, KnownFile
  <1>4. DirectoriesKnown \subseteq DirectoriesKnown'
    <2>1. OwnershipKnown \subseteq OwnershipKnown'
      BY <1>3 DEF OwnershipKnown
    <2>2. BridgeKnown \subseteq BridgeKnown'
      BY <1>3, <2>1 DEF BridgeKnown
    <2> QED
      BY <1>3, <2>1, <2>2 DEF DirectoriesKnown
  <1>5. file # Missing /\ file \notin KnownFile
    <2>1. file # Missing
      BY <1>2, FileAssumption DEF Activation!UserFile, EntrypointFile
    <2>2. file \notin Written
      <3>1. \A e \in 0..edits : e # edits + 1
        BY <1>2
      <3>2. \A e \in 0..edits : Activation!UserFile(e) # file
        BY <3>1 DEF Activation!UserFile
      <3> QED
        BY <3>2, Zenon DEF Written
    <2>3. file \notin Ours
      BY <2>1 DEF Ours, Activation!Loader, Activation!UserFile
    <2> QED
      BY <2>1, <2>2, <2>3, Zenon DEF KnownFile
  <1>6. ns \in DirectoriesKnown
    BY <1>2 DEF FilesHold, DirectoriesHold
  <1>7. /\ ns' \in survivors'
        /\ \A p \in survivors' : \E s \in survivors :
               p = [s EXCEPT !.stable = file] /\ s.stable = ns.stable
    BY <1>1, <1>2 DEF Activation!Agreeing, Activation!ConfigDirectory
  <1> HIDE DEF file
  <1>8. \A s \in DirectoriesKnown :
            LET p == [s EXCEPT !.stable = file]
            IN /\ p \in DirectoriesKnown' /\ p.stable = file
               /\ p.original = s.original /\ p.transition = s.transition
               /\ p.ownership = s.ownership /\ p.bridge = s.bridge
    BY <1>3, <1>4 DEF DirectoriesKnown
  <1>9. DirectoriesHold'
    <2> SUFFICES ASSUME NEW p \in survivors'
                 PROVE  p \in DirectoriesKnown' /\ ShapeHolds(p)' /\ FilesKept(p)'
      BY DEF DirectoriesHold
    <2>1. PICK s \in survivors : p = [s EXCEPT !.stable = file] /\ s.stable = ns.stable
      BY <1>7
    <2>2. s \in DirectoriesKnown /\ ShapeHolds(s) /\ FilesKept(s)
      BY DEF FilesHold, DirectoriesHold
    <2>3. /\ p \in DirectoriesKnown' /\ p.stable = file
          /\ p.original = s.original /\ p.transition = s.transition
          /\ p.ownership = s.ownership /\ p.bridge = s.bridge
      BY <1>8, <2>1, <2>2
    <2>4. ShapeHolds(p)'
      BY <1>3, <1>5, <2>2, <2>3 DEF ShapeHolds, BridgeHolds
    <2>5. FilesKept(p)'
      BY <1>1, <2>1, <2>2, <2>3 DEF FilesKept
    <2> QED
      BY <2>3, <2>4, <2>5
  <1>10. CountersHold'
    BY <1>1, <1>2, <1>3, <1>7 DEF FilesHold, CountersHold
  <1>11. /\ ns'.stable = file
         /\ \A f \in Activation!ManagedDirectory : ns'[f] = ns[f]
         /\ \A p \in survivors' : \E s \in survivors :
                   \A f \in Activation!ManagedDirectory : p[f] = s[f]
    BY <1>1, <1>6, <1>7 DEF DirectoriesKnown, Activation!ManagedDirectory, FilesHold,
                            DirectoriesHold
  <1>12. /\ Activation!bridge' = Activation!bridge /\ Activation!swap' = Activation!swap
         /\ OtherName' = OtherName /\ Activation!target' = Activation!target
    BY <1>1, <1>11 DEF Activation!bridge, Activation!swap, Activation!SwapName,
                       OtherName, Activation!ManagedDirectory, Activation!target
  <1>13. /\ ns'[Activation!swap] = ns[Activation!swap] /\ ns'.ownership = ns.ownership
         /\ ns'.transition = ns.transition
    BY <1>11, SwapIs DEF Activation!ManagedDirectory
  <1>14. /\ Synced(Activation!ManagedDirectory) => Synced(Activation!ManagedDirectory)'
         /\ Synced({OtherName, "ownership"}) => Synced({OtherName, "ownership"})'
         /\ SwapIsOurs => SwapIsOurs'
         /\ SameSwap => SameSwap'
    <2>1. Synced(Activation!ManagedDirectory) => Synced(Activation!ManagedDirectory)'
      BY <1>11 DEF Synced
    <2>2. Synced({OtherName, "ownership"}) => Synced({OtherName, "ownership"})'
      BY <1>11, <1>12, SwapIs DEF Synced, Activation!ManagedDirectory
    <2>3. SwapIsOurs => SwapIsOurs'
      BY <1>3, <1>11, <1>12, SwapIs DEF SwapIsOurs, Activation!ManagedDirectory
    <2>4. SameSwap => SameSwap'
      BY <1>11, <1>12 DEF SameSwap, Activation!ManagedDirectory
    <2> QED
      BY <2>1, <2>2, <2>3, <2>4
  <1>15. Activation!bridge # Missing => ns'.stable # Activation!bridge.before
    BY <1>5, <1>6, <1>11 DEF Activation!bridge, DirectoriesKnown, BridgeKnown
  <1>16. \A t \in 1..tokens : Activation!Loader(t) # file
    BY <1>2, <1>5, FilesAre
  <1>17. StepsHold'
    BY <1>1, <1>3, <1>11, <1>12, <1>13, <1>14, <1>15, <1>16
       DEF FilesHold, StepsHold, SettledHolds, Settled, BridgedHolds, Exchanges, Reverts,
           Forward, After, Last, CandidateHolds, ExchangeHolds, OthersSynced,
           CandidateRemovable, DisplacedHolds
  <1> QED
    BY <1>9, <1>10, <1>17 DEF FilesHold

-----------------------------------------------------------------------------
(* Steps that publish *)

\* The bridge is written where the directories are synced and at rest.
LEMMA PublishBridgeKeeps ==
    ASSUME FilesHold, Activation!PublishBridge
    PROVE  FilesHold'
  <1> DEFINE b == [phase |-> "Staging", token |-> Activation!target, before |-> ns.stable,
                   beforeOwnership |-> ns.ownership]
  <1>1. PICK outcome \in Activation!Outcome :
            /\ Activation!Write([bridge |-> b], outcome)
            /\ process' = CASE outcome = "success" -> "staging"
                            [] outcome = "notPublished" -> "aborting"
                            [] outcome = "notDurable" -> "rollback"
    BY DEF Activation!PublishBridge, Activation!Goto
  <1>2. /\ process = "publishing" /\ Activation!StatusMatches(ns, committed)
        /\ UNCHANGED <<authority, tokens, edits, owned>>
    BY DEF Activation!PublishBridge, Activation!environment
  <1>3. /\ ns \in survivors /\ tokens \in Nat /\ edits \in Nat
        /\ Activation!target \in 1..tokens
        /\ ns.stable # Activation!Loader(Activation!target)
        /\ Synced(Activation!ManagedDirectory)
    BY <1>2 DEF FilesHold, CountersHold, StepsHold, CandidateHolds, SettledHolds,
                Settled
  <1>4. ns \in DirectoriesKnown /\ ShapeHolds(ns)
    BY <1>3 DEF FilesHold, DirectoriesHold
  <1>5. ns.bridge = Missing
    BY <1>2 DEF Activation!StatusMatches, Activation!PublisherStatus
  <1>6. ns.ownership # Missing => ns.stable \in Ours
    BY <1>2, <1>3, <1>4 DEF Activation!StatusMatches, Activation!PublisherStatus,
                            Activation!OwnershipValid, DirectoriesKnown, KnownFile,
       Ours, Written, Activation!Loader, Activation!UserFile
  <1>7. b \in BridgeKnown /\ b # Missing /\ BridgeHolds(b)
    BY <1>3, <1>4, <1>6, FilesAre, FileAssumption DEF BridgeKnown, DirectoriesKnown,
                                                      BridgeHolds, ShapeHolds
  <1>8. /\ b.token = Activation!target /\ b.phase = "Staging"
        /\ b.beforeOwnership = ns.ownership
        /\ b.before = ns.stable
    OBVIOUS
  <1> HIDE DEF b
  <1>9. ASSUME NEW s \in survivors, NEW p, p = Activation!Put(s, [bridge |-> b])
        PROVE  /\ p \in DirectoriesKnown /\ ShapeHolds(p) /\ FilesKept(p)
               /\ p.transition = ns.transition /\ p.original = ns.original
               /\ p.ownership = ns.ownership /\ p.bridge = b
               /\ p.stable = s.stable
    <2>1. s \in DirectoriesKnown /\ ShapeHolds(s) /\ FilesKept(s)
      BY DEF FilesHold, DirectoriesHold
    <2>2. /\ s.transition = ns.transition /\ s.original = ns.original
          /\ s.ownership = ns.ownership /\ s.bridge = ns.bridge
      BY <1>3 DEF Synced, Activation!ManagedDirectory
    <2>3. /\ p \in DirectoriesKnown
          /\ p.stable = s.stable /\ p.original = s.original /\ p.transition = s.transition
          /\ p.ownership = s.ownership /\ p.bridge = b
      BY <1>7, <1>9, <2>1, PutBridge
    <2> QED
      BY <1>5, <1>7, <1>8, <2>1, <2>2, <2>3 DEF ShapeHolds, FilesKept
  <1>10. DirectoriesHold'
    BY <1>1, <1>2, <1>3, <1>9, WriteLeaves, DirectoriesKeep DEF FilesHold
  <1>11. CountersHold'
    BY <1>1, <1>2, <1>3, WriteLeaves DEF FilesHold, CountersHold, Written
  <1>12. CASE outcome = "notPublished"
    <2>1. UNCHANGED <<ns, survivors>> /\ process' = "aborting"
      BY <1>1, <1>3, <1>12, WriteLeaves
    <2> QED
      BY <1>2, <1>3, <1>10, <1>11, <2>1, Untouched
         DEF FilesHold, StepsHold, SettledHolds, Settled, BridgedHolds, Exchanges,
             Reverts, Forward, After, Last, CandidateHolds, ExchangeHolds, OthersSynced,
             CandidateRemovable, DisplacedHolds
  <1>13. CASE outcome # "notPublished"
    <2>1. /\ ns' = Activation!Put(ns, [bridge |-> b])
          /\ outcome = "success" => Synced(Activation!ManagedDirectory)'
      BY <1>1, <1>3, <1>13, WriteLeaves DEF Synced
    <2>2. /\ ns'.transition = ns.transition /\ ns'.original = ns.original
          /\ ns'.ownership = ns.ownership /\ ns'.bridge = b /\ ns'.stable = ns.stable
      BY <1>3, <1>9, <2>1
    <2>3. \A p \in survivors' :
                 /\ p.transition = ns'.transition /\ p.original = ns'.original
                                /\ p.ownership = ns'.ownership
      <3>1. \A p \in survivors :
                   /\ p.transition = ns.transition /\ p.original = ns.original
                                 /\ p.ownership = ns.ownership
        BY <1>3 DEF Synced, Activation!ManagedDirectory
      <3> QED
        BY <1>1, <1>3, <1>9, <2>2, <3>1, WriteLeaves
    <2>4. Synced({OtherName, "ownership"})'
      BY <2>3, SwapIs DEF Synced, OtherName
    <2>5. /\ Activation!bridge' = b /\ Activation!target' = Activation!target
          /\ Ours' = Ours
          /\ Activation!swap' = Activation!SwapName(b)
      BY <1>2, <2>2 DEF Activation!bridge, Activation!target, Activation!swap, Ours
    <2>6. /\ Activation!swap' \in {"original", "transition"}
          /\ ns'[Activation!swap'] \in Ours'
      <3>1. CASE ns.ownership = Missing
        BY <1>4, <1>5, <1>8, <2>2, <2>5, <3>1 DEF ShapeHolds, Activation!SwapName
      <3>2. CASE ns.ownership # Missing
        BY <1>4, <1>5, <1>8, <2>2, <2>5, <3>2 DEF ShapeHolds, Activation!SwapName
      <3> QED
        BY <3>1, <3>2
    <2>7. SwapIsOurs'
      BY <2>3, <2>6 DEF SwapIsOurs
    <2>8. CASE outcome = "success"
      <3>1. process' = "staging" /\ Synced(Activation!ManagedDirectory)'
        BY <1>1, <2>1, <2>8
      <3>2. /\ Activation!target' \in 1..tokens'
            /\ Activation!bridge'.token = Activation!target'
            /\ Activation!bridge' # Missing
        BY <1>2, <1>3, <1>7, <1>8, <2>5
      <3> QED
        BY <1>10, <1>11, <2>6, <3>1, <3>2
           DEF FilesHold, StepsHold, SettledHolds, Settled, BridgedHolds, Exchanges,
               Reverts, Forward, After, Last, CandidateHolds, ExchangeHolds, OthersSynced,
               CandidateRemovable, DisplacedHolds
    <2>9. CASE outcome = "notDurable"
      <3>1. /\ process' = "rollback" /\ Activation!bridge'.phase = "Staging"
            /\ Activation!bridge' # Missing
        BY <1>1, <1>7, <1>8, <2>5, <2>9
      <3> QED
        BY <1>10, <1>11, <2>4, <2>7, <3>1
           DEF FilesHold, StepsHold, SettledHolds, Settled, BridgedHolds, Exchanges,
               Reverts, Forward, After, Last, CandidateHolds, ExchangeHolds, OthersSynced,
               CandidateRemovable, DisplacedHolds
    <2> QED
      BY <1>13, <2>8, <2>9 DEF Activation!Outcome
  <1> QED
    BY <1>12, <1>13

\* What is staged takes the place of nothing of the user's.
LEMMA StageLoaderKeeps ==
    ASSUME FilesHold, Activation!StageLoader
    PROVE  FilesHold'
  <1> DEFINE file == Activation!Loader(Activation!target)
             changes == [f \in {Activation!swap} |-> file]
  <1>1. PICK outcome \in Activation!Outcome :
            /\ Activation!Write(changes, outcome)
            /\ process' = IF outcome = "success" THEN "staged" ELSE "rollback"
    BY DEF Activation!StageLoader, Activation!Goto
  <1>2. process = "staging" /\ UNCHANGED <<authority, tokens, edits, owned>>
    BY DEF Activation!StageLoader, Activation!environment
  <1>3. /\ ns \in survivors /\ tokens \in Nat /\ edits \in Nat /\ owned \subseteq Written
        /\ Activation!target \in 1..tokens /\ Activation!bridge.token = Activation!target
        /\ ns[Activation!swap] \in Ours
        /\ Synced(Activation!ManagedDirectory) /\ Activation!bridge # Missing
    BY <1>2 DEF FilesHold, CountersHold, StepsHold, CandidateHolds, SettledHolds,
                Settled,
       BridgedHolds, Forward
  <1>4. /\ file \in Ours /\ file \in KnownFile /\ Ours \cap Written = {}
        /\ file = Activation!Loader(Activation!bridge.token)
        /\ DOMAIN changes = {Activation!swap} /\ changes[Activation!swap] = file
    BY <1>3, FilesAre
  <1> HIDE DEF file, changes
  <1>5. ASSUME NEW s \in survivors, NEW p, p = Activation!Put(s, changes)
        PROVE  /\ p \in DirectoriesKnown /\ ShapeHolds(p) /\ FilesKept(p)
               /\ p[Activation!swap] = file /\ p[OtherName] = ns[OtherName]
               /\ p.ownership = ns.ownership /\ p.bridge = ns.bridge
    <2>1. s \in DirectoriesKnown /\ ShapeHolds(s) /\ FilesKept(s)
      BY DEF FilesHold, DirectoriesHold
    <2>2. /\ s[Activation!swap] = ns[Activation!swap] /\ s[OtherName] = ns[OtherName]
          /\ s.ownership = ns.ownership /\ s.bridge = ns.bridge
      BY <1>3, SwapIs DEF Synced, Activation!ManagedDirectory
    <2>3. /\ p \in DirectoriesKnown
          /\ p.stable = s.stable /\ p.ownership = s.ownership /\ p.bridge = s.bridge
          /\ p[Activation!swap] = file /\ p[OtherName] = s[OtherName]
      BY <1>4, <1>5, <2>1, PutSwap
    <2>4. ShapeHolds(p)
      BY <1>3, <1>4, <2>1, <2>2, <2>3, SwapIs DEF ShapeHolds, Activation!bridge,
                                                  OtherName
    <2>5. FilesKept(p)
      <3>1. owned \subseteq {s.stable, s[Activation!swap], s[OtherName]}
        BY <2>1, SwapIs DEF FilesKept
      <3>2. s[Activation!swap] \notin owned
        BY <1>3, <1>4, <2>2
      <3> QED
        BY <2>3, <3>1, <3>2, SwapIs DEF FilesKept
    <2> QED
      BY <2>2, <2>3, <2>4, <2>5
  <1>6. DirectoriesHold'
    BY <1>1, <1>2, <1>3, <1>5, WriteLeaves, DirectoriesKeep DEF FilesHold
  <1>7. CountersHold'
    BY <1>1, <1>2, <1>3, WriteLeaves DEF FilesHold, CountersHold, Written
  <1>8. \A p \in survivors' :
               /\ p[Activation!swap] \in Ours /\ p[OtherName] = ns[OtherName]
                              /\ p.ownership = ns.ownership /\ p.bridge = ns.bridge
    <2>1. \A p \in survivors :
                 /\ p[Activation!swap] \in Ours /\ p[OtherName] = ns[OtherName]
                               /\ p.ownership = ns.ownership /\ p.bridge = ns.bridge
      BY <1>3, SwapIs DEF Synced, Activation!ManagedDirectory
    <2> QED
      BY <1>1, <1>3, <1>4, <1>5, <2>1, WriteLeaves
  <1>9. /\ ns' \in survivors'
        /\ outcome = "success" => ns' = Activation!Put(ns, changes)
        /\ outcome = "success" => Synced(Activation!ManagedDirectory)'
    BY <1>1, <1>3, WriteLeaves DEF Synced
  <1>10. /\ Activation!bridge' = Activation!bridge /\ Activation!swap' = Activation!swap
         /\ OtherName' = OtherName /\ Ours' = Ours
    BY <1>2, <1>8, <1>9 DEF Activation!bridge, Activation!swap, Activation!SwapName,
                            OtherName, Ours
  <1>11. /\ SwapIsOurs' /\ SameSwap' /\ Synced({OtherName, "ownership"})'
    BY <1>3, <1>8, <1>9, <1>10 DEF SwapIsOurs, SameSwap, Synced, Activation!bridge
  <1>12. outcome = "success" =>
                ns'[Activation!swap] = Activation!Loader(Activation!bridge.token)
    BY <1>3, <1>4, <1>5, <1>9
  <1> QED
    BY <1>1, <1>2, <1>3, <1>6, <1>7, <1>9, <1>10, <1>11, <1>12 DEF FilesHold,
                                                                   StepsHold,
                                                                   SettledHolds,
       Settled, BridgedHolds, Exchanges, Reverts, Forward, After, Last, CandidateHolds,
       ExchangeHolds, OthersSynced, CandidateRemovable, DisplacedHolds

LEMMA PublishReadyKeeps ==
    ASSUME FilesHold, Activation!PublishReady
    PROVE  FilesHold'
  <1> DEFINE b == [Activation!bridge EXCEPT !.phase = "Ready"]
  <1>1. PICK outcome \in Activation!Outcome :
            /\ Activation!Write([bridge |-> b], outcome)
            /\ process' = IF outcome = "success" THEN "probing" ELSE "rollback"
    BY DEF Activation!PublishReady, Activation!Goto
  <1>2. process = "staged" /\ UNCHANGED <<authority, tokens, edits, owned>>
    BY DEF Activation!PublishReady, Activation!environment
  <1>3. /\ ns \in survivors /\ tokens \in Nat /\ edits \in Nat
        /\ Activation!bridge.token \in 1..tokens
        /\ ns[Activation!swap] = Activation!Loader(Activation!bridge.token)
        /\ Synced(Activation!ManagedDirectory) /\ Activation!bridge # Missing
    BY <1>2 DEF FilesHold, CountersHold, StepsHold, CandidateHolds, SettledHolds,
                Settled,
       BridgedHolds, Forward
  <1>4. Activation!Loader(Activation!bridge.token) \in Ours
    BY <1>3, FilesAre
  <1>5. /\ ns \in DirectoriesKnown /\ ShapeHolds(ns) /\ Activation!bridge \in BridgeKnown
        /\ BridgeHolds(Activation!bridge)
    BY <1>3 DEF FilesHold, DirectoriesHold, DirectoriesKnown, Activation!bridge,
                ShapeHolds
  <1>6. /\ b \in BridgeKnown /\ b.token = Activation!bridge.token
        /\ b.before = Activation!bridge.before
        /\ b.beforeOwnership = Activation!bridge.beforeOwnership
    BY <1>5 DEF BridgeKnown
  <1> HIDE DEF b
  <1>7. b # Missing /\ BridgeHolds(b)
    BY <1>3, <1>5, <1>6, FilesAre, FileAssumption DEF BridgeHolds
  <1>8. ASSUME NEW s \in survivors, NEW p, p = Activation!Put(s, [bridge |-> b])
        PROVE  /\ p \in DirectoriesKnown /\ ShapeHolds(p) /\ FilesKept(p)
               /\ p[Activation!swap] = ns[Activation!swap] /\ p[OtherName] = ns[OtherName]
               /\ p.ownership = ns.ownership /\ p.bridge = b
    <2>1. s \in DirectoriesKnown /\ ShapeHolds(s) /\ FilesKept(s)
      BY DEF FilesHold, DirectoriesHold
    <2>2. /\ s[Activation!swap] = ns[Activation!swap] /\ s[OtherName] = ns[OtherName]
          /\ s.ownership = ns.ownership /\ s.bridge = Activation!bridge
      BY <1>3, SwapIs DEF Synced, Activation!ManagedDirectory, Activation!bridge
    <2>3. /\ p \in DirectoriesKnown
          /\ p.stable = s.stable /\ p.original = s.original /\ p.transition = s.transition
          /\ p.ownership = s.ownership /\ p.bridge = b
      BY <1>6, <1>8, <2>1, PutBridge
    <2> QED
      BY <1>3, <1>6, <1>7, <2>1, <2>2, <2>3, SwapIs DEF ShapeHolds, FilesKept
  <1>9. DirectoriesHold'
    BY <1>1, <1>2, <1>3, <1>8, WriteLeaves, DirectoriesKeep DEF FilesHold
  <1>10. CountersHold'
    BY <1>1, <1>2, <1>3, WriteLeaves DEF FilesHold, CountersHold, Written
  <1>11. \A p \in survivors' :
                /\ p[Activation!swap] = ns[Activation!swap]
                /\ p[OtherName] = ns[OtherName]
                               /\ p.ownership = ns.ownership
                               /\ p.bridge \in {b, Activation!bridge}
    <2>1. \A p \in survivors :
                 /\ p[Activation!swap] = ns[Activation!swap]
                 /\ p[OtherName] = ns[OtherName]
                               /\ p.ownership = ns.ownership
                               /\ p.bridge = Activation!bridge
      BY <1>3, SwapIs DEF Synced, Activation!ManagedDirectory, Activation!bridge
    <2> QED
      BY <1>1, <1>3, <1>8, <2>1, WriteLeaves
  <1>12. ns' \in survivors' /\ (outcome = "success" =>
                Synced(Activation!ManagedDirectory)')
    BY <1>1, <1>3, WriteLeaves DEF Synced
  <1>13. /\ Activation!bridge' \in {b, Activation!bridge}
         /\ Activation!swap' = Activation!swap /\ OtherName' = OtherName /\ Ours' = Ours
    BY <1>2, <1>6, <1>11, <1>12 DEF Activation!bridge, Activation!swap,
                                    Activation!SwapName, OtherName, Ours
  <1>14. /\ ns'[Activation!swap] = ns[Activation!swap] /\ Activation!bridge' # Missing
         /\ Activation!bridge'.token = Activation!bridge.token
         /\ Activation!bridge'.beforeOwnership = Activation!bridge.beforeOwnership
    BY <1>3, <1>6, <1>7, <1>11, <1>12, <1>13
  <1>15. /\ SwapIsOurs' /\ SameSwap' /\ Synced({OtherName, "ownership"})'
    BY <1>3, <1>4, <1>6, <1>7, <1>11, <1>12, <1>13, <1>14 DEF SwapIsOurs, SameSwap,
                                                              Synced
  <1> QED
    BY <1>1, <1>2, <1>3, <1>9, <1>10, <1>12, <1>13, <1>14, <1>15 DEF FilesHold,
                                                                     StepsHold,
                                                                     SettledHolds,
       Settled, BridgedHolds, Exchanges, Reverts, Forward, After, Last, CandidateHolds,
       ExchangeHolds, OthersSynced, CandidateRemovable, DisplacedHolds

-----------------------------------------------------------------------------
(* Steps that exchange *)

\* What exchanges the entrypoint with what has the swap name leaves both.
LEMMA ExchangeLeaves ==
    ASSUME FilesHold, Activation!bridge # Missing, ns[Activation!swap] # Missing,
           Synced({OtherName, "ownership"}), SameSwap,
           ns' = Activation!Put(ns, Activation!Exchanged(Activation!swap)), ns' \in survivors',
           \A p \in survivors' :
               p \in survivors \/ \E s \in survivors :
                      p = Activation!Put(s, Activation!Exchanged(Activation!swap)),
           UNCHANGED <<tokens, edits, owned>>
    PROVE  /\ CountersHold' /\ DirectoriesHold'
           /\ Synced({OtherName, "ownership"})' /\ SameSwap'
           /\ Activation!bridge' = Activation!bridge /\ Activation!swap' = Activation!swap
           /\ ns'.stable = ns[Activation!swap] /\ ns'[Activation!swap] = ns.stable
  <1>1. ns \in survivors /\ ns \in DirectoriesKnown /\ ShapeHolds(ns) /\ FilesKept(ns)
    BY DEF FilesHold, CountersHold, DirectoriesHold
  <1>2. ASSUME NEW s \in survivors, NEW p,
               p = Activation!Put(s, Activation!Exchanged(Activation!swap))
        PROVE  /\ p \in DirectoriesKnown /\ ShapeHolds(p) /\ FilesKept(p)
               /\ p.stable = ns[Activation!swap] /\ p[Activation!swap] = ns.stable
               /\ p[OtherName] = ns[OtherName] /\ p.ownership = ns.ownership
               /\ p.bridge = s.bridge
    <2>1. s \in DirectoriesKnown /\ ShapeHolds(s)
      BY DEF FilesHold, DirectoriesHold
    <2>2. /\ s[OtherName] = ns[OtherName] /\ s.ownership = ns.ownership
          /\ s.bridge # Missing
          /\ s.bridge.beforeOwnership = Activation!bridge.beforeOwnership
      BY DEF Synced, SameSwap
    <2>3. /\ p \in DirectoriesKnown
          /\ p.stable = ns[Activation!swap] /\ p.ownership = s.ownership
          /\ p.bridge = s.bridge
          /\ p[Activation!swap] = ns.stable /\ p[OtherName] = s[OtherName]
      BY <1>1, <1>2, <2>1, PutSwapped
    <2>4. ShapeHolds(p)
      BY <2>1, <2>2, <2>3, SwapIs DEF ShapeHolds, OtherName
    <2>5. FilesKept(p)
      BY <1>1, <2>2, <2>3, SwapIs DEF FilesKept
    <2> QED
      BY <2>2, <2>3, <2>4, <2>5
  <1>3. DirectoriesHold'
    BY <1>2, DirectoriesKeep DEF FilesHold
  <1>4. CountersHold'
    BY DEF FilesHold, CountersHold, Written
  <1>5. \A p \in survivors' :
               /\ p[OtherName] = ns[OtherName] /\ p.ownership = ns.ownership
                              /\ p.bridge # Missing
                              /\ p.bridge.beforeOwnership = Activation!bridge.beforeOwnership
    BY <1>2 DEF Synced, SameSwap
  <1>6. /\ ns'.stable = ns[Activation!swap] /\ ns'[Activation!swap] = ns.stable
        /\ ns'.bridge = ns.bridge
        /\ ns'[OtherName] = ns[OtherName] /\ ns'.ownership = ns.ownership
    BY <1>1, <1>2
  <1>7. /\ Activation!bridge' = Activation!bridge /\ Activation!swap' = Activation!swap
        /\ OtherName' = OtherName
    BY <1>6 DEF Activation!bridge, Activation!swap, Activation!SwapName, OtherName
  <1>8. Synced({OtherName, "ownership"})' /\ SameSwap'
    BY <1>5, <1>6, <1>7 DEF Synced, SameSwap
  <1> QED
    BY <1>3, <1>4, <1>6, <1>7, <1>8

LEMMA ExchangeEntrypointKeeps ==
    ASSUME FilesHold, Activation!ExchangeEntrypoint
    PROVE  FilesHold'
  <1>1. /\ process = "exchanging" /\ UNCHANGED <<authority, tokens, edits, owned>>
        /\ \/ Activation!Exchange(Activation!swap) /\ process' = "verifying"
           \/ UNCHANGED <<ns, survivors>> /\ process' = "rollback"
    BY DEF Activation!ExchangeEntrypoint, Activation!environment, Activation!namespace,
           Activation!Goto
  <1>2. /\ Activation!bridge # Missing /\ Synced(Activation!ManagedDirectory)
        /\ Activation!bridge.token \in 1..tokens
        /\ ns[Activation!swap] = Activation!Loader(Activation!bridge.token)
        /\ ns \in survivors /\ tokens \in Nat /\ edits \in Nat
    BY <1>1 DEF FilesHold, CountersHold, StepsHold, BridgedHolds, Forward,
                SettledHolds, Settled,
       CandidateHolds
  <1>3. Synced({OtherName, "ownership"}) /\ SameSwap
    BY <1>2, SyncedIs
  <1>4. CASE UNCHANGED <<ns, survivors>> /\ process' = "rollback"
    BY <1>1, <1>2, <1>3, <1>4, Untouched, SyncedIs
       DEF FilesHold, StepsHold, SettledHolds, Settled, BridgedHolds, Exchanges, Reverts,
           Forward, After, Last, CandidateHolds, ExchangeHolds, OthersSynced,
           CandidateRemovable, DisplacedHolds
  <1>5. CASE Activation!Exchange(Activation!swap) /\ process' = "verifying"
    <2>1. /\ ns.stable # Missing
          /\ Activation!bridge.before # Activation!Loader(Activation!bridge.token)
      BY <1>2 DEF FilesHold, DirectoriesHold, ShapeHolds, BridgeHolds, Activation!bridge
    <2>2. ns[Activation!swap] # Missing
      BY <1>2, FileAssumption DEF Activation!Loader, EntrypointFile
    <2>3. /\ ns' = Activation!Put(ns, Activation!Exchanged(Activation!swap))
          /\ ns' \in survivors'
          /\ \A p \in survivors' :
                 p \in survivors \/ \E s \in survivors :
                        p = Activation!Put(s, Activation!Exchanged(Activation!swap))
      BY <1>2, <1>5 DEF Activation!Exchange, Activation!Change
    <2>4. /\ CountersHold' /\ DirectoriesHold'
          /\ Synced({OtherName, "ownership"})' /\ SameSwap'
          /\ Activation!bridge' = Activation!bridge /\ Activation!swap' = Activation!swap
          /\ ns'.stable = ns[Activation!swap] /\ ns'[Activation!swap] = ns.stable
      BY <1>1, <1>2, <1>3, <2>2, <2>3, ExchangeLeaves
    <2> QED
      BY <1>2, <1>5, <2>1, <2>4
         DEF FilesHold, StepsHold, SettledHolds, Settled, BridgedHolds, Exchanges,
             Reverts, Forward, After, Last, CandidateHolds, ExchangeHolds, OthersSynced,
             CandidateRemovable, DisplacedHolds
  <1> QED
    BY <1>1, <1>4, <1>5

\* What was displaced instead of what was expected goes back.
LEMMA RestoreDisplacedKeeps ==
    ASSUME FilesHold, Activation!RestoreDisplaced
    PROVE  FilesHold'
  <1>1. /\ process = "restoring" /\ UNCHANGED <<authority, tokens, edits, owned>>
        /\ \/ Activation!Exchange(Activation!swap)
           \/ Activation!ExchangeDurably(Activation!swap)
           \/ UNCHANGED <<ns, survivors>>
        /\ process' = "rollback"
    BY DEF Activation!RestoreDisplaced, Activation!environment, Activation!namespace,
           Activation!Goto
  <1>2. /\ Activation!bridge # Missing /\ Synced({OtherName, "ownership"}) /\ SameSwap
        /\ ns[Activation!swap] # Missing /\ ns[Activation!swap] # Activation!bridge.before
        /\ ns.stable # Activation!bridge.before
        /\ ns \in survivors
    BY <1>1 DEF FilesHold, CountersHold, StepsHold, BridgedHolds, Exchanges,
                OthersSynced,
       ExchangeHolds
  <1>3. CASE UNCHANGED <<ns, survivors>>
    BY <1>1, <1>2, <1>3, Untouched
       DEF FilesHold, StepsHold, SettledHolds, Settled, BridgedHolds, Exchanges, Reverts,
           Forward, After, Last, CandidateHolds, ExchangeHolds, OthersSynced,
           CandidateRemovable, DisplacedHolds
  <1>4. CASE Activation!Exchange(Activation!swap) \/ Activation!ExchangeDurably(Activation!swap)
    <2>1. /\ ns' = Activation!Put(ns, Activation!Exchanged(Activation!swap))
          /\ ns' \in survivors'
          /\ \A p \in survivors' :
                 p \in survivors \/ \E s \in survivors :
                        p = Activation!Put(s, Activation!Exchanged(Activation!swap))
      BY <1>2, <1>4 DEF Activation!Exchange, Activation!ExchangeDurably,
                        Activation!Change
    <2>2. /\ CountersHold' /\ DirectoriesHold'
          /\ Synced({OtherName, "ownership"})' /\ SameSwap'
          /\ Activation!bridge' = Activation!bridge /\ Activation!swap' = Activation!swap
          /\ ns'.stable = ns[Activation!swap] /\ ns'[Activation!swap] = ns.stable
      BY <1>1, <1>2, <2>1, ExchangeLeaves
    <2> QED
      BY <1>1, <1>2, <2>2
         DEF FilesHold, StepsHold, SettledHolds, Settled, BridgedHolds, Exchanges,
             Reverts, Forward, After, Last, CandidateHolds, ExchangeHolds, OthersSynced,
             CandidateRemovable, DisplacedHolds
  <1> QED
    BY <1>1, <1>3, <1>4

LEMMA SwitchBackKeeps ==
    ASSUME FilesHold, Activation!SwitchBack
    PROVE  FilesHold'
  <1>1. /\ process = "switching" /\ UNCHANGED <<authority, tokens, edits, owned>>
        /\ \/ /\ IF Activation!bridge.before = Missing THEN Activation!Change([stable |-> Missing])
                 ELSE Activation!Exchange(Activation!swap)
              /\ process' = "switched"
           \/ UNCHANGED <<ns, survivors>> /\ process' = "unreconciled"
    BY DEF Activation!SwitchBack, Activation!environment, Activation!namespace,
           Activation!Goto, Activation!Unreconciled
  <1>2. /\ Activation!bridge # Missing /\ Synced({OtherName, "ownership"}) /\ SameSwap
        /\ ns[Activation!swap] # Missing /\ ns \in survivors
    BY <1>1 DEF FilesHold, CountersHold, StepsHold, BridgedHolds, Exchanges,
                OthersSynced,
       ExchangeHolds
  <1>3. CASE UNCHANGED <<ns, survivors>> /\ process' = "unreconciled"
    BY <1>1, <1>3, Untouched, StoppedHolds DEF FilesHold
  <1>4. CASE ~(UNCHANGED <<ns, survivors>> /\ process' = "unreconciled")
    <2>1. Activation!bridge.before # Missing
      BY <1>2 DEF FilesHold, DirectoriesHold, ShapeHolds, BridgeHolds, Activation!bridge
    <2>2. /\ ns' = Activation!Put(ns, Activation!Exchanged(Activation!swap))
          /\ ns' \in survivors'
          /\ \A p \in survivors' :
                 p \in survivors \/ \E s \in survivors :
                        p = Activation!Put(s, Activation!Exchanged(Activation!swap))
      BY <1>1, <1>2, <1>4, <2>1 DEF Activation!Exchange, Activation!Change
    <2>3. /\ CountersHold' /\ DirectoriesHold'
          /\ Synced({OtherName, "ownership"})' /\ SameSwap'
          /\ Activation!bridge' = Activation!bridge /\ Activation!swap' = Activation!swap
      BY <1>1, <1>2, <2>2, ExchangeLeaves
    <2> QED
      BY <1>1, <1>2, <1>4, <2>3
         DEF FilesHold, StepsHold, SettledHolds, Settled, BridgedHolds, Exchanges,
             Reverts, Forward, After, Last, CandidateHolds, ExchangeHolds, OthersSynced,
             CandidateRemovable, DisplacedHolds
  <1> QED
    BY <1>3, <1>4

-----------------------------------------------------------------------------
(* Steps that sync *)

LEMMA SyncLeaves ==
    ASSUME FilesHold, NEW entries, Activation!Sync(entries), UNCHANGED <<tokens, edits, owned>>
    PROVE  /\ CountersHold' /\ DirectoriesHold' /\ ns' = ns
           /\ Activation!bridge' = Activation!bridge /\ Activation!swap' = Activation!swap
           /\ OtherName' = OtherName
           /\ \A names : Synced(names) => Synced(names)'
           /\ SwapIsOurs => SwapIsOurs'
           /\ SameSwap => SameSwap'
           /\ Activation!ManagedDirectory \subseteq entries =>
                     Synced(Activation!ManagedDirectory)'
  <1>1. /\ ns' = ns /\ survivors' \subseteq survivors /\ ns \in survivors'
        /\ \A p \in survivors' : \A f \in entries : p[f] = ns[f]
    BY DEF FilesHold, CountersHold, Activation!Sync, Activation!Agreeing
  <1>2. DirectoriesHold'
    BY <1>1, DirectoriesKeep DEF FilesHold
  <1>3. CountersHold'
    BY <1>1 DEF FilesHold, CountersHold, Written
  <1>4. /\ Activation!bridge' = Activation!bridge /\ Activation!swap' = Activation!swap
        /\ OtherName' = OtherName /\ Ours' = Ours
    BY <1>1 DEF Activation!bridge, Activation!swap, Activation!SwapName, OtherName, Ours
  <1>5. /\ \A names : Synced(names) => Synced(names)'
        /\ SwapIsOurs => SwapIsOurs'
        /\ SameSwap => SameSwap'
    BY <1>1, <1>4 DEF Synced, SwapIsOurs, SameSwap
  <1>6. Activation!ManagedDirectory \subseteq entries =>
               Synced(Activation!ManagedDirectory)'
    BY <1>1 DEF Synced
  <1> QED
    BY <1>1, <1>2, <1>3, <1>4, <1>5, <1>6

LEMMA SyncExchangeKeeps ==
    ASSUME FilesHold, Activation!SyncExchange
    PROVE  FilesHold'
  <1>1. /\ process = "syncing" /\ UNCHANGED <<authority, tokens, edits, owned>>
        /\ \/ /\ Activation!Sync(Activation!ConfigDirectory \cup Activation!ManagedDirectory)
              /\ process' = "reloading"
           \/ Activation!Sync(Activation!ConfigDirectory) /\ process' = "rollback"
           \/ UNCHANGED <<ns, survivors>> /\ process' = "rollback"
    BY DEF Activation!SyncExchange, Activation!environment, Activation!namespace,
           Activation!Goto
  <1>2. /\ Activation!bridge # Missing /\ Synced({OtherName, "ownership"}) /\ SameSwap
        /\ ns.stable # Activation!bridge.before
    BY <1>1 DEF FilesHold, CountersHold, StepsHold, BridgedHolds, Exchanges,
                OthersSynced,
       ExchangeHolds
  <1>3. /\ CountersHold' /\ DirectoriesHold' /\ ns' = ns
        /\ Activation!bridge' = Activation!bridge /\ Activation!swap' = Activation!swap
        /\ Synced({OtherName, "ownership"})' /\ SameSwap'
        /\ process' = "reloading" => Synced(Activation!ManagedDirectory)'
    BY <1>1, <1>2, SyncLeaves, Untouched
  <1> QED
    BY <1>1, <1>2, <1>3
       DEF FilesHold, StepsHold, SettledHolds, Settled, BridgedHolds, Exchanges, Reverts,
           Forward, After, Last, CandidateHolds, ExchangeHolds, OthersSynced,
           CandidateRemovable, DisplacedHolds

LEMMA SyncSwitchKeeps ==
    ASSUME FilesHold, Activation!SyncSwitch
    PROVE  FilesHold'
  <1>1. /\ process = "switched" /\ UNCHANGED <<authority, tokens, edits, owned>>
        /\ \/ /\ Activation!Sync(Activation!ConfigDirectory \cup Activation!ManagedDirectory)
              /\ process' \in {"reloadingPrior", "unreconciled"}
           \/ Activation!Sync(Activation!ConfigDirectory) /\ process' = "unreconciled"
           \/ UNCHANGED <<ns, survivors>> /\ process' = "unreconciled"
    BY DEF Activation!SyncSwitch, Activation!environment, Activation!namespace,
           Activation!Goto, Activation!Unreconciled
  <1>2. Activation!bridge # Missing
    BY <1>1 DEF FilesHold, StepsHold, BridgedHolds, Exchanges
  <1>3. /\ CountersHold' /\ DirectoriesHold'
        /\ Activation!bridge' = Activation!bridge /\ Activation!swap' = Activation!swap
        /\ OtherName' = OtherName
        /\ process' = "reloadingPrior" => Synced(Activation!ManagedDirectory)'
    BY <1>1, SyncLeaves, Untouched
  <1>4. CASE process' = "unreconciled"
    BY <1>3, <1>4, StoppedHolds DEF FilesHold
  <1>5. CASE process' = "reloadingPrior"
    <2>1. /\ Synced({OtherName, "ownership"})'
          /\ (ns'[Activation!swap'] \in Ours' => SwapIsOurs')
      <3>1. Synced(Activation!ManagedDirectory)'
        BY <1>3, <1>5
      <3>2. /\ Activation!swap' \in Activation!ManagedDirectory
            /\ OtherName' \in Activation!ManagedDirectory
            /\ "ownership" \in Activation!ManagedDirectory
        BY <1>3, SwapIs DEF Activation!ManagedDirectory
      <3> QED
        BY <3>1, <3>2 DEF Synced, SwapIsOurs
    <2> QED
      BY <1>2, <1>3, <1>5, <2>1
         DEF FilesHold, StepsHold, SettledHolds, Settled, BridgedHolds, Exchanges,
             Reverts, Forward, After, Last, CandidateHolds, ExchangeHolds, OthersSynced,
             CandidateRemovable, DisplacedHolds
  <1> QED
    BY <1>1, <1>4, <1>5

-----------------------------------------------------------------------------
(* Steps that settle *)

LEMMA PromoteOwnershipKeeps ==
    ASSUME FilesHold, Activation!PromoteOwnership
    PROVE  FilesHold'
  <1> DEFINE o == Activation!TargetOwnership(ns)
  <1>1. /\ process = "finalizing" /\ Activation!TargetFinalizable(ns)
        /\ UNCHANGED <<authority, tokens, edits, owned>>
        /\ \/ ns.ownership = o /\ UNCHANGED <<ns, survivors>> /\ process' = "displaced"
           \/ \E outcome \in Activation!Outcome :
                 /\ Activation!Write([ownership |-> o], outcome)
                 /\ process' = IF outcome = "success" THEN "displaced" ELSE "unreconciled"
    BY DEF Activation!PromoteOwnership, Activation!environment, Activation!namespace,
           Activation!Goto, Activation!Unreconciled, Activation!FinalizationFails,
           Activation!Outcome
  <1>2. /\ Activation!bridge # Missing /\ Synced(Activation!ManagedDirectory)
        /\ ns \in survivors /\ tokens \in Nat /\ edits \in Nat
    BY <1>1 DEF FilesHold, CountersHold, StepsHold, BridgedHolds, Last, SettledHolds,
                Settled
  <1>3. /\ ns \in DirectoriesKnown /\ Activation!bridge \in BridgeKnown
        /\ BridgeHolds(Activation!bridge)
    BY <1>2 DEF FilesHold, DirectoriesHold, DirectoriesKnown, ShapeHolds,
                Activation!bridge
  <1>4. o \in OwnershipKnown /\ o # Missing
    <2>1. o \in OwnershipKnown
      BY <1>3 DEF Activation!TargetOwnership, BridgeKnown, OwnershipKnown,
                  Activation!bridge
    <2> QED
      BY <1>2, <2>1, FilesAre, FileAssumption
  <1>5. Activation!bridge.beforeOwnership # Missing => ns.transition \in Ours
    BY <1>1, <1>2, <1>3, FilesAre DEF Activation!TargetFinalizable, BridgeHolds,
                                      Activation!bridge, Activation!SwapName
  <1> HIDE DEF o
  <1>6. CASE ns.ownership = o /\ UNCHANGED <<ns, survivors>> /\ process' = "displaced"
    BY <1>1, <1>2, <1>4, <1>5, <1>6, Untouched
       DEF FilesHold, StepsHold, SettledHolds, Settled, BridgedHolds, Exchanges, Reverts,
           Forward, After, Last, CandidateHolds, ExchangeHolds, OthersSynced,
           CandidateRemovable, DisplacedHolds
  <1>7. ASSUME NEW outcome \in Activation!Outcome, Activation!Write([ownership |-> o], outcome),
               process' = IF outcome = "success" THEN "displaced" ELSE "unreconciled"
        PROVE  FilesHold'
    <2>1. ASSUME NEW s \in survivors, NEW p, p = Activation!Put(s, [ownership |-> o])
          PROVE  /\ p \in DirectoriesKnown /\ ShapeHolds(p) /\ FilesKept(p)
                 /\ p.transition = ns.transition /\ p.ownership = o
                 /\ p.bridge = ns.bridge
      <3>1. s \in DirectoriesKnown /\ ShapeHolds(s) /\ FilesKept(s)
        BY DEF FilesHold, DirectoriesHold
      <3>2. s.transition = ns.transition /\ s.bridge = ns.bridge
        BY <1>2 DEF Synced, Activation!ManagedDirectory
      <3>3. /\ p \in DirectoriesKnown
            /\ p.stable = s.stable /\ p.original = s.original
            /\ p.transition = s.transition
            /\ p.ownership = o /\ p.bridge = s.bridge
        BY <1>4, <2>1, <3>1, PutOwnership
      <3> QED
        BY <1>2, <1>4, <3>1, <3>2, <3>3 DEF ShapeHolds, FilesKept, Activation!bridge
    <2>2. DirectoriesHold'
      BY <1>1, <1>2, <1>7, <2>1, WriteLeaves, DirectoriesKeep DEF FilesHold
    <2>3. CountersHold'
      BY <1>1, <1>2, <1>7, WriteLeaves DEF FilesHold, CountersHold, Written
    <2>4. CASE outcome # "success"
      BY <1>7, <2>2, <2>3, <2>4, StoppedHolds DEF FilesHold
    <2>5. CASE outcome = "success"
      <3>1. /\ ns' = Activation!Put(ns, [ownership |-> o])
            /\ Synced(Activation!ManagedDirectory)'
        BY <1>2, <1>7, <2>5, WriteLeaves DEF Synced
      <3>2. /\ ns'.transition = ns.transition /\ ns'.ownership = o
            /\ Activation!bridge' = Activation!bridge
        BY <1>2, <2>1, <3>1 DEF Activation!bridge
      <3>3. Ours' = Ours
        BY <1>1 DEF Ours
      <3> QED
        BY <1>2, <1>4, <1>5, <1>7, <2>2, <2>3, <2>5, <3>1, <3>2, <3>3 DEF FilesHold,
                                                                          StepsHold,
           SettledHolds, Settled, BridgedHolds, Exchanges, Reverts, Forward, After, Last,
           CandidateHolds, ExchangeHolds, OthersSynced, CandidateRemovable, DisplacedHolds
    <2> QED
      BY <2>4, <2>5
  <1> QED
    BY <1>1, <1>6, <1>7

\* What a managed entrypoint displaced is not the user's.
LEMMA DropDisplacedKeeps ==
    ASSUME FilesHold, Activation!DropDisplaced
    PROVE  FilesHold'
  <1> DEFINE changes == [f \in {Activation!swap} |-> Missing]
  <1>1. /\ process = "displaced" /\ UNCHANGED <<authority, tokens, edits, owned>>
        /\ \/ /\ Activation!bridge.beforeOwnership = Missing \/ ns[Activation!swap] = Missing
              /\ UNCHANGED <<ns, survivors>> /\ process' = "retiring"
           \/ /\ Activation!bridge.beforeOwnership # Missing
              /\ \E outcome \in Activation!Outcome :
                    /\ Activation!Write(changes, outcome)
                    /\ process' = IF outcome = "success" THEN "retiring" ELSE "unreconciled"
    BY DEF Activation!DropDisplaced, Activation!environment, Activation!namespace,
           Activation!Goto, Activation!Unreconciled, Activation!FinalizationFails
  <1>2. /\ Activation!bridge # Missing /\ Synced(Activation!ManagedDirectory)
        /\ ns.ownership # Missing
        /\ Activation!bridge.beforeOwnership # Missing => ns.transition \in Ours
        /\ ns \in survivors /\ tokens \in Nat /\ edits \in Nat /\ owned \subseteq Written
    BY <1>1 DEF FilesHold, CountersHold, StepsHold, BridgedHolds, Last, SettledHolds,
                Settled,
       DisplacedHolds
  <1>3. ns.transition \in Ours
    BY <1>2 DEF FilesHold, DirectoriesHold, ShapeHolds, Activation!bridge
  <1>4. /\ Missing \in Ours /\ Missing \in KnownFile /\ Ours \cap Written = {}
        /\ DOMAIN changes = {Activation!swap} /\ changes[Activation!swap] = Missing
    BY <1>2, FilesAre
  <1> HIDE DEF changes
  <1>5. CASE UNCHANGED <<ns, survivors>> /\ process' = "retiring"
    BY <1>1, <1>2, <1>3, <1>5, Untouched
       DEF FilesHold, StepsHold, SettledHolds, Settled, BridgedHolds, Exchanges, Reverts,
           Forward, After, Last, CandidateHolds, ExchangeHolds, OthersSynced,
           CandidateRemovable, DisplacedHolds
  <1>6. ASSUME Activation!bridge.beforeOwnership # Missing,
               NEW outcome \in Activation!Outcome, Activation!Write(changes, outcome),
               process' = IF outcome = "success" THEN "retiring" ELSE "unreconciled"
        PROVE  FilesHold'
    <2>1. Activation!swap = "transition" /\ OtherName = "original"
      BY <1>6, SwapIs
    <2>2. ASSUME NEW s \in survivors, NEW p, p = Activation!Put(s, changes)
          PROVE  /\ p \in DirectoriesKnown /\ ShapeHolds(p) /\ FilesKept(p)
                 /\ p.transition \in Ours /\ p.ownership = ns.ownership
                 /\ p.bridge = ns.bridge
      <3>1. s \in DirectoriesKnown /\ ShapeHolds(s) /\ FilesKept(s)
        BY DEF FilesHold, DirectoriesHold
      <3>2. /\ s.transition = ns.transition /\ s.bridge = ns.bridge
            /\ s.ownership = ns.ownership
        BY <1>2 DEF Synced, Activation!ManagedDirectory
      <3>3. /\ p \in DirectoriesKnown
            /\ p.stable = s.stable /\ p.ownership = s.ownership /\ p.bridge = s.bridge
            /\ p.transition = Missing /\ p.original = s.original
        <4>1. /\ p \in DirectoriesKnown
              /\ p.stable = s.stable /\ p.ownership = s.ownership /\ p.bridge = s.bridge
              /\ p[Activation!swap] = Missing /\ p[OtherName] = s[OtherName]
          BY <1>4, <2>2, <3>1, PutSwap
        <4> QED
          BY <2>1, <4>1
      <3>4. ShapeHolds(p)
        BY <1>2, <1>4, <3>1, <3>3 DEF ShapeHolds
      <3>5. FilesKept(p)
        BY <1>2, <1>3, <1>4, <3>1, <3>2, <3>3 DEF FilesKept
      <3> QED
        BY <1>4, <3>2, <3>3, <3>4, <3>5
    <2>3. DirectoriesHold'
      BY <1>1, <1>2, <1>6, <2>2, WriteLeaves, DirectoriesKeep DEF FilesHold
    <2>4. CountersHold'
      BY <1>1, <1>2, <1>6, WriteLeaves DEF FilesHold, CountersHold, Written
    <2>5. CASE outcome # "success"
      BY <1>6, <2>3, <2>4, <2>5, StoppedHolds DEF FilesHold
    <2>6. CASE outcome = "success"
      <3>1. ns' = Activation!Put(ns, changes) /\ Synced(Activation!ManagedDirectory)'
        BY <1>2, <1>6, <2>6, WriteLeaves DEF Synced
      <3>2. /\ ns'.transition \in Ours /\ ns'.ownership # Missing
            /\ Activation!bridge' = Activation!bridge
        BY <1>2, <2>2, <3>1 DEF Activation!bridge
      <3>3. Ours' = Ours
        BY <1>1 DEF Ours
      <3> QED
        BY <1>2, <1>6, <2>3, <2>4, <2>6, <3>1, <3>2, <3>3 DEF FilesHold, StepsHold,
           SettledHolds, Settled, BridgedHolds, Exchanges, Reverts, Forward, After, Last,
           CandidateHolds, ExchangeHolds, OthersSynced, CandidateRemovable, DisplacedHolds
    <2> QED
      BY <2>5, <2>6
  <1> QED
    BY <1>1, <1>5, <1>6

\* A bridge goes when nothing of the user's needs it.
LEMMA RetireKeeps ==
    ASSUME FilesHold, NEW outcome \in Activation!Outcome,
           Activation!Write([bridge |-> Missing], outcome),
           UNCHANGED <<tokens, edits, owned>>,
           \A s \in survivors : /\ s.transition \in Ours
                                /\ s.ownership = Missing => s.original \in Ours,
           \/ process' = "unreconciled"
           \/ outcome = "success" /\ process' \in {"ready", "aborting"}
    PROVE  FilesHold'
  <1>1. /\ ns \in survivors /\ tokens \in Nat /\ edits \in Nat
        /\ Missing \in BridgeKnown \cup {Missing}
    BY DEF FilesHold, CountersHold
  <1>2. ASSUME NEW s \in survivors, NEW p, p = Activation!Put(s, [bridge |-> Missing])
        PROVE  p \in DirectoriesKnown /\ ShapeHolds(p) /\ FilesKept(p)
    <2>1. s \in DirectoriesKnown /\ ShapeHolds(s) /\ FilesKept(s)
      BY DEF FilesHold, DirectoriesHold
    <2>2. /\ p \in DirectoriesKnown
          /\ p.stable = s.stable /\ p.original = s.original /\ p.transition = s.transition
          /\ p.ownership = s.ownership /\ p.bridge = Missing
      BY <1>1, <1>2, <2>1, PutBridge
    <2> QED
      BY <2>1, <2>2 DEF ShapeHolds, FilesKept
  <1>3. DirectoriesHold'
    BY <1>1, <1>2, WriteLeaves, DirectoriesKeep DEF FilesHold
  <1>4. CountersHold'
    BY <1>1, WriteLeaves DEF FilesHold, CountersHold, Written
  <1>5. CASE process' = "unreconciled"
    BY <1>3, <1>4, <1>5, StoppedHolds DEF FilesHold
  <1>6. CASE outcome = "success" /\ process' \in {"ready", "aborting"}
    <2>1. Synced(Activation!ManagedDirectory)'
      BY <1>1, <1>6, WriteLeaves DEF Synced
    <2> QED
      BY <1>3, <1>4, <1>6, <2>1
         DEF FilesHold, StepsHold, SettledHolds, Settled, BridgedHolds, Exchanges,
             Reverts, Forward, After, Last, CandidateHolds, ExchangeHolds, OthersSynced,
             CandidateRemovable, DisplacedHolds
  <1> QED
    BY <1>5, <1>6

LEMMA RetireTargetKeeps ==
    ASSUME FilesHold, Activation!RetireTarget
    PROVE  FilesHold'
  <1>1. PICK outcome \in Activation!Outcome :
            /\ Activation!Write([bridge |-> Missing], outcome)
            /\ \/ process' = "unreconciled"
               \/ outcome = "success" /\ process' \in {"ready", "aborting"}
    BY DEF Activation!RetireTarget, Activation!Goto, Activation!Unreconciled,
           Activation!FinalizationFails
  <1>2. process = "retiring" /\ UNCHANGED <<tokens, edits, owned>>
    BY DEF Activation!RetireTarget, Activation!environment
  <1>3. /\ Synced(Activation!ManagedDirectory) /\ ns.ownership # Missing
        /\ ns.transition \in Ours
    BY <1>2 DEF FilesHold, StepsHold, SettledHolds, Settled, DisplacedHolds
  <1>4. \A s \in survivors : /\ s.transition \in Ours
                             /\ s.ownership = Missing => s.original \in Ours
    BY <1>3 DEF Synced, Activation!ManagedDirectory
  <1> QED
    BY <1>1, <1>2, <1>4, RetireKeeps

LEMMA RetirePriorKeeps ==
    ASSUME FilesHold, Activation!RetirePrior
    PROVE  FilesHold'
  <1>1. PICK outcome \in Activation!Outcome :
            /\ Activation!Write([bridge |-> Missing], outcome)
            /\ \/ process' = "unreconciled"
               \/ outcome = "success" /\ process' \in {"ready", "aborting"}
    BY DEF Activation!RetirePrior, Activation!Goto, Activation!Unreconciled
  <1>2. process = "retiringPrior" /\ UNCHANGED <<tokens, edits, owned>>
    BY DEF Activation!RetirePrior, Activation!environment
  <1>3. /\ Synced({OtherName, "ownership"}) /\ SwapIsOurs
        /\ ns.ownership = Activation!bridge.beforeOwnership /\ Activation!bridge # Missing
        /\ ns \in survivors
    BY <1>2 DEF FilesHold, CountersHold, StepsHold, OthersSynced, Reverts,
                CandidateRemovable,
       BridgedHolds
  <1>4. ShapeHolds(ns)
    BY <1>3 DEF FilesHold, DirectoriesHold
  <1>5. \A s \in survivors : /\ s.transition \in Ours
                             /\ s.ownership = Missing => s.original \in Ours
    <2>1. CASE Activation!swap = "original"
      BY <1>3, <1>4, <2>1, SwapIs DEF Synced, SwapIsOurs, ShapeHolds, OtherName,
                                      Activation!bridge
    <2>2. CASE Activation!swap = "transition"
      BY <1>3, <2>2, SwapIs DEF Synced, SwapIsOurs
    <2> QED
      BY <2>1, <2>2, SwapIs
  <1> QED
    BY <1>1, <1>2, <1>5, RetireKeeps

\* A candidate that has the swap name here has it, or none has, in what survives.
LEMMA DropCandidateKeeps ==
    ASSUME FilesHold, Activation!DropCandidate
    PROVE  FilesHold'
  <1> DEFINE changes == [f \in {Activation!swap} |-> Missing]
  <1>1. /\ process = "discarding" /\ UNCHANGED <<authority, tokens, edits, owned>>
        /\ \/ /\ Activation!PriorExact(ns) /\ ns[Activation!swap] = Missing
              /\ UNCHANGED <<ns, survivors>> /\ process' = "retiringPrior"
           \/ /\ Activation!PriorExact(ns)
              /\ ns[Activation!swap] = Activation!Loader(Activation!bridge.token)
              /\ \E outcome \in Activation!Outcome :
                    /\ Activation!Write(changes, outcome)
                    /\ process' = IF outcome = "success" THEN "retiringPrior"
                                  ELSE "unreconciled"
           \/ UNCHANGED <<ns, survivors>> /\ process' = "unreconciled"
    BY DEF Activation!DropCandidate, Activation!environment, Activation!namespace,
           Activation!Goto, Activation!Unreconciled
  <1>2. /\ Activation!bridge # Missing /\ Synced({OtherName, "ownership"})
        /\ ns.stable = Activation!bridge.before /\ ns[Activation!swap] \in Ours =>
                  SwapIsOurs
        /\ ns \in survivors /\ tokens \in Nat /\ edits \in Nat /\ owned \subseteq Written
    BY <1>1 DEF FilesHold, CountersHold, StepsHold, BridgedHolds, Reverts, OthersSynced,
       CandidateRemovable
  <1>3. Activation!PriorExact(ns) =>
               /\ ns.stable = Activation!bridge.before
               /\ ns.ownership = Activation!bridge.beforeOwnership
    BY DEF Activation!PriorExact, Activation!ExactBefore, Activation!bridge
  <1>4. /\ Missing \in Ours /\ Missing \in KnownFile /\ Ours \cap Written = {}
        /\ DOMAIN changes = {Activation!swap} /\ changes[Activation!swap] = Missing
    BY <1>2, FilesAre
  <1>5. ns[Activation!swap] = Activation!Loader(Activation!bridge.token) =>
               ns[Activation!swap] \in Ours
    <2>1. ns[Activation!swap] \in KnownFile
      BY <1>2, SwapIs DEF FilesHold, DirectoriesHold, DirectoriesKnown
    <2>2. Activation!Loader(Activation!bridge.token) \notin Written
      BY DEF Activation!Loader, Activation!UserFile, Written
    <2> QED
      BY <2>1, <2>2 DEF KnownFile
  <1> HIDE DEF changes
  <1>6. CASE UNCHANGED <<ns, survivors>> /\ process' = "unreconciled"
    BY <1>1, <1>6, Untouched, StoppedHolds DEF FilesHold
  <1>7. CASE /\ Activation!PriorExact(ns) /\ ns[Activation!swap] = Missing
             /\ UNCHANGED <<ns, survivors>> /\ process' = "retiringPrior"
    BY <1>1, <1>2, <1>3, <1>4, <1>7, Untouched
       DEF FilesHold, StepsHold, SettledHolds, Settled, BridgedHolds, Exchanges, Reverts,
           Forward, After, Last, CandidateHolds, ExchangeHolds, OthersSynced,
           CandidateRemovable, DisplacedHolds
  <1>8. ASSUME Activation!PriorExact(ns),
               ns[Activation!swap] = Activation!Loader(Activation!bridge.token),
               NEW outcome \in Activation!Outcome, Activation!Write(changes, outcome),
               process' = IF outcome = "success" THEN "retiringPrior" ELSE "unreconciled"
        PROVE  FilesHold'
    <2>1. SwapIsOurs
      BY <1>2, <1>3, <1>5, <1>8
    <2>2. ASSUME NEW s \in survivors, NEW p, p = Activation!Put(s, changes)
          PROVE  /\ p \in DirectoriesKnown /\ ShapeHolds(p) /\ FilesKept(p)
                 /\ p[Activation!swap] = Missing /\ p.ownership = ns.ownership
                 /\ p.bridge = s.bridge
      <3>1. /\ s \in DirectoriesKnown /\ ShapeHolds(s) /\ FilesKept(s)
            /\ s[Activation!swap] \in Ours
        BY <2>1 DEF FilesHold, DirectoriesHold, SwapIsOurs
      <3>2. /\ p \in DirectoriesKnown
            /\ p.stable = s.stable /\ p.ownership = s.ownership /\ p.bridge = s.bridge
            /\ p[Activation!swap] = Missing /\ p[OtherName] = s[OtherName]
        BY <1>4, <2>2, <3>1, PutSwap
      <3>3. ShapeHolds(p)
        BY <1>4, <3>1, <3>2, SwapIs DEF ShapeHolds, OtherName
      <3>4. FilesKept(p)
        <4>1. owned \subseteq {s.stable, s[Activation!swap], s[OtherName]}
          BY <3>1, SwapIs DEF FilesKept
        <4>2. s[Activation!swap] \notin owned
          BY <1>2, <1>4, <3>1
        <4> QED
          BY <3>2, <4>1, <4>2, SwapIs DEF FilesKept
      <3>5. s.ownership = ns.ownership
        BY <1>2 DEF Synced
      <3> QED
        BY <3>2, <3>3, <3>4, <3>5
    <2>3. DirectoriesHold'
      BY <1>1, <1>2, <1>8, <2>2, WriteLeaves, DirectoriesKeep DEF FilesHold
    <2>4. CountersHold'
      BY <1>1, <1>2, <1>8, WriteLeaves DEF FilesHold, CountersHold, Written
    <2>5. CASE outcome # "success"
      BY <1>8, <2>3, <2>4, <2>5, StoppedHolds DEF FilesHold
    <2>6. CASE outcome = "success"
      <3>1. ns' = Activation!Put(ns, changes) /\ Synced(Activation!ManagedDirectory)'
        BY <1>2, <1>8, <2>6, WriteLeaves DEF Synced
      <3>2. /\ ns'[Activation!swap] = Missing /\ ns'.ownership = ns.ownership
            /\ Activation!bridge' = Activation!bridge
        BY <1>2, <2>2, <3>1 DEF Activation!bridge
      <3>3. Activation!swap' = Activation!swap /\ OtherName' = OtherName /\ Ours' = Ours
        BY <1>1, <3>2 DEF Ours, Activation!swap, OtherName
      <3>4. /\ Activation!swap \in Activation!ManagedDirectory
            /\ OtherName \in Activation!ManagedDirectory
            /\ "ownership" \in Activation!ManagedDirectory
        BY SwapIs DEF Activation!ManagedDirectory
      <3>5. SwapIsOurs' /\ Synced({OtherName, "ownership"})'
        BY <1>4, <3>1, <3>2, <3>3, <3>4 DEF Synced, SwapIsOurs
      <3> QED
        BY <1>2, <1>3, <1>8, <2>3, <2>4, <2>6, <3>2, <3>3, <3>5 DEF FilesHold,
                                                                    StepsHold,
           SettledHolds, Settled, BridgedHolds, Exchanges, Reverts, Forward, After, Last,
           CandidateHolds, ExchangeHolds, OthersSynced, CandidateRemovable, DisplacedHolds
    <2> QED
      BY <2>5, <2>6
  <1> QED
    BY <1>1, <1>6, <1>7, <1>8

-----------------------------------------------------------------------------
(* Every step *)

LEMMA InitFiles == (Activation!Init) => FilesInv
  <1> SUFFICES ASSUME Activation!Init, owned # {}
               PROVE  FilesHold
    BY DEF FilesInv
  <1>1. /\ ns = [stable |-> loaded, original |-> Missing, transition |-> Missing,
                ownership |-> Missing, bridge |-> Missing]
        /\ survivors = {ns} /\ tokens = 0 /\ edits = 0 /\ process = "down"
        /\ owned = {loaded} \ {Missing} /\ loaded \in InitialFiles
    BY DEF Activation!Init
  <1>2. loaded = Activation!UserFile(0) /\ loaded # Missing
    BY <1>1, FileAssumption
  <1>3. CountersHold
    BY <1>1, <1>2 DEF CountersHold, Written
  <1>4. DirectoriesHold
    <2>1. loaded \in KnownFile /\ Missing \in Ours /\ Missing \in KnownFile
      BY <1>1, <1>2, FilesAre DEF KnownFile, Written
    <2> QED
      BY <1>1, <1>2, <2>1 DEF DirectoriesHold, DirectoriesKnown, ShapeHolds, FilesKept
  <1>5. StepsHold
    BY <1>1 DEF StepsHold, SettledHolds, Settled, BridgedHolds, Exchanges, Reverts,
                Forward,
         After, Last, CandidateHolds, ExchangeHolds, OthersSynced, CandidateRemovable,
         DisplacedHolds
  <1> QED
    BY <1>3, <1>4, <1>5 DEF FilesHold

LEMMA PublisherKeeps ==
    ASSUME FilesHold, Activation!Publish \/ Activation!Finalize \/ Activation!Rollback
    PROVE  FilesHold'
  <1>1. CASE Activation!Publish
    BY <1>1, PublishBridgeKeeps, LooksKeep, StageLoaderKeeps, PublishReadyKeeps,
       ExchangeEntrypointKeeps, RestoreDisplacedKeeps, SyncExchangeKeeps
       DEF Activation!Publish
  <1>2. CASE Activation!Finalize
    BY <1>2, PromoteOwnershipKeeps, RollbackLooksKeep, DropDisplacedKeeps,
       RetireTargetKeeps
       DEF Activation!Finalize
  <1>3. CASE Activation!Rollback
    BY <1>3, RollbackLooksKeep, SwitchBackKeeps, SyncSwitchKeeps, DropCandidateKeeps,
       RetirePriorKeeps DEF Activation!Rollback
  <1> QED
    BY <1>1, <1>2, <1>3

LEMMA ActivationStepKeeps ==
    ASSUME ~MayRemove, FilesInv, Activation!NextWhereKept
    PROVE  FilesInv'
  <1>1. CASE owned = {}
    <2>1. UNCHANGED owned
      BY <1>1
         DEF Activation!NextWhereKept, Activation!Service, Activation!Publish,
             Activation!Finalize, Activation!Rollback, Activation!environment, vars,
             Activation!Prepare, Activation!Activate, Activation!PublishBridge,
             Activation!PublishRefused, Activation!StageLoader, Activation!PublishReady,
             Activation!ProbeEntrypoint, Activation!ExchangeEntrypoint,
             Activation!VerifyExchange, Activation!RestoreDisplaced,
             Activation!SyncExchange, Activation!ReloadTarget, Activation!ProveTarget,
             Activation!CommitApply, Activation!PromoteOwnership,
             Activation!TargetRefused, Activation!DropDisplaced, Activation!RetireTarget,
             Activation!BeginRollback, Activation!SwitchBack, Activation!SyncSwitch,
             Activation!ReloadPrior, Activation!ProvePrior, Activation!DropCandidate,
             Activation!RetirePrior, Activation!AbortApply, Activation!Initialize,
             Activation!ReconcileStartup, Activation!Crash, Activation!PowerLoss,
             Activation!HyprlandLoads
    <2> QED
      BY <1>1, <2>1 DEF FilesInv
  <1>2. CASE FilesHold
    BY <1>2, PrepareKeeps, LooksKeep, PublisherKeeps, RollbackLooksKeep, InitializeKeeps,
       PowerLossKeeps, EditEntrypointKeeps
       DEF Activation!NextWhereKept, Activation!Service, FilesInv
  <1> QED
    BY <1>1, <1>2 DEF FilesInv

LEMMA ActivationRests ==
    ASSUME FilesInv, UNCHANGED activation
    PROVE  FilesInv'
  <1>1. UNCHANGED <<ns, survivors, tokens, edits, owned, process, authority>>
    BY DEF activation
  <1>2. CASE owned = {}
    BY <1>1, <1>2 DEF FilesInv
  <1>3. CASE owned # {}
    <2>1. FilesHold /\ Activation!target' = Activation!target
      BY <1>1, <1>3 DEF FilesInv, Activation!target
    <2>2. StepsHold'
      BY <1>1, <2>1, Untouched
         DEF FilesHold, StepsHold, SettledHolds, Settled, BridgedHolds, Exchanges,
             Reverts, Forward, After, Last, CandidateHolds, ExchangeHolds, OthersSynced,
             CandidateRemovable, DisplacedHolds
    <2> QED
      BY <1>1, <2>1, <2>2, Untouched DEF FilesHold, FilesInv
  <1> QED
    BY <1>2, <1>3

\* A cleanup that finds the user's file in place of its own leaves it.
LEMMA GenerationStepKeeps ==
    ASSUME trampled = FALSE, Generations!Next
    PROVE  trampled' = FALSE
  <1> USE DEF Generations!Rest
  <1>1. CASE \E ok \in BOOLEAN : Generations!Startup(ok)
    <2>1. PICK ok \in BOOLEAN : Generations!Startup(ok)
      BY <1>1
    <2>2. CASE Generations!WriteCustom(ok)
      <3>1. /\ custom = "user" => custom' = "user"
            /\ trampled' = (trampled \/ (custom = "user" /\ custom' # "user"))
        BY <2>2 DEF Generations!WriteCustom
      <3> QED
        BY <3>1, Zenon
    <2>3. CASE ~Generations!WriteCustom(ok)
      BY <2>1, <2>3 DEF Generations!Startup, Generations!Initialize, Generations!Swept,
         Generations!CreateCustom
    <2> QED
      BY <2>2, <2>3
  <1>2. CASE \E ok \in BOOLEAN :
               Generations!Publication(ok) \/ Generations!SyncRemoval(ok)
    <2>1. PICK ok \in BOOLEAN : Generations!Publication(ok) \/ Generations!SyncRemoval(ok)
      BY <1>2
    <2>2. UNCHANGED trampled
      BY <2>1 DEF Generations!Publication, Generations!MakeStaging,
                  Generations!MakeModules,
         Generations!SealModules, Generations!SealStaging, Generations!Rename,
         Generations!SyncPublished, Generations!SyncRemoval
    <2> QED
      BY <2>2
  <1>3. CASE \E n \in Nonce : Generations!Sweep(n) \/ Generations!Publish(n)
    BY <1>3 DEF Generations!Sweep, Generations!Publish
  <1>4. CASE \E i \in DOMAIN Generations!Files, result \in {"torn", "whole"} :
                 Generations!WriteFile(i, result)
    <2>1. PICK i \in DOMAIN Generations!Files, result \in {"torn", "whole"} :
              Generations!WriteFile(i, result)
      BY <1>4
    <2>2. UNCHANGED trampled
      BY <2>1 DEF Generations!WriteFile
    <2> QED
      BY <2>2
  <1>5. CASE \/ Generations!RemoveEntry \/ Generations!RemoveRoot \/ Generations!RemovalFails
             \/ Generations!UserWritesCustom
    BY <1>5 DEF Generations!RemoveEntry, Generations!RemoveRoot,
                Generations!RemovalFails,
       Generations!UserWritesCustom
  <1>6. CASE Generations!Crash \/ Generations!PowerLoss
    BY <1>6 DEF Generations!Crash, Generations!PowerLoss, Generations!Stop
  <1> QED
    BY <1>1, <1>2, <1>3, <1>4, <1>5, <1>6 DEF Generations!Next

\* Where hyprland.lua exists, or no editor and no power loss meets its absence,
\* nothing that the user wrote in it is lost: not to the exchange, to the removal of
\* what was displaced or staged, nor to a power loss in between; and what is in
\* user-custom.lua stays when it cannot be created (entrypoint_publisher.cpp,
\* initialize).
THEOREM UserFilesAlwaysPreserved ==
    ASSUME ~MayRemove
    PROVE  Spec => []UserFilesPreserved
  <1> DEFINE Inv == FilesInv /\ trampled = FALSE
  <1>1. Init => Inv
    BY InitFiles DEF Init, Generations!Init
  <1>2. ASSUME Inv, [Next]_vars PROVE Inv'
    <2>1. CASE OnlyActivation /\ Activation!NextWhereKept
      <3>1. FilesInv'
        BY <1>2, <2>1, ActivationStepKeeps
      <3>2. UNCHANGED trampled
        BY <2>1 DEF OnlyActivation, stores, generations
      <3> QED
        BY <1>2, <3>1, <3>2
    <2>2. CASE OnlyGenerations /\ Generations!Next
      <3>1. UNCHANGED activation
        BY <2>2 DEF OnlyGenerations, parts
      <3> QED
        BY <1>2, <2>2, <3>1, ActivationRests, GenerationStepKeeps
    <2>3. CASE \/ OnlySettings \/ OnlyVisual \/ OnlyCaptures \/ OnlyPackageStore
               \/ OnlyReloads \/ OnlyDocument \/ UNCHANGED vars
      <3>1. UNCHANGED activation /\ UNCHANGED trampled
        BY <2>3 DEF OnlySettings, OnlyVisual, OnlyCaptures, OnlyPackageStore,
                    OnlyReloads,
                    OnlyDocument, vars, parts, stores, generations
      <3> QED
        BY <1>2, <3>1, ActivationRests
    <2> QED
      BY <1>2, <2>1, <2>2, <2>3 DEF Next
  <1>3. Inv => UserFilesPreserved
    <2> SUFFICES ASSUME Inv
                 PROVE  Activation!UserFilesPreserved /\ Generations!CustomKept
      BY DEF UserFilesPreserved
    <2>1. Activation!UserFilesPreserved
      BY DEF Activation!UserFilesPreserved, FilesInv, FilesHold, DirectoriesHold,
             FilesKept
    <2>2. Generations!CustomKept
      BY DEF Generations!CustomKept
    <2> QED
      BY <2>1, <2>2
  <1> HIDE DEF Inv
  <1> QED
    BY <1>1, <1>2, <1>3, PTL DEF Spec

-----------------------------------------------------------------------------
(* The decision: what is decided stays the entrypoint *)

NamesHold == ns \in survivors /\ \A s \in survivors : DOMAIN s = Names

CountsHold ==
    /\ tokens \in 0..MaxToken
    /\ authority \in [committed: 0..tokens, pending: 0..tokens,
                      phase: {"idle", "prepared", "maybe", "committing"}]

\* Until the decision a transition is newer than what is committed, and the bridge
\* is its own.
Bridged == Forward \cup {"verifying", "restoring", "syncing"} \cup After
Undecided ==
    /\ process \in {"prepared", "publishing"} \cup Bridged =>
           authority.phase = "prepared" /\ authority.committed < Activation!target
    /\ process \in Bridged =>
           /\ DOMAIN Activation!bridge = {"phase", "token", "before", "beforeOwnership"}
           /\ Activation!bridge.token = Activation!target
    /\ process = "reconciling" => authority.phase = "idle"

\* What goes to the entrypoint is the new loader; what is taken away from it is
\* not a decided one.
EntrypointHolds ==
    /\ process \in {"staged", "probing", "exchanging"} =>
           ns[Activation!swap] = Activation!Loader(Activation!target)
    /\ process \in {"rollback", "switching"} =>
           Activation!bridge = Missing \/ ~Activation!Decided(Activation!bridge.token)
    /\ process \in {"restoring", "switching"} =>
           \A t \in Activation!Token :
               Activation!Decided(t) => ns.stable # Activation!Loader(t)

DecisionInv == NamesHold /\ CountsHold /\ Undecided /\ EntrypointHolds

LEMMA WriteNamed ==
    ASSUME NamesHold, NEW changes, NEW outcome \in Activation!Outcome,
           Activation!Write(changes, outcome)
    PROVE  /\ NamesHold'
           /\ ns' = IF outcome = "notPublished" THEN ns ELSE Activation!Put(ns, changes)
           /\ \A f \in Names \ DOMAIN changes : ns'[f] = ns[f]
           /\ outcome # "notPublished" =>
                  \A f \in Names \cap DOMAIN changes : ns'[f] = changes[f]
  <1>1. \A s : DOMAIN Activation!Put(s, changes) = DOMAIN s
    BY DEF Activation!Put
  <1>2. /\ ns' \in survivors'
        /\ ns' = IF outcome = "notPublished" THEN ns ELSE Activation!Put(ns, changes)
        /\ outcome = "notPublished" => survivors' = survivors
        /\ \A p \in survivors' : p \in survivors \/ \E s \in survivors :
                  p = Activation!Put(s, changes)
    BY WriteLeaves DEF NamesHold
  <1>3. NamesHold'
    BY <1>1, <1>2 DEF NamesHold
  <1>4. \A f \in Names : Activation!Put(ns, changes)[f]
            = IF f \in DOMAIN changes THEN changes[f] ELSE ns[f]
    BY DEF Activation!Put, NamesHold
  <1> QED
    BY <1>2, <1>3, <1>4

LEMMA ChangeNamed ==
    ASSUME NamesHold, NEW changes, Activation!Change(changes)
    PROVE  /\ NamesHold'
           /\ \A f \in Names : ns'[f] = IF f \in DOMAIN changes THEN changes[f] ELSE ns[f]
  <1>1. \A s : DOMAIN Activation!Put(s, changes) = DOMAIN s
    BY DEF Activation!Put
  <1>2. NamesHold'
    BY <1>1 DEF NamesHold, Activation!Change
  <1> QED
    BY <1>2 DEF NamesHold, Activation!Change, Activation!Put

LEMMA ExchangeNamed ==
    ASSUME NamesHold,
           Activation!Exchange(Activation!swap) \/ Activation!ExchangeDurably(Activation!swap)
    PROVE  /\ NamesHold'
           /\ ns'.stable = ns[Activation!swap] /\ ns'.bridge = ns.bridge
  <1> DEFINE changes == Activation!Exchanged(Activation!swap)
  <1>1. /\ DOMAIN changes = {"stable", Activation!swap}
        /\ changes["stable"] = ns[Activation!swap]
    BY DEF Activation!Exchanged
  <1>2. Activation!swap \in {"original", "transition"}
    BY SwapIs
  <1>3. CASE Activation!Exchange(Activation!swap)
    <2>1. Activation!Change(changes)
      BY <1>3 DEF Activation!Exchange
    <2> HIDE DEF changes
    <2> QED
      BY <1>1, <1>2, <2>1, ChangeNamed DEF Names
  <1>4. CASE Activation!ExchangeDurably(Activation!swap)
    <2>1. ns' = Activation!Put(ns, changes) /\ survivors' = {ns'}
      BY <1>4 DEF Activation!ExchangeDurably
    <2> HIDE DEF changes
    <2> QED
      BY <1>1, <1>2, <2>1 DEF NamesHold, Names, Activation!Put
  <1> QED
    BY <1>3, <1>4

LEMMA SyncNamed ==
    ASSUME NamesHold, NEW names, Activation!Sync(names) \/ UNCHANGED <<ns, survivors>>
    PROVE  NamesHold' /\ ns' = ns
  BY DEF NamesHold, Activation!Sync, Activation!Agreeing

LEMMA LoadersDiffer ==
    ASSUME NEW t \in Activation!Token
    PROVE  /\ Activation!Loader(t) # Missing
           /\ \A u : Activation!Loader(t) = Activation!Loader(u) => t = u
           /\ \A e : Activation!Loader(t) # Activation!UserFile(e)
  <1>1. Activation!Loader(t) \in EntrypointFile
    BY TokenAssumption DEF Activation!Token, Activation!Loader, EntrypointFile
  <1> QED
    BY <1>1, FileAssumption DEF Activation!Loader, Activation!UserFile

\* Steps after which the service relies on nothing that is said here.
LEMMA Unclaimed ==
    ASSUME process' \notin {"prepared", "publishing", "reconciling", "rollback", "switching"}
                               \cup Bridged'
    PROVE  Undecided' /\ EntrypointHolds'
  BY DEF Undecided, EntrypointHolds, Bridged, Forward, After

\* Steps that change neither the directories nor the authority.
LEMMA DecisionLooks ==
    ASSUME DecisionInv, UNCHANGED <<ns, survivors, authority, tokens>>
    PROVE  /\ NamesHold' /\ CountsHold'
           /\ Activation!bridge' = Activation!bridge /\ Activation!swap' = Activation!swap
           /\ Activation!target' = Activation!target
           /\ \A t : Activation!Decided(t)' <=> Activation!Decided(t)
  BY DEF DecisionInv, NamesHold, CountsHold, Activation!bridge, Activation!swap,
         Activation!SwapName, Activation!target, Activation!Decided

LEMMA UndecidedTarget ==
    ASSUME DecisionInv, process \in Bridged
    PROVE  /\ ~Activation!Decided(Activation!bridge.token)
           /\ Activation!bridge.token = Activation!target
           /\ Activation!target \in Activation!Token
  <1>1. /\ authority.phase = "prepared" /\ authority.committed < Activation!target
        /\ Activation!bridge.token = Activation!target
    BY DEF DecisionInv, Undecided
  <1>2. authority.committed \in Nat /\ Activation!target \in 0..MaxToken
    BY TokenAssumption DEF DecisionInv, CountsHold, Activation!target
  <1> QED
    BY <1>1, <1>2, TokenAssumption DEF Activation!Decided, Activation!Token

LEMMA DecisionPrepareKeeps ==
    ASSUME DecisionInv, Activation!Prepare
    PROVE  DecisionInv'
  <1>1. /\ UNCHANGED <<ns, survivors>> /\ tokens < MaxToken /\ tokens' = tokens + 1
        /\ authority' = [authority EXCEPT !.pending = tokens + 1, !.phase = "prepared"]
        /\ process' = "prepared"
    BY DEF Activation!Prepare, Activation!Goto, Activation!namespace
  <1>2. tokens \in 0..MaxToken /\ authority.committed \in 0..tokens
    BY DEF DecisionInv, CountsHold
  <1>3. CountsHold'
    <2>1. tokens + 1 \in 0..MaxToken /\ tokens \in Nat
      BY <1>1, <1>2, TokenAssumption
    <2>2. 0..tokens \subseteq 0..(tokens + 1) /\ tokens + 1 \in 0..(tokens + 1)
      BY <2>1
    <2>3. authority' \in [committed: 0..(tokens + 1), pending: 0..(tokens + 1),
                          phase: {"idle", "prepared", "maybe", "committing"}]
      BY <1>1, <2>2 DEF DecisionInv, CountsHold
    <2> QED
      BY <1>1, <2>1, <2>3 DEF CountsHold
  <1>4. authority'.phase = "prepared" /\ authority'.committed < authority'.pending
    BY <1>1, <1>2 DEF DecisionInv, CountsHold
  <1> QED
    BY <1>1, <1>3, <1>4
       DEF DecisionInv, NamesHold, Undecided, EntrypointHolds, Activation!target, Bridged,
           Forward, After

LEMMA DecisionLooksKeep ==
    ASSUME DecisionInv,
           \/ Activation!Activate \/ Activation!PublishRefused \/ Activation!ProbeEntrypoint
           \/ Activation!ReloadTarget \/ Activation!ProveTarget
           \/ Activation!VerifyExchange
    PROVE  DecisionInv'
  <1>1. UNCHANGED <<ns, survivors, authority, tokens>>
    BY DEF Activation!Activate, Activation!PublishRefused, Activation!ProbeEntrypoint,
           Activation!ReloadTarget, Activation!ProveTarget, Activation!VerifyExchange,
           Activation!namespace
  <1>2. CASE Activation!Activate \/ Activation!PublishRefused
    <2>1. /\ process \in {"prepared", "publishing"}
          /\ process' \in {"publishing", "aborting"}
      BY <1>2 DEF Activation!Activate, Activation!PublishRefused, Activation!Goto
    <2> QED
      BY <1>1, <2>1, DecisionLooks
         DEF DecisionInv, Undecided, EntrypointHolds, Bridged, Forward, After
  <1>3. CASE Activation!ProbeEntrypoint
    <2>1. process = "probing" /\ process' \in {"exchanging", "rollback"}
      BY <1>3 DEF Activation!ProbeEntrypoint, Activation!Goto
    <2>2. ~Activation!Decided(Activation!bridge.token)
      BY <2>1, UndecidedTarget DEF Bridged, Forward
    <2> QED
      BY <1>1, <2>1, <2>2, DecisionLooks
         DEF DecisionInv, Undecided, EntrypointHolds, Bridged, Forward, After
  <1>4. CASE Activation!ReloadTarget \/ Activation!ProveTarget
    <2>1. /\ process \in {"reloading", "proving"}
          /\ process' \in {"proving", "committing", "rollback"}
      BY <1>4 DEF Activation!ReloadTarget, Activation!ProveTarget, Activation!Goto
    <2>2. ~Activation!Decided(Activation!bridge.token)
      BY <2>1, UndecidedTarget DEF Bridged, After
    <2> QED
      BY <1>1, <2>1, <2>2, DecisionLooks
         DEF DecisionInv, Undecided, EntrypointHolds, Bridged, Forward, After
  <1>5. CASE Activation!VerifyExchange
    <2>1. process = "verifying" /\ process' \in {"syncing", "restoring", "rollback"}
      BY <1>5 DEF Activation!VerifyExchange, Activation!Goto
    <2>2. ~Activation!Decided(Activation!bridge.token)
      BY <2>1, UndecidedTarget DEF Bridged
    <2>3. process' = "restoring" =>
              ns.stable = Activation!Loader(Activation!bridge.token)
      BY <1>5, Zenon DEF Activation!VerifyExchange, Activation!Goto, Activation!ExactTarget,
                  Activation!bridge
    <2>4. process' = "restoring" =>
              \A t \in Activation!Token :
                  Activation!Decided(t) => ns.stable # Activation!Loader(t)
      BY <2>2, <2>3, LoadersDiffer
    <2> QED
      BY <1>1, <2>1, <2>2, <2>4, DecisionLooks
         DEF DecisionInv, Undecided, EntrypointHolds, Bridged, Forward, After
  <1> QED
    BY <1>2, <1>3, <1>4, <1>5

LEMMA DecisionPublishKeeps ==
    ASSUME DecisionInv, Activation!PublishBridge
    PROVE  DecisionInv' /\ ns'.stable = ns.stable
  <1> DEFINE b == [phase |-> "Staging", token |-> Activation!target, before |-> ns.stable,
                   beforeOwnership |-> ns.ownership]
             changes == [bridge |-> b]
  <1>1. PICK outcome \in Activation!Outcome :
            /\ Activation!Write(changes, outcome)
            /\ outcome = "success" => process' = "staging"
            /\ outcome = "notPublished" => process' = "aborting"
            /\ outcome = "notDurable" => process' = "rollback"
    BY DEF Activation!PublishBridge, Activation!Goto, Activation!Outcome
  <1>2. process = "publishing" /\ UNCHANGED <<authority, tokens>>
    BY DEF Activation!PublishBridge
  <1>3. DOMAIN changes = {"bridge"} /\ changes["bridge"] = b
    OBVIOUS
  <1>4. /\ DOMAIN b = {"phase", "token", "before", "beforeOwnership"}
        /\ b.token = Activation!target
    OBVIOUS
  <1> HIDE DEF b, changes
  <1>5. NamesHold' /\ ns'.stable = ns.stable
    BY <1>1, <1>3, WriteNamed DEF Names, DecisionInv
  <1>6. outcome # "notPublished" => ns'.bridge = b
    BY <1>1, <1>3, WriteNamed DEF Names, DecisionInv
  <1>7. CountsHold'
    BY <1>2 DEF DecisionInv, CountsHold
  <1>8. /\ authority.phase = "prepared" /\ authority.committed < Activation!target
        /\ authority.committed \in Nat /\ Activation!target \in Nat
    BY <1>2, TokenAssumption DEF DecisionInv, Undecided, CountsHold, Activation!target
  <1>9. /\ ~Activation!Decided(Activation!target)'
        /\ authority'.phase = "prepared" /\ authority'.committed < authority'.pending
    BY <1>2, <1>8 DEF Activation!Decided, Activation!target
  <1>10. process' \in {"staging", "aborting", "rollback"}
    BY <1>1 DEF Activation!Outcome
  <1>11. process' # "aborting" => ns'.bridge = b
    BY <1>1, <1>6
  <1>12. Undecided' /\ EntrypointHolds'
    <2>1. CASE process' = "aborting"
      BY <2>1, Unclaimed DEF Bridged, Forward, After
    <2>2. CASE process' = "staging"
      BY <1>2, <1>4, <1>9, <1>11, <2>2
         DEF Undecided, EntrypointHolds, Activation!bridge, Activation!target
    <2>3. CASE process' = "rollback"
      BY <1>2, <1>4, <1>8, <1>9, <1>11, <2>3
         DEF Undecided, EntrypointHolds, Activation!bridge, Activation!target, Bridged, Forward,
             After, Activation!Decided
    <2> QED
      BY <1>10, <2>1, <2>2, <2>3
  <1> QED
    BY <1>5, <1>7, <1>12 DEF DecisionInv

LEMMA DecisionStageKeeps ==
    ASSUME DecisionInv, Activation!StageLoader
    PROVE  DecisionInv' /\ ns'.stable = ns.stable
  <1> DEFINE changes == [f \in {Activation!swap} |-> Activation!Loader(Activation!target)]
  <1>1. PICK outcome \in Activation!Outcome :
            /\ Activation!Write(changes, outcome)
            /\ process' = IF outcome = "success" THEN "staged" ELSE "rollback"
    BY DEF Activation!StageLoader, Activation!Goto
  <1>2. process = "staging" /\ UNCHANGED <<authority, tokens>>
    BY DEF Activation!StageLoader
  <1>3. /\ DOMAIN changes = {Activation!swap}
        /\ changes[Activation!swap] = Activation!Loader(Activation!target)
    OBVIOUS
  <1> HIDE DEF changes
  <1>4. Activation!swap \in {"original", "transition"}
    BY SwapIs
  <1>5. NamesHold' /\ ns'.stable = ns.stable /\ ns'.bridge = ns.bridge
    BY <1>1, <1>3, <1>4, WriteNamed DEF Names, DecisionInv
  <1>6. outcome = "success" =>
            ns'[Activation!swap] = Activation!Loader(Activation!target)
    BY <1>1, <1>3, <1>4, WriteNamed DEF Names, DecisionInv
  <1>7. CountsHold'
    BY <1>2 DEF DecisionInv, CountsHold
  <1>8. ~Activation!Decided(Activation!bridge.token)
    BY <1>2, UndecidedTarget DEF Bridged, Forward
  <1>9. /\ Activation!bridge' = Activation!bridge /\ Activation!swap' = Activation!swap
        /\ Activation!target' = Activation!target
        /\ \A t : Activation!Decided(t)' <=> Activation!Decided(t)
    BY <1>2, <1>5 DEF Activation!bridge, Activation!swap,
         Activation!SwapName, Activation!target, Activation!Decided
  <1>10. Undecided' /\ EntrypointHolds'
    BY <1>1, <1>2, <1>6, <1>8, <1>9
       DEF DecisionInv, Undecided, EntrypointHolds, Bridged, Forward, After
  <1> QED
    BY <1>5, <1>7, <1>10 DEF DecisionInv

LEMMA DecisionReadyKeeps ==
    ASSUME DecisionInv, Activation!PublishReady
    PROVE  DecisionInv' /\ ns'.stable = ns.stable
  <1> DEFINE b == [Activation!bridge EXCEPT !.phase = "Ready"]
             changes == [bridge |-> b]
  <1>1. PICK outcome \in Activation!Outcome :
            /\ Activation!Write(changes, outcome)
            /\ process' = IF outcome = "success" THEN "probing" ELSE "rollback"
    BY DEF Activation!PublishReady, Activation!Goto
  <1>2. process = "staged" /\ UNCHANGED <<authority, tokens>>
    BY DEF Activation!PublishReady
  <1>3. DOMAIN changes = {"bridge"} /\ changes["bridge"] = b
    OBVIOUS
  <1>4. /\ DOMAIN Activation!bridge = {"phase", "token", "before", "beforeOwnership"}
        /\ ns[Activation!swap] = Activation!Loader(Activation!target)
    BY <1>2 DEF DecisionInv, Undecided, EntrypointHolds, Bridged, Forward
  <1>5. /\ DOMAIN b = DOMAIN Activation!bridge /\ b.token = Activation!bridge.token
        /\ b.beforeOwnership = Activation!bridge.beforeOwnership
    BY <1>4
  <1> HIDE DEF b, changes
  <1>6. /\ NamesHold' /\ ns'.stable = ns.stable
        /\ ns'.original = ns.original /\ ns'.transition = ns.transition
        /\ ns'.bridge \in {ns.bridge, b}
    BY <1>1, <1>3, WriteNamed DEF Names, DecisionInv
  <1>7. CountsHold'
    BY <1>2 DEF DecisionInv, CountsHold
  <1>8. ~Activation!Decided(Activation!bridge.token)
    BY <1>2, UndecidedTarget DEF Bridged, Forward
  <1>9. /\ DOMAIN Activation!bridge' = DOMAIN Activation!bridge
        /\ Activation!bridge'.token = Activation!bridge.token
        /\ Activation!bridge'.beforeOwnership = Activation!bridge.beforeOwnership
    BY <1>5, <1>6 DEF Activation!bridge
  <1>10. /\ Activation!swap' = Activation!swap
         /\ Activation!target' = Activation!target
         /\ \A t : Activation!Decided(t)' <=> Activation!Decided(t)
    BY <1>2, <1>9 DEF Activation!swap, Activation!SwapName, Activation!target,
                      Activation!Decided
  <1>11. ns'[Activation!swap] = ns[Activation!swap]
    BY <1>6, SwapIs
  <1>12. Undecided' /\ EntrypointHolds'
    BY <1>1, <1>2, <1>4, <1>8, <1>9, <1>10, <1>11
       DEF DecisionInv, Undecided, EntrypointHolds, Bridged, Forward, After
  <1> QED
    BY <1>6, <1>7, <1>12 DEF DecisionInv

LEMMA DecisionExchangeKeeps ==
    ASSUME DecisionInv, Activation!ExchangeEntrypoint
    PROVE  /\ DecisionInv'
           /\ ns'.stable = ns.stable \/ (/\ ns'.stable = Activation!Loader(Activation!target)
                                         /\ process \in Bridged)
  <1>1. /\ process = "exchanging" /\ process' \in {"verifying", "rollback"}
        /\ UNCHANGED <<authority, tokens>>
    BY DEF Activation!ExchangeEntrypoint, Activation!Goto
  <1>2. process \in Bridged
    BY <1>1 DEF Bridged, Forward
  <1>3. ns[Activation!swap] = Activation!Loader(Activation!target)
    BY <1>1 DEF DecisionInv, EntrypointHolds
  <1>4. Activation!Exchange(Activation!swap) \/ UNCHANGED <<ns, survivors>>
    BY DEF Activation!ExchangeEntrypoint, Activation!namespace
  <1>5. /\ NamesHold' /\ ns'.bridge = ns.bridge
        /\ ns'.stable \in {ns.stable, ns[Activation!swap]}
    <2>1. CASE Activation!Exchange(Activation!swap)
      BY <2>1, ExchangeNamed DEF DecisionInv
    <2>2. CASE UNCHANGED <<ns, survivors>>
      BY <2>2 DEF DecisionInv, NamesHold
    <2> QED
      BY <1>4, <2>1, <2>2
  <1>6. CountsHold'
    BY <1>1 DEF DecisionInv, CountsHold
  <1>7. ~Activation!Decided(Activation!bridge.token)
    BY <1>2, UndecidedTarget
  <1>8. /\ Activation!bridge' = Activation!bridge
        /\ Activation!target' = Activation!target
        /\ \A t : Activation!Decided(t)' <=> Activation!Decided(t)
    BY <1>1, <1>5 DEF Activation!bridge, Activation!target, Activation!Decided
  <1>9. Undecided' /\ EntrypointHolds'
    BY <1>1, <1>7, <1>8
       DEF DecisionInv, Undecided, EntrypointHolds, Bridged, Forward, After
  <1> QED
    BY <1>2, <1>3, <1>5, <1>6, <1>9 DEF DecisionInv

\* Taking the entrypoint back: it is no decided loader at that moment.
LEMMA DecisionRestoreKeeps ==
    ASSUME DecisionInv, Activation!RestoreDisplaced
    PROVE  DecisionInv'
  <1>1. /\ process = "restoring" /\ process' = "rollback"
        /\ UNCHANGED <<authority, tokens>>
    BY DEF Activation!RestoreDisplaced, Activation!Goto
  <1>2. \/ Activation!Exchange(Activation!swap) \/ Activation!ExchangeDurably(Activation!swap)
        \/ UNCHANGED <<ns, survivors>>
    BY DEF Activation!RestoreDisplaced, Activation!namespace
  <1>3. NamesHold' /\ ns'.bridge = ns.bridge
    <2>1. CASE \/ Activation!Exchange(Activation!swap)
               \/ Activation!ExchangeDurably(Activation!swap)
      BY <2>1, ExchangeNamed DEF DecisionInv
    <2>2. CASE UNCHANGED <<ns, survivors>>
      BY <2>2 DEF DecisionInv, NamesHold
    <2> QED
      BY <1>2, <2>1, <2>2
  <1>4. CountsHold'
    BY <1>1 DEF DecisionInv, CountsHold
  <1>5. ~Activation!Decided(Activation!bridge.token)
    BY <1>1, UndecidedTarget DEF Bridged
  <1>6. /\ Activation!bridge' = Activation!bridge
        /\ \A t : Activation!Decided(t)' <=> Activation!Decided(t)
    BY <1>1, <1>3 DEF Activation!bridge, Activation!Decided
  <1>7. Undecided' /\ EntrypointHolds'
    BY <1>1, <1>5, <1>6
       DEF DecisionInv, Undecided, EntrypointHolds, Bridged, Forward, After
  <1> QED
    BY <1>3, <1>4, <1>7 DEF DecisionInv

LEMMA DecisionSyncKeeps ==
    ASSUME DecisionInv, Activation!SyncExchange \/ Activation!SyncSwitch
    PROVE  DecisionInv' /\ ns' = ns
  <1>1. UNCHANGED <<authority, tokens>>
    BY DEF Activation!SyncExchange, Activation!SyncSwitch
  <1>2. (\E names : Activation!Sync(names)) \/ UNCHANGED <<ns, survivors>>
    BY DEF Activation!SyncExchange, Activation!SyncSwitch, Activation!namespace
  <1>3. NamesHold' /\ ns' = ns
    BY <1>2, SyncNamed DEF DecisionInv
  <1>4. CountsHold'
    BY <1>1 DEF DecisionInv, CountsHold
  <1>5. CASE Activation!SyncExchange
    <2>1. process = "syncing" /\ process' \in {"reloading", "rollback"}
      BY <1>5 DEF Activation!SyncExchange, Activation!Goto
    <2>2. ~Activation!Decided(Activation!bridge.token)
      BY <2>1, UndecidedTarget DEF Bridged
    <2>3. /\ Activation!bridge' = Activation!bridge
          /\ Activation!target' = Activation!target
          /\ \A t : Activation!Decided(t)' <=> Activation!Decided(t)
      BY <1>1, <1>3 DEF Activation!bridge, Activation!target, Activation!Decided
    <2>4. Undecided' /\ EntrypointHolds'
      BY <1>1, <2>1, <2>2, <2>3
         DEF DecisionInv, Undecided, EntrypointHolds, Bridged, Forward, After
    <2> QED
      BY <1>3, <1>4, <2>4 DEF DecisionInv
  <1>6. CASE Activation!SyncSwitch
    <2>1. process' \in {"reloadingPrior", "unreconciled"}
      BY <1>6 DEF Activation!SyncSwitch, Activation!Goto, Activation!Unreconciled
    <2> QED
      BY <1>3, <1>4, <2>1, Unclaimed DEF DecisionInv, Bridged, Forward, After
  <1> QED
    BY <1>5, <1>6

LEMMA DecisionCommitKeeps ==
    ASSUME DecisionInv, Activation!CommitApply
    PROVE  DecisionInv' /\ ns' = ns
  <1>1. process = "committing" /\ UNCHANGED <<ns, survivors, tokens>>
    BY DEF Activation!CommitApply, Activation!namespace
  <1>2. NamesHold' /\ ns' = ns
    BY <1>1 DEF DecisionInv, NamesHold
  <1>3. CASE UNCHANGED authority /\ process' = "rollback"
    <2>1. ~Activation!Decided(Activation!bridge.token)
      BY <1>1, UndecidedTarget DEF Bridged, After
    <2>2. Undecided' /\ EntrypointHolds'
      BY <1>1, <1>3, <2>1, DecisionLooks
         DEF DecisionInv, Undecided, EntrypointHolds, Bridged, Forward, After
    <2> QED
      BY <1>1, <1>2, <1>3, <2>2, DecisionLooks DEF DecisionInv
  <1>4. CASE ~(UNCHANGED authority /\ process' = "rollback")
    <2>1. /\ process' \in {"finalizing", "unreconciled"}
          /\ \/ authority' = [committed |-> Activation!target, pending |-> 0, phase |-> "idle"]
             \/ \E phase \in {"maybe", "committing"} :
                    authority' = [authority EXCEPT !.phase = phase]
      BY <1>4 DEF Activation!CommitApply, Activation!Goto, Activation!Unreconciled
    <2>2. CountsHold'
      BY <1>1, <2>1 DEF DecisionInv, CountsHold, Activation!target
    <2> QED
      BY <1>2, <2>1, <2>2, Unclaimed DEF DecisionInv, Bridged, Forward, After
  <1> QED
    BY <1>3, <1>4

\* What settles a side of the bridge writes managed names only.
LEMMA DecisionSettleKeeps ==
    ASSUME DecisionInv,
           \/ Activation!PromoteOwnership \/ Activation!TargetRefused
           \/ Activation!DropDisplaced \/ Activation!RetireTarget
           \/ Activation!DropCandidate \/ Activation!RetirePrior
    PROVE  DecisionInv' /\ ns'.stable = ns.stable
  <1>1. /\ UNCHANGED <<authority, tokens>>
        /\ process' \in {"displaced", "retiring", "ready", "unreconciled", "retiringPrior",
                         "aborting"}
    BY DEF Activation!PromoteOwnership, Activation!TargetRefused,
           Activation!DropDisplaced, Activation!RetireTarget,
           Activation!DropCandidate, Activation!RetirePrior, Activation!FinalizationFails,
           Activation!Goto, Activation!Unreconciled
  <1>2. \/ UNCHANGED <<ns, survivors>>
        \/ \E changes : \E outcome \in Activation!Outcome :
               /\ Activation!Write(changes, outcome)
               /\ DOMAIN changes \subseteq Activation!ManagedDirectory
    <2>1. CASE Activation!PromoteOwnership
      <3> DEFINE changes == [ownership |-> Activation!TargetOwnership(ns)]
      <3>1. \/ UNCHANGED <<ns, survivors>>
            \/ \E outcome \in Activation!Outcome : Activation!Write(changes, outcome)
        BY <2>1 DEF Activation!PromoteOwnership, Activation!Outcome, Activation!namespace
      <3>2. DOMAIN changes = {"ownership"}
        OBVIOUS
      <3> HIDE DEF changes
      <3>3. DOMAIN changes \subseteq Activation!ManagedDirectory
        BY <3>2 DEF Activation!ManagedDirectory
      <3> QED
        BY <3>1, <3>3, Zenon
    <2>2. CASE Activation!TargetRefused
      BY <2>2 DEF Activation!TargetRefused, Activation!namespace
    <2>3. CASE Activation!DropDisplaced \/ Activation!DropCandidate
      <3> DEFINE changes == [f \in {Activation!swap} |-> Missing]
      <3>1. \/ UNCHANGED <<ns, survivors>>
            \/ \E outcome \in Activation!Outcome : Activation!Write(changes, outcome)
        BY <2>3 DEF Activation!DropDisplaced, Activation!DropCandidate, Activation!namespace
      <3>2. DOMAIN changes = {Activation!swap}
        OBVIOUS
      <3> HIDE DEF changes
      <3>3. DOMAIN changes \subseteq Activation!ManagedDirectory
        BY <3>2, SwapIs DEF Activation!ManagedDirectory
      <3> QED
        BY <3>1, <3>3, Zenon
    <2>4. CASE Activation!RetireTarget \/ Activation!RetirePrior
      <3> DEFINE changes == [bridge |-> Missing]
      <3>1. \E outcome \in Activation!Outcome : Activation!Write(changes, outcome)
        BY <2>4 DEF Activation!RetireTarget, Activation!RetirePrior
      <3>2. DOMAIN changes = {"bridge"}
        OBVIOUS
      <3> HIDE DEF changes
      <3>3. DOMAIN changes \subseteq Activation!ManagedDirectory
        BY <3>2 DEF Activation!ManagedDirectory
      <3> QED
        BY <3>1, <3>3, Zenon
    <2> QED
      BY <2>1, <2>2, <2>3, <2>4
  <1>3. NamesHold' /\ ns'.stable = ns.stable
    <2>1. CASE UNCHANGED <<ns, survivors>>
      BY <2>1 DEF DecisionInv, NamesHold
    <2>2. CASE \E changes : \E outcome \in Activation!Outcome :
                   /\ Activation!Write(changes, outcome)
                   /\ DOMAIN changes \subseteq Activation!ManagedDirectory
      <3>1. PICK changes : \E outcome \in Activation!Outcome :
                   /\ Activation!Write(changes, outcome)
                   /\ DOMAIN changes \subseteq Activation!ManagedDirectory
        BY <2>2
      <3> QED
        BY <3>1, WriteNamed DEF DecisionInv, Names, Activation!ManagedDirectory
    <2> QED
      BY <1>2, <2>1, <2>2
  <1>4. CountsHold'
    BY <1>1 DEF DecisionInv, CountsHold
  <1> QED
    BY <1>1, <1>3, <1>4, Unclaimed DEF DecisionInv, Bridged, Forward, After

LEMMA DecisionRollbackKeeps ==
    ASSUME DecisionInv,
           Activation!BeginRollback \/ Activation!ReloadPrior \/ Activation!ProvePrior
    PROVE  DecisionInv' /\ ns' = ns
  <1>1. UNCHANGED <<ns, survivors, authority, tokens>>
    BY DEF Activation!BeginRollback, Activation!ReloadPrior, Activation!ProvePrior,
           Activation!namespace
  <1>2. CASE process' = "switching"
    <2>1. /\ process = "rollback" /\ ns.bridge # Missing
          /\ Activation!RollbackPossible(ns) /\ ~Activation!ExactBefore(ns)
      BY <1>2, Zenon DEF Activation!BeginRollback, Activation!ReloadPrior, Activation!ProvePrior,
                  Activation!Goto, Activation!Unreconciled, Activation!bridge
    <2>2. ns.stable = Activation!Loader(Activation!bridge.token)
      BY <2>1 DEF Activation!RollbackPossible, Activation!ExactTarget, Activation!bridge
    <2>3. ~Activation!Decided(Activation!bridge.token)
      BY <2>1 DEF DecisionInv, EntrypointHolds, Activation!bridge
    <2>4. \A t \in Activation!Token : Activation!Decided(t) =>
              ns.stable # Activation!Loader(t)
      BY <2>2, <2>3, LoadersDiffer
    <2>5. Undecided' /\ EntrypointHolds'
      BY <1>1, <1>2, <2>3, <2>4, DecisionLooks
         DEF Undecided, EntrypointHolds, Bridged, Forward, After
    <2> QED
      BY <1>1, <2>5, DecisionLooks DEF DecisionInv
  <1>3. CASE process' # "switching"
    <2>1. process' \in {"reloadingPrior", "provingPrior", "discarding", "unreconciled"}
      BY <1>3, Zenon DEF Activation!BeginRollback, Activation!ReloadPrior, Activation!ProvePrior,
                  Activation!Goto, Activation!Unreconciled
    <2> QED
      BY <1>1, <2>1, DecisionLooks, Unclaimed DEF DecisionInv, Bridged, Forward, After
  <1> QED
    BY <1>2, <1>3

LEMMA DecisionSwitchKeeps ==
    ASSUME DecisionInv, Activation!SwitchBack
    PROVE  DecisionInv'
  <1>1. /\ process' \in {"switched", "unreconciled"} /\ UNCHANGED <<authority, tokens>>
    BY DEF Activation!SwitchBack, Activation!Goto, Activation!Unreconciled
  <1>2. NamesHold'
    <2>1. CASE Activation!Change([stable |-> Missing])
      BY <2>1, ChangeNamed DEF DecisionInv
    <2>2. CASE Activation!Exchange(Activation!swap)
      BY <2>2, ExchangeNamed DEF DecisionInv
    <2>3. CASE UNCHANGED <<ns, survivors>>
      BY <2>3 DEF DecisionInv, NamesHold
    <2> QED
      BY <2>1, <2>2, <2>3 DEF Activation!SwitchBack, Activation!namespace
  <1>3. CountsHold'
    BY <1>1 DEF DecisionInv, CountsHold
  <1> QED
    BY <1>1, <1>2, <1>3, Unclaimed DEF DecisionInv, Bridged, Forward, After

LEMMA DecisionAbortKeeps ==
    ASSUME DecisionInv, Activation!AbortApply
    PROVE  DecisionInv' /\ ns' = ns
  <1>1. /\ UNCHANGED <<ns, survivors, tokens>> /\ process' \in {"ready", "unreconciled"}
        /\ \/ authority' = [authority EXCEPT !.pending = 0, !.phase = "idle"]
           \/ UNCHANGED authority
    BY DEF Activation!AbortApply, Activation!namespace, Activation!Goto,
           Activation!Unreconciled
  <1>2. NamesHold' /\ ns' = ns
    BY <1>1 DEF DecisionInv, NamesHold
  <1>3. CountsHold'
    <2>1. tokens \in 0..MaxToken /\ 0 \in 0..tokens
      BY TokenAssumption DEF DecisionInv, CountsHold
    <2>2. authority' \in [committed: 0..tokens, pending: 0..tokens,
                          phase: {"idle", "prepared", "maybe", "committing"}]
      BY <1>1, <2>1 DEF DecisionInv, CountsHold
    <2> QED
      BY <1>1, <2>1, <2>2 DEF CountsHold
  <1> QED
    BY <1>1, <1>2, <1>3, Unclaimed DEF DecisionInv, Bridged, Forward, After

\* A start rolls back only what its authority, which is idle by then, did not commit.
LEMMA DecisionStartKeeps ==
    ASSUME DecisionInv, Activation!Initialize \/ Activation!ReconcileStartup
    PROVE  DecisionInv' /\ ns' = ns
  <1>1. CASE Activation!Initialize
    <2>1. PICK names : Activation!Sync(names)
      BY <1>1 DEF Activation!Initialize
    <2>2. NamesHold' /\ ns' = ns
      BY <2>1, SyncNamed DEF DecisionInv
    <2>3. /\ UNCHANGED tokens
          /\ \/ process' = "reconciling" /\ authority' = Activation!Reconciled(authority)
             \/ process' = "down" /\ UNCHANGED authority
      BY <1>1 DEF Activation!Initialize
    <2>4. CountsHold' /\ (process' = "reconciling" => authority'.phase = "idle")
      BY <2>3, TokenAssumption DEF DecisionInv, CountsHold, Activation!Reconciled
    <2>5. Undecided' /\ EntrypointHolds'
      BY <2>3, <2>4 DEF Undecided, EntrypointHolds, Bridged, Forward, After
    <2> QED
      BY <2>2, <2>4, <2>5 DEF DecisionInv
  <1>2. CASE Activation!ReconcileStartup
    <2>1. UNCHANGED <<ns, survivors, authority, tokens>>
      BY <1>2 DEF Activation!ReconcileStartup, Activation!namespace
    <2>2. process = "reconciling" /\ authority.phase = "idle"
      BY <1>2 DEF Activation!ReconcileStartup, DecisionInv, Undecided
    <2>3. /\ process' \in {"ready", "unreconciled", "finalizing", "rollback"}
          /\ process' = "rollback" => Activation!bridge.token # authority.committed
      BY <1>2, Zenon DEF Activation!ReconcileStartup, Activation!Goto
    <2>4. process' = "rollback" => ~Activation!Decided(Activation!bridge.token)
      BY <2>2, <2>3 DEF Activation!Decided
    <2>5. Undecided' /\ EntrypointHolds'
      BY <2>1, <2>3, <2>4, DecisionLooks
         DEF Undecided, EntrypointHolds, Bridged, Forward, After
    <2> QED
      BY <2>1, <2>5, DecisionLooks DEF DecisionInv
  <1> QED
    BY <1>1, <1>2

LEMMA DecisionStopKeeps ==
    ASSUME DecisionInv, Activation!Crash \/ Activation!PowerLoss
    PROVE  DecisionInv'
  <1>1. process' = "down" /\ UNCHANGED tokens
    BY DEF Activation!Crash, Activation!PowerLoss, Activation!Stop
  <1>2. NamesHold'
    BY DEF DecisionInv, NamesHold, Activation!Crash, Activation!PowerLoss,
           Activation!LoseUnsynced, Activation!namespace
  <1>3. CountsHold'
    <2>1. UNCHANGED authority \/ authority' = [authority EXCEPT !.phase = "prepared"]
      BY DEF Activation!Crash, Activation!PowerLoss
    <2> QED
      BY <1>1, <2>1 DEF DecisionInv, CountsHold
  <1> QED
    BY <1>1, <1>2, <1>3, Unclaimed DEF DecisionInv, Bridged, Forward, After

LEMMA DecisionEditKeeps ==
    ASSUME DecisionInv, Activation!EditEntrypoint
    PROVE  DecisionInv'
  <1>1. PICK file \in {Activation!UserFile(edits + 1)} \cup {Missing} :
               Activation!Edit(file)
    BY DEF Activation!EditEntrypoint
  <1>2. UNCHANGED <<authority, tokens, process>>
    BY DEF Activation!EditEntrypoint
  <1>3. /\ ns' = [ns EXCEPT !.stable = file]
        /\ survivors' = {[s EXCEPT !.stable = file] :
                              s \in Activation!Agreeing(survivors, ns, Activation!ConfigDirectory)}
    BY <1>1 DEF Activation!Edit
  <1>4. NamesHold'
    <2>1. ns \in Activation!Agreeing(survivors, ns, Activation!ConfigDirectory)
      BY DEF DecisionInv, NamesHold, Activation!Agreeing
    <2>2. \A s : DOMAIN [s EXCEPT !.stable = file] = DOMAIN s
      OBVIOUS
    <2>3. Activation!Agreeing(survivors, ns, Activation!ConfigDirectory) \subseteq survivors
      BY DEF Activation!Agreeing
    <2> QED
      BY <1>3, <2>1, <2>2, <2>3 DEF DecisionInv, NamesHold
  <1>5. /\ ns'.stable = file /\ ns'.bridge = ns.bridge
        /\ ns'[Activation!swap] = ns[Activation!swap]
    BY <1>3, SwapIs DEF DecisionInv, NamesHold, Names
  <1>6. CountsHold'
    BY <1>2 DEF DecisionInv, CountsHold
  <1>7. /\ Activation!bridge' = Activation!bridge /\ Activation!swap' = Activation!swap
        /\ Activation!target' = Activation!target
        /\ \A t : Activation!Decided(t)' <=> Activation!Decided(t)
    BY <1>2, <1>5 DEF Activation!bridge, Activation!swap,
         Activation!SwapName, Activation!target, Activation!Decided
  <1>8. \A t \in Activation!Token : ns'.stable # Activation!Loader(t)
    BY <1>5, LoadersDiffer
  <1>9. Undecided' /\ EntrypointHolds'
    BY <1>2, <1>5, <1>7, <1>8 DEF DecisionInv, Undecided, EntrypointHolds
  <1> QED
    BY <1>4, <1>6, <1>9 DEF DecisionInv

LEMMA DecisionRests ==
    ASSUME DecisionInv, UNCHANGED <<ns, survivors, authority, tokens, process>>
    PROVE  DecisionInv'
  <1>1. Undecided' /\ EntrypointHolds'
    BY DecisionLooks DEF DecisionInv, Undecided, EntrypointHolds
  <1> QED
    BY <1>1, DecisionLooks DEF DecisionInv

LEMMA DecisionStepKeeps ==
    ASSUME DecisionInv, Activation!NextWhereKept
    PROVE  DecisionInv'
  <1>1. CASE Activation!Publish
    BY <1>1, DecisionPublishKeeps, DecisionLooksKeep, DecisionStageKeeps,
       DecisionReadyKeeps, DecisionExchangeKeeps, DecisionRestoreKeeps, DecisionSyncKeeps
       DEF Activation!Publish
  <1>2. CASE Activation!Finalize
    BY <1>2, DecisionSettleKeeps DEF Activation!Finalize
  <1>3. CASE Activation!Rollback
    BY <1>3, DecisionRollbackKeeps, DecisionSwitchKeeps, DecisionSyncKeeps,
       DecisionSettleKeeps DEF Activation!Rollback
  <1>4. CASE Activation!HyprlandLoads
    BY <1>4, DecisionRests DEF Activation!HyprlandLoads, Activation!namespace
  <1> QED
    BY <1>1, <1>2, <1>3, <1>4, DecisionPrepareKeeps, DecisionLooksKeep,
       DecisionCommitKeeps, DecisionAbortKeeps, DecisionStartKeeps, DecisionStopKeeps,
       DecisionEditKeeps DEF Activation!NextWhereKept, Activation!Service

\* The entrypoint of a decision after a step of the service.
Stays(t) == ns'.stable \in {Activation!Loader(u) : u \in t..MaxToken}

LEMMA DecisionStays ==
    ASSUME DecisionInv, Activation!Service, NEW t \in Activation!Token,
           Activation!Decided(t), ns.stable = Activation!Loader(t)
    PROVE  Stays(t)
  <1>1. t \in t..MaxToken
    BY TokenAssumption DEF Activation!Token
  <1>2. CASE ns'.stable = ns.stable
    BY <1>1, <1>2 DEF Stays
  <1>3. CASE Activation!ExchangeEntrypoint
    <2>1. CASE /\ ns'.stable = Activation!Loader(Activation!target)
               /\ process \in Bridged
      <3>1. /\ authority.phase = "prepared" /\ authority.committed < Activation!target
            /\ Activation!target \in 0..MaxToken /\ authority.committed \in Nat
        BY <2>1, TokenAssumption
           DEF DecisionInv, Undecided, CountsHold, Activation!target
      <3>2. t = authority.committed
        BY <3>1 DEF Activation!Decided
      <3>3. Activation!target \in t..MaxToken
        BY <3>1, <3>2, TokenAssumption
      <3> QED
        BY <2>1, <3>3 DEF Stays
    <2> QED
      BY <1>2, <1>3, <2>1, DecisionExchangeKeeps
  <1>4. CASE Activation!RestoreDisplaced \/ Activation!SwitchBack
    <2>1. process \in {"restoring", "switching"}
      BY <1>4 DEF Activation!RestoreDisplaced, Activation!SwitchBack
    <2> QED
      BY <2>1 DEF DecisionInv, EntrypointHolds
  <1>5. CASE Activation!Publish
    <2>1. CASE Activation!PublishRefused \/ Activation!ProbeEntrypoint \/ Activation!VerifyExchange
      BY <1>2, <2>1 DEF Activation!PublishRefused, Activation!ProbeEntrypoint,
             Activation!VerifyExchange, Activation!namespace
    <2> QED
      BY <1>2, <1>3, <1>4, <1>5, <2>1, DecisionPublishKeeps, DecisionStageKeeps,
         DecisionReadyKeeps, DecisionSyncKeeps DEF Activation!Publish
  <1>6. CASE Activation!Finalize \/ Activation!Rollback
    BY <1>2, <1>4, <1>6, DecisionSettleKeeps, DecisionRollbackKeeps, DecisionSyncKeeps
       DEF Activation!Finalize, Activation!Rollback
  <1>7. CASE \/ Activation!Prepare \/ Activation!Activate \/ Activation!ReloadTarget
             \/ Activation!ProveTarget
    BY <1>2, <1>7 DEF Activation!Prepare, Activation!Activate, Activation!ReloadTarget,
           Activation!ProveTarget, Activation!namespace
  <1> QED
    BY <1>2, <1>5, <1>6, <1>7, DecisionCommitKeeps, DecisionAbortKeeps,
       DecisionStartKeeps DEF Activation!Service

\* Once a decision may exist, no step of the service takes its loader away but for
\* a newer one, whatever is edited, removed or lost meanwhile (completePrepared,
\* rollback, reconcileStartup).
THEOREM DecisionNeverTakenBack == Spec => DecisionNeverRolledBack
  <1>1. Init => DecisionInv
    <2> SUFFICES ASSUME Activation!Init
                 PROVE  DecisionInv
      BY DEF Init
    <2>1. /\ ns = [stable |-> loaded, original |-> Missing, transition |-> Missing,
                   ownership |-> Missing, bridge |-> Missing]
          /\ survivors = {ns} /\ tokens = 0 /\ process = "down"
          /\ authority = [committed |-> 0, pending |-> 0, phase |-> "idle"]
      BY DEF Activation!Init
    <2>2. NamesHold
      BY <2>1 DEF NamesHold, Names
    <2>3. CountsHold
      <3>1. 0 \in 0..MaxToken /\ 0 \in 0..0
        BY TokenAssumption
      <3> QED
        BY <2>1, <3>1 DEF CountsHold
    <2> QED
      BY <2>1, <2>2, <2>3
         DEF DecisionInv, Undecided, EntrypointHolds, Bridged, Forward, After
  <1>2. ASSUME DecisionInv, [Next]_vars
        PROVE  /\ DecisionInv'
               /\ [\A t \in Activation!Token :
                       Activation!Decided(t) /\ ns.stable = Activation!Loader(t)
                               /\ Activation!Service
                           => ns'.stable \in {Activation!Loader(u) :
                                  u \in t..MaxToken}]_(Activation!vars)
    <2>1. \A t \in Activation!Token :
              Activation!Decided(t) /\ ns.stable = Activation!Loader(t) /\ Activation!Service
                  => ns'.stable \in {Activation!Loader(u) : u \in t..MaxToken}
      BY <1>2, DecisionStays DEF Stays
    <2>2. CASE OnlyActivation /\ Activation!NextWhereKept
      BY <1>2, <2>1, <2>2, DecisionStepKeeps
    <2>3. CASE \/ OnlySettings \/ OnlyVisual \/ OnlyCaptures \/ OnlyGenerations
               \/ OnlyPackageStore \/ OnlyReloads \/ OnlyDocument \/ UNCHANGED vars
      <3>1. UNCHANGED <<ns, survivors, authority, tokens, process>>
        BY <2>3 DEF OnlySettings, OnlyVisual, OnlyCaptures, OnlyGenerations,
                    OnlyPackageStore, OnlyReloads, OnlyDocument, vars, parts, activation
      <3> QED
        BY <1>2, <2>1, <3>1, DecisionRests
    <2> QED
      BY <1>2, <2>2, <2>3 DEF Next
  <1> QED
    BY <1>1, <1>2, PTL DEF Spec, DecisionNeverRolledBack, Activation!DecisionNeverRolledBack

=============================================================================
