----------------------- MODULE ComponentConfigClient -----------------------
(***************************************************************************)
(* The settings' client of ComponentConfig1 and the service at the other   *)
(* end of the bus: configd's component configuration, replaced as a whole  *)
(* against the revision and the catalog digest it was read with.           *)
(*                                                                         *)
(* A catalog gives each user package its content, or None when it is not   *)
(* installed; its digest stands for all of it, so it is the catalog.  A    *)
(* configuration has for each component None or its record.  Messages of   *)
(* one sender arrive in their order; a read of an earlier generation is    *)
(* no longer awaited from the moment the counter moves.                    *)
(***************************************************************************)
EXTENDS Naturals, Sequences, SequencesExt

CONSTANTS
    None,
    Component,          \* of the user's packages
    Content,            \* contents a package may have, named by their digest
    MaxConfigRevision,  \* bound: the revision that is the last
    MaxCatalogs,        \* bound on catalogs configd is given or loses
    MaxAsked,           \* bound on changes the user asks for
    MaxConfigEvents,    \* bound on other writers' changes and restarts
    MaxConfigTimeouts   \* bound on calls that are given up

VARIABLES
    configService,
    configCalls,        \* calls under way
    configNews,         \* replies and signals under way
    configClient,
    configBounds,       \* events so far, by kind
    \* history
    reviewed,           \* contents the user has asked to run, with their component
    overwritten         \* a replacement was stored over what its author had not seen

vars == <<configService, configCalls, configNews, configClient, configBounds, reviewed,
          overwritten>>

Catalog == [Component -> Content \cup {None}]

Record(content, enabled, placed, settings) ==
    [content |-> content, enabled |-> enabled, placed |-> placed, settings |-> settings]

Same == [available |-> None, catalogUp |-> None, revision |-> None, catalog |-> None]

-----------------------------------------------------------------------------
(* The service.  Its configuration and revision are those on disk.         *)

Published(service, changed) ==
    IF changed = Same THEN service
    ELSE [service EXCEPT !.sent = Append(@, [kind |-> "changed", changed |-> changed])]

\* applyCatalog.  loads, migrates: what the store makes of its files.
applyCatalog(service, catalog, loads, writes, migrates) ==
    LET first == ~service.available
        revision == service.revision + (IF migrates THEN 1 ELSE 0)
        ready == ~first \/ loads
        moved == ready /\ (first \/ migrates)
        changed == [available |-> IF first /\ loads THEN TRUE ELSE None,
                    revision |-> IF moved THEN revision ELSE None,
                    catalogUp |-> IF service.catalogUp THEN None ELSE TRUE,
                    catalog |-> IF service.catalog = catalog THEN None ELSE catalog]
    IN Published([service EXCEPT !.available = ready,
                                 !.writable = ready /\ writes,
                                 !.revision = IF moved THEN revision ELSE @,
                                 !.catalogUp = TRUE, !.catalog = catalog], changed)

setCatalogUnavailable(service) ==
    IF ~service.catalogUp THEN service
    ELSE Published([service EXCEPT !.catalogUp = FALSE], [Same EXCEPT !.catalogUp = FALSE])

Dormant(service, c) ==
    service.snapshot[c] # None /\ service.catalog[c] # service.snapshot[c].content

\* A later content may be taken over, and loses what the former was allowed.
Adopts(service, c, proposed) ==
    /\ proposed[c] # None /\ service.catalog[c] # None
    /\ proposed[c].content = service.catalog[c]
    /\ ~proposed[c].enabled
    /\ proposed[c].placed = service.snapshot[c].placed

preservesDormantState(service, proposed) ==
    \A c \in Component :
        /\ Dormant(service, c) =>
               proposed[c] = service.snapshot[c] \/ Adopts(service, c, proposed)
        /\ proposed[c] # None /\ proposed[c].content # service.catalog[c] =>
               Dormant(service, c)

Answers(service, value) == [service |-> service, error |-> None, value |-> value]
Fails(service, error) == [service |-> service, error |-> error, value |-> None]

GetAll(service) ==
    Answers(service, [available |-> service.available, catalogUp |-> service.catalogUp,
                      revision |-> IF service.available THEN service.revision ELSE 0,
                      catalog |-> service.catalog])

GetSnapshot(service) ==
    IF ~service.available THEN Fails(service, "refused")
    ELSE Answers(service, [snapshot |-> service.snapshot, revision |-> service.revision,
                           catalog |-> service.catalog])

ReplaceSnapshot(service, call, persisted) ==
    IF ~service.available \/ ~service.writable \/ ~service.catalogUp
        THEN Fails(service, "refused")
    ELSE IF call.revision # service.revision \/ call.catalog # service.catalog
        THEN Fails(service, "stale")
    ELSE IF ~preservesDormantState(service, call.proposed) THEN Fails(service, "refused")
    ELSE IF call.proposed = service.snapshot THEN Answers(service, None)
    ELSE IF service.revision = MaxConfigRevision \/ ~persisted
        THEN Fails(service, "refused")
    ELSE Answers(Published([service EXCEPT !.snapshot = call.proposed, !.revision = @ + 1],
                           [Same EXCEPT !.revision = service.revision + 1]), None)

Handled(service, call, persisted) ==
    CASE ~service.up -> Fails(service, "lost")
      [] service.up /\ call.method = "GetAll" -> GetAll(service)
      [] service.up /\ call.method = "GetSnapshot" -> GetSnapshot(service)
      [] service.up /\ call.method = "ReplaceSnapshot" ->
             ReplaceSnapshot(service, call, persisted)

-----------------------------------------------------------------------------
(* The client.  Each operator takes it, with the calls it has sent and the *)
(* methods whose answers it no longer awaits, to what it becomes.          *)

Reads == {"GetAll", "GetSnapshot"}
Methods == Reads \cup {"ReplaceSnapshot"}

Read(method) == [method |-> method, awaited |-> TRUE]

Sends(c, call) == [c EXCEPT !.out = Append(@, call)]

\* A read nobody awaits has no effect anywhere; a replacement is still made.
Outdated(calls, methods) ==
    SelectSeq([i \in DOMAIN calls |->
                   [calls[i] EXCEPT !.awaited = @ /\ calls[i].method \notin methods]],
              LAMBDA call : call.awaited \/ call.method \notin Reads)

Outdates(c, methods) ==
    [c EXCEPT !.stale = @ \cup methods, !.out = Outdated(@, methods)]

refresh(c) ==
    Sends(Outdates([c EXCEPT !.queued = FALSE, !.available = FALSE], Reads), Read("GetAll"))

fetchSnapshot(c) == Sends(Outdates(c, Reads), Read("GetSnapshot"))

finishMutation(c) == [c EXCEPT !.busy = FALSE, !.pending = None]

finishHydration(c, accepted) ==
    IF c.queued THEN refresh(finishMutation(c))
    ELSE [finishMutation(c) EXCEPT !.available = accepted]

\* What p does not name stays as it was advertised.
applyProperties(c, p) ==
    LET New(value, held) == IF value = None THEN held ELSE value
    IN [c EXCEPT !.catalogUp = New(p.catalogUp, @),
                 !.advertised = [available |-> New(p.available, @.available),
                                 revision |-> New(p.revision, @.revision),
                                 catalog |-> New(p.catalog, @.catalog)]]

Wellformed(c) == c.advertised.available => c.advertised.catalog # None

Matches(c) ==
    /\ c.advertised.available
    /\ c.snapshot # None
    /\ c.advertised.revision = c.revision
    /\ c.advertised.catalog = c.catalog

propertiesChanged(c, changed) ==
    LET told == applyProperties(c, changed)
        unsure == [told EXCEPT !.available = FALSE]
    IN IF ~Wellformed(told) THEN unsure
       ELSE IF [changed EXCEPT !.catalogUp = None] = Same THEN told
       ELSE IF Matches(told) THEN [told EXCEPT !.available = TRUE]
       ELSE IF told.busy THEN [unsure EXCEPT !.queued = TRUE]
       ELSE IF ~told.advertised.available THEN unsure
       ELSE fetchSnapshot(unsure)

serviceOwnerChanged(c, owned) ==
    LET lost == Outdates([finishMutation(c) EXCEPT
                    !.advertised.available = FALSE, !.advertised.catalog = None,
                    !.queued = FALSE, !.available = FALSE, !.catalogUp = FALSE], Methods)
    IN IF owned THEN refresh(lost) ELSE lost

Propertied(c, reply) ==
    IF reply.error # None THEN finishHydration(c, FALSE)
    ELSE LET told == applyProperties(c, reply.value) IN
         IF Wellformed(told) /\ told.advertised.available THEN fetchSnapshot(told)
         ELSE finishHydration(told, FALSE)

Hydrated(c, reply) ==
    IF \/ reply.error # None
       \/ reply.value.revision # c.advertised.revision
       \/ reply.value.catalog # c.advertised.catalog
    THEN finishHydration(c, FALSE)
    ELSE finishHydration([c EXCEPT !.snapshot = reply.value.snapshot,
                                   !.revision = reply.value.revision,
                                   !.catalog = reply.value.catalog], TRUE)

\* Faulty variant of Replaced: what was put off meanwhile is forgotten.
RefreshedWhenStale(c, reply) ==
    IF reply.error = None THEN refresh(c)
    ELSE IF reply.error = "stale" THEN refresh(finishMutation(c))
    ELSE finishMutation(c)

Replaced(c, reply) ==
    IF reply.error = None THEN refresh(c)
    ELSE IF c.queued \/ reply.error = "stale" THEN refresh(finishMutation(c))
    ELSE finishMutation(c)

Received(c, message) ==
    CASE message.kind = "owner" -> serviceOwnerChanged(c, message.owned)
      [] message.kind = "changed" -> propertiesChanged(c, message.changed)
      [] message.kind = "reply" ->
             CASE message.call.method = "GetAll" -> Propertied(c, message)
               [] message.call.method = "GetSnapshot" -> Hydrated(c, message)
               [] message.call.method = "ReplaceSnapshot" -> Replaced(c, message)

MayReplace(c) == c.available /\ c.catalogUp /\ ~c.busy

beginReplaceSnapshot(c, component, record) ==
    Sends([c EXCEPT !.busy = TRUE, !.pending = component],
          [method |-> "ReplaceSnapshot", awaited |-> TRUE,
           revision |-> c.revision, catalog |-> c.catalog,
           base |-> c.snapshot, proposed |-> [c.snapshot EXCEPT ![component] = record]])

(* What the user may ask of a component whose content is shown as content: *)
(* the record that is proposed, or the present one when nothing is sent.   *)

setComponentEnabled(held, content, enabled) ==
    IF held = None THEN held
    ELSE IF held.content # content THEN held ELSE [held EXCEPT !.enabled = enabled]

setComponentSettings(held, content, settings) ==
    IF held = None THEN Record(content, FALSE, FALSE, settings)
    ELSE IF held.content # content THEN held ELSE [held EXCEPT !.settings = settings]

adoptComponentPackage(held, content) ==
    IF held = None THEN held
    ELSE IF held.content = content THEN held
    ELSE Record(content, FALSE, held.placed, "default")

addComponentToBar(held, content) ==
    IF held = None THEN Record(content, TRUE, TRUE, "default")
    ELSE IF held.content # content THEN held
    ELSE [held EXCEPT !.enabled = TRUE, !.placed = TRUE]

preparePackageChange(held, content) == setComponentEnabled(held, content, FALSE)

-----------------------------------------------------------------------------
Init ==
    /\ configService = [up |-> TRUE, available |-> FALSE, writable |-> FALSE,
                        catalogUp |-> FALSE, catalog |-> None,
                        snapshot |-> [c \in Component |-> None], revision |-> 1,
                        sent |-> <<>>]
    /\ configClient = [available |-> FALSE, catalogUp |-> FALSE, busy |-> FALSE,
                       pending |-> None, snapshot |-> None, revision |-> 0,
                       catalog |-> None, queued |-> FALSE,
                       advertised |-> [available |-> FALSE, revision |-> 0,
                                       catalog |-> None],
                       out |-> <<>>, stale |-> {}]
    /\ configCalls = <<Read("GetAll")>>
    /\ configNews = <<>>
    /\ configBounds = [catalogs |-> 0, asked |-> 0, events |-> 0, timeouts |-> 0]
    /\ reviewed = {}
    /\ overwritten = FALSE

Counted(bound, max) ==
    /\ configBounds[bound] < max
    /\ configBounds' = [configBounds EXCEPT ![bound] = @ + 1]

ServiceStep(service, answers) == \E s \in {service} :
    /\ configService' = [s EXCEPT !.sent = <<>>]
    /\ configNews' = configNews \o s.sent \o answers

ClientStep(next, news) == \E c \in {next} :
    /\ configClient' = [c EXCEPT !.out = <<>>, !.stale = {}]
    /\ configCalls' = Outdated(configCalls, c.stale) \o c.out
    /\ configNews' = SelectSeq(news, LAMBDA message :
                         message.kind # "reply" \/ message.call.method \notin c.stale)

Reply(call, error, value) ==
    IF call.awaited
    THEN <<[kind |-> "reply", call |-> Read(call.method), error |-> error, value |-> value]>>
    ELSE <<>>

\* A call reaches the service, or the bus has nobody to give it to.
CallHandled(persisted) ==
    /\ configCalls # <<>>
    /\ configCalls' = Tail(configCalls)
    /\ LET call == Head(configCalls) IN
       \E answer \in {Handled(configService, call, persisted)} :
           /\ ServiceStep(answer.service, Reply(call, answer.error, answer.value))
           /\ overwritten' = (\/ overwritten
                              \/ /\ answer.service.snapshot # configService.snapshot
                                 /\ call.base # configService.snapshot)
    /\ UNCHANGED <<configClient, configBounds, reviewed>>

\* The component manager's catalog is there, or is there again.
CatalogChanged(catalog, loads, writes, migrates) ==
    /\ configService.up
    /\ Counted("catalogs", MaxCatalogs)
    /\ migrates => configService.revision < MaxConfigRevision
    /\ ServiceStep(applyCatalog(configService, catalog, loads, writes, migrates), <<>>)
    /\ UNCHANGED <<configCalls, configClient, reviewed, overwritten>>

CatalogUnavailable ==
    /\ configService.up /\ configService.catalogUp
    /\ Counted("catalogs", MaxCatalogs)
    /\ ServiceStep(setCatalogUnavailable(configService), <<>>)
    /\ UNCHANGED <<configCalls, configClient, reviewed, overwritten>>

\* Another client replaces what it has just read.
OtherReplaces(component, settings) ==
    /\ Counted("events", MaxConfigEvents)
    /\ configService.up /\ configService.snapshot[component] # None
    /\ LET call == [revision |-> configService.revision, catalog |-> configService.catalog,
                    proposed |-> [configService.snapshot EXCEPT ![component].settings = settings]]
           answer == ReplaceSnapshot(configService, call, TRUE)
       IN /\ answer.service # configService
          /\ ServiceStep(answer.service, <<>>)
    /\ UNCHANGED <<configCalls, configClient, reviewed, overwritten>>

ServiceCrash ==
    /\ configService.up
    /\ Counted("events", MaxConfigEvents)
    /\ configService' = [configService EXCEPT !.up = FALSE, !.available = FALSE,
                             !.writable = FALSE, !.catalogUp = FALSE, !.catalog = None]
    /\ configNews' = configNews
           \o FoldSeq(LAMBDA call, answers : Reply(call, "lost", None) \o answers,
                      <<>>, configCalls)
           \o <<[kind |-> "owner", owned |-> FALSE]>>
    /\ configCalls' = <<>>
    /\ UNCHANGED <<configClient, reviewed, overwritten>>

ServiceStart ==
    /\ ~configService.up
    /\ configService' = [configService EXCEPT !.up = TRUE]
    /\ configNews' = Append(configNews, [kind |-> "owner", owned |-> TRUE])
    /\ UNCHANGED <<configCalls, configClient, configBounds, reviewed, overwritten>>

MessageReceived ==
    /\ configNews # <<>>
    /\ ClientStep(Received(configClient, Head(configNews)), Tail(configNews))
    /\ UNCHANGED <<configService, configBounds, reviewed, overwritten>>

\* A call is given up after callTimeoutMs; its answer, if it comes, is lost.
CallTimedOut(method) ==
    /\ Counted("timeouts", MaxConfigTimeouts)
    /\ \E call \in {configCalls[i] : i \in DOMAIN configCalls} :
           call.method = method /\ call.awaited
    /\ ClientStep(Received(Outdates(configClient, {method}),
                           [kind |-> "reply", call |-> Read(method), error |-> "lost",
                            value |-> None]),
                  configNews)
    /\ UNCHANGED <<configService, reviewed, overwritten>>

\* The user asks for a change of a component that is shown with this content.
Asked(component, record, content) ==
    /\ MayReplace(configClient)
    /\ Counted("asked", MaxAsked)
    /\ record # configClient.snapshot[component]
    /\ ClientStep(beginReplaceSnapshot(configClient, component, record), configNews)
    /\ reviewed' = IF record.enabled THEN reviewed \cup {<<component, content>>} ELSE reviewed
    /\ UNCHANGED <<configService, overwritten>>

UserAsks(component, content) ==
    /\ configClient.snapshot # None
    /\ LET held == configClient.snapshot[component] IN
       \E record \in {setComponentEnabled(held, content, TRUE),
                      setComponentSettings(held, content, "chosen"),
                      adoptComponentPackage(held, content),
                      addComponentToBar(held, content),
                      preparePackageChange(held, content)} :
           record # held /\ Asked(component, record, content)

Next ==
    \/ \E persisted \in BOOLEAN : CallHandled(persisted)
    \/ \E catalog \in Catalog, loads, writes, migrates \in BOOLEAN :
           CatalogChanged(catalog, loads, writes, migrates)
    \/ CatalogUnavailable
    \/ \E component \in Component, settings \in {"default", "chosen"} :
           OtherReplaces(component, settings)
    \/ ServiceCrash
    \/ ServiceStart
    \/ MessageReceived
    \/ \E method \in Methods : CallTimedOut(method)
    \/ \E component \in Component, content \in Content : UserAsks(component, content)

Spec == Init /\ [][Next]_vars

-----------------------------------------------------------------------------
(***************************************************************************)
(* A package runs only in the content the user has asked for: an update of *)
(* the package while the request is under way, an adoption, a second       *)
(* writer or a call that is executed after it was given up must not let    *)
(* the enablement of one content pass to another.                          *)
(***************************************************************************)
EnabledIsReviewed ==
    \A c \in Component :
        LET record == configService.snapshot[c] IN
        record # None => (record.enabled => <<c, record.content>> \in reviewed)

\* With nothing under way and no call given up, the client shows what the
\* service has and waits for nothing.
ClientFollows ==
    /\ configService.up
    /\ configCalls = <<>> /\ configNews = <<>>
    /\ configBounds.timeouts = 0
    =>  /\ configClient.available = configService.available
        /\ configClient.catalogUp = configService.catalogUp
        /\ ~configClient.busy
        /\ configClient.available =>
               /\ configClient.snapshot = configService.snapshot
               /\ configClient.revision = configService.revision
               /\ configClient.catalog = configService.catalog

ComponentConfigHolds == EnabledIsReviewed /\ ClientFollows /\ ~overwritten

=============================================================================
