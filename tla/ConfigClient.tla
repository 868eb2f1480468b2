---------------------------- MODULE ConfigClient ----------------------------
(***************************************************************************)
(* The shell's client of Config1 and the service at the other end of the   *)
(* bus.  Settings come in groups, each told as a whole with the revision;  *)
(* what the night light and the schedules do is told without it.  The      *)
(* service of another release does not speak the client's properties.      *)
(*                                                                         *)
(* The service starts again with what it has stored, or with defaults at   *)
(* revision 0 when its files are gone.  Messages of one sender arrive in   *)
(* their order; a read of a former owner is no longer awaited.             *)
(***************************************************************************)
EXTENDS Naturals, Sequences, SequencesExt

CONSTANTS
    None,
    Group,              \* of settings: bar height, border, spacing, ...
    MaxSettingsRevision,  \* bound: the revision that is the last
    MaxSettingsAsked,     \* bound on changes the user asks for
    MaxSettingsEvents,    \* bound on restarts and on changes at run time
    MaxSettingsTimeouts   \* bound on calls that are given up

VARIABLES
    settingsService,
    settingsCalls,      \* calls under way
    settingsNews,       \* replies and signals under way
    settingsClient,
    settingsBounds,     \* events so far, by kind
    \* history
    offered,            \* revisions with the values that a service had
    displayed           \* those that the client has shown

vars == <<settingsService, settingsCalls, settingsNews, settingsClient, settingsBounds,
          offered, displayed>>

Value == {"default", "chosen"}
Defaults == [g \in Group |-> "default"]

-----------------------------------------------------------------------------
(* The service.  What it stores is what it has. *)

Changed(values, revision, runtime) ==
    [kind |-> "changed", values |-> values, revision |-> revision, runtime |-> runtime]

Own(service) == <<service.revision, service.values>>

\* The groups that differ, each as a whole, and the revision.
publishChange(service, previous) ==
    Changed([g \in {h \in Group : service.values[h] # previous.values[h]} |->
                 service.values[g]], service.revision, None)

publishRuntimeChange(service) == Changed(<<>>, None, service.runtime)

Answers(service, value, sent) ==
    [service |-> service, error |-> None, value |-> value, sent |-> sent]
Fails(service, error) ==
    [service |-> service, error |-> error, value |-> None, sent |-> <<>>]

GetAll(service) ==
    Answers(service, Changed(service.values, service.revision, service.runtime), <<>>)

\* setBarHeight, setSharedBorder, ...
SetGroup(service, group, value, persisted) ==
    IF service.values[group] = value THEN Answers(service, None, <<>>)
    ELSE IF service.revision = MaxSettingsRevision \/ ~persisted
        THEN Fails(service, "refused")
    ELSE LET next == [service EXCEPT !.values[group] = value, !.revision = @ + 1]
         IN Answers(next, None, <<publishChange(next, service)>>)

\* The bus starts the service for a call, or says that there is none.
Handled(service, call, persisted) ==
    CASE ~service.up -> Fails(service, "unknown")
      [] service.up /\ call.method = "GetAll" -> GetAll(service)
      [] service.up /\ call.method = "SetGroup" ->
             SetGroup(service, call.group, call.value, persisted)

-----------------------------------------------------------------------------
(* The client.  Each operator takes it, with the calls it has sent and     *)
(* whether it has stopped to await its reads, to what it becomes.          *)

Read == [method |-> "GetAll", awaited |-> TRUE]

\* A read nobody awaits has no effect anywhere.
WithoutReads(calls) == SelectSeq(calls, LAMBDA call : call.method # "GetAll")

refresh(c) == [c EXCEPT !.out = Append(@, Read)]

clearError(c) == [c EXCEPT !.error = FALSE]

setAvailable(c, available) ==
    IF available = c.available THEN c
    ELSE IF available THEN clearError([c EXCEPT !.available = TRUE])
    ELSE [c EXCEPT !.available = FALSE]

\* Every group and what is measured at run time is there.
Complete(p) == DOMAIN p.values = Group /\ p.revision # None /\ p.runtime # None

\* Settings come with the revision they belong to.
Attributed(p) == DOMAIN p.values # {} => p.revision # None

Merged(c, p) ==
    [c EXCEPT !.values = [g \in Group |->
                  IF g \in DOMAIN p.values THEN p.values[g] ELSE c.values[g]],
              !.revision = IF p.revision = None THEN @ ELSE p.revision,
              !.runtime = IF p.runtime = None THEN @ ELSE p.runtime]

\* An earlier revision, or other settings under the same one.
Rewinds(c, p) ==
    /\ c.established /\ p.revision # None
    /\ \/ p.revision < c.revision
       \/ p.revision = c.revision /\ Merged(c, p).values # c.values

\* applyProperties, when it does not refuse.
Accepts(c, fits, p, whole) ==
    /\ fits
    /\ whole => Complete(p)
    /\ Attributed(p)
    /\ ~Rewinds(c, p)

\* What p does not name stays, and its settings are compared with the revision
\* before any of them is taken over.
applyProperties(c, p) == [Merged(c, p) EXCEPT !.established = TRUE]

propertiesChanged(c, fits, p) ==
    IF c.available /\ Accepts(c, fits, p, FALSE)
    THEN setAvailable(applyProperties(c, p), TRUE)
    ELSE refresh(setAvailable(c, FALSE))

serviceOwnerChanged(c, owned) ==
    LET lost == setAvailable([c EXCEPT !.stale = TRUE, !.out = WithoutReads(@)], FALSE)
    IN IF owned THEN refresh(lost) ELSE lost

Refreshed(c, reply) ==
    IF reply.error # None THEN setAvailable(c, FALSE)
    ELSE IF Accepts(c, reply.fits, reply.value, TRUE)
        THEN setAvailable(applyProperties(c, reply.value), TRUE)
    ELSE setAvailable(c, FALSE)

beginMutation(c, group, value) ==
    [clearError(c) EXCEPT !.pendingOperations = @ + 1,
         !.out = Append(@, [method |-> "SetGroup", awaited |-> TRUE,
                            group |-> group, value |-> value])]

Mutated(c, reply) ==
    LET told ==
            IF reply.error = "unknown"
                THEN setAvailable([c EXCEPT !.error = TRUE], FALSE)
            ELSE IF reply.error # None THEN [c EXCEPT !.error = TRUE]
            ELSE IF ~c.available THEN refresh(c)
            ELSE c
    IN [told EXCEPT !.pendingOperations = @ - 1]

Received(c, message) ==
    CASE message.kind = "owner" -> serviceOwnerChanged(c, message.owned)
      [] message.kind = "changed" -> propertiesChanged(c, message.fits, message)
      [] message.kind = "reply" /\ message.method = "GetAll" -> Refreshed(c, message)
      [] message.kind = "reply" /\ message.method = "SetGroup" -> Mutated(c, message)

-----------------------------------------------------------------------------
Init ==
    /\ settingsService = [up |-> TRUE, fits |-> TRUE, values |-> Defaults,
                          revision |-> 0, runtime |-> "day"]
    /\ settingsClient = [available |-> FALSE, established |-> FALSE,
                         values |-> Defaults, revision |-> 0, runtime |-> "day",
                         pendingOperations |-> 0, error |-> FALSE,
                         out |-> <<>>, stale |-> FALSE]
    /\ settingsCalls = <<Read>>
    /\ settingsNews = <<>>
    /\ settingsBounds = [asked |-> 0, events |-> 0, timeouts |-> 0]
    /\ offered = {Own(settingsService)}
    /\ displayed = {}

Counted(bound, max) ==
    /\ settingsBounds[bound] < max
    /\ settingsBounds' = [settingsBounds EXCEPT ![bound] = @ + 1]

Told(service, messages) ==
    [i \in DOMAIN messages |-> messages[i] @@ [fits |-> service.fits]]

ServiceStep(service, messages) ==
    /\ settingsService' = service
    /\ settingsNews' = settingsNews \o Told(service, messages)
    /\ offered' = offered \cup {Own(service)}

ClientStep(next, news) == \E c \in {next} :
    /\ settingsClient' = [c EXCEPT !.out = <<>>, !.stale = FALSE]
    /\ settingsCalls' = (IF c.stale THEN WithoutReads(settingsCalls) ELSE settingsCalls)
                            \o c.out
    /\ settingsNews' = SelectSeq(news, LAMBDA message :
                           c.stale /\ message.kind = "reply" => message.method # "GetAll")
    /\ displayed' = IF c.established THEN displayed \cup {<<c.revision, c.values>>}
                    ELSE displayed

Reply(call, error, value) ==
    IF call.awaited
    THEN <<[kind |-> "reply", method |-> call.method, error |-> error, value |-> value]>>
    ELSE <<>>

\* A call reaches the service, or the bus has nobody to give it to.
CallHandled(persisted) ==
    /\ settingsCalls # <<>>
    /\ settingsCalls' = Tail(settingsCalls)
    /\ LET call == Head(settingsCalls) IN
       \E answer \in {Handled(settingsService, call, persisted)} :
           ServiceStep(answer.service,
                       answer.sent \o Reply(call, answer.error, answer.value))
    /\ UNCHANGED <<settingsClient, settingsBounds, displayed>>

\* Another client sets a group.
OtherSets(group, value) ==
    /\ settingsService.up
    /\ Counted("events", MaxSettingsEvents)
    /\ LET answer == SetGroup(settingsService, group, value, TRUE) IN
       /\ answer.service # settingsService
       /\ ServiceStep(answer.service, answer.sent)
    /\ UNCHANGED <<settingsCalls, settingsClient, displayed>>

\* reconcileRuntime finds another time of the day.
RuntimeChanges ==
    /\ settingsService.up
    /\ Counted("events", MaxSettingsEvents)
    /\ \E service \in {[settingsService EXCEPT !.runtime =
                            IF @ = "day" THEN "night" ELSE "day"]} :
           ServiceStep(service, <<publishRuntimeChange(service)>>)
    /\ UNCHANGED <<settingsCalls, settingsClient, displayed>>

ServiceCrash ==
    /\ settingsService.up
    /\ Counted("events", MaxSettingsEvents)
    /\ settingsService' = [settingsService EXCEPT !.up = FALSE]
    /\ settingsNews' = settingsNews
           \o FoldSeq(LAMBDA call, answers : Reply(call, "lost", None) \o answers,
                      <<>>, settingsCalls)
           \o <<[kind |-> "owner", owned |-> FALSE]>>
    /\ settingsCalls' = <<>>
    /\ UNCHANGED <<settingsClient, offered, displayed>>

\* Of this release or another, with its files or without.
ServiceStart(fits, kept) ==
    /\ ~settingsService.up
    /\ settingsService' = [up |-> TRUE, fits |-> fits, runtime |-> "day",
                           values |-> IF kept THEN settingsService.values ELSE Defaults,
                           revision |-> IF kept THEN settingsService.revision ELSE 0]
    /\ settingsNews' = Append(settingsNews, [kind |-> "owner", owned |-> TRUE])
    /\ offered' = offered \cup {Own(settingsService')}
    /\ UNCHANGED <<settingsCalls, settingsClient, settingsBounds, displayed>>

MessageReceived ==
    /\ settingsNews # <<>>
    /\ ClientStep(Received(settingsClient, Head(settingsNews)), Tail(settingsNews))
    /\ UNCHANGED <<settingsService, settingsBounds, offered>>

\* A call is given up; its answer, if it comes, is lost.
CallTimedOut ==
    /\ Counted("timeouts", MaxSettingsTimeouts)
    /\ settingsCalls # <<>> /\ Head(settingsCalls).awaited
    /\ LET call == Head(settingsCalls) IN
       \E c \in {Received(settingsClient, Head(Reply(call, "lost", None)))} :
           /\ settingsClient' = [c EXCEPT !.out = <<>>]
           /\ settingsCalls' = [settingsCalls EXCEPT ![1].awaited = FALSE] \o c.out
    /\ UNCHANGED <<settingsService, settingsNews, offered, displayed>>

UserSets(group, value) ==
    /\ settingsClient.available
    /\ Counted("asked", MaxSettingsAsked)
    /\ value # settingsClient.values[group]
    /\ ClientStep(beginMutation(settingsClient, group, value), settingsNews)
    /\ UNCHANGED <<settingsService, offered>>

Next ==
    \/ \E persisted \in BOOLEAN : CallHandled(persisted)
    \/ \E group \in Group, value \in Value : OtherSets(group, value)
    \/ RuntimeChanges
    \/ ServiceCrash
    \/ \E fits, kept \in BOOLEAN : ServiceStart(fits, kept)
    \/ MessageReceived
    \/ CallTimedOut
    \/ \E group \in Group, value \in Value : UserSets(group, value)

Spec == Init /\ [][Next]_vars

-----------------------------------------------------------------------------
(***************************************************************************)
(* What the bar shows is a configuration that a service had, never a mix   *)
(* of two; one revision is never shown with two configurations, and the    *)
(* present one is the latest shown, though services start again without    *)
(* their files and count the same revisions anew.                          *)
(***************************************************************************)
ShownWasOffered ==
    /\ displayed \subseteq offered
    /\ \A one, other \in displayed : one[1] = other[1] => one = other
    /\ \A one \in displayed : one[1] <= settingsClient.revision

\* With nothing under way and no call given up, the client shows what the
\* service has, unless the service is behind what the client has shown or
\* speaks of other properties; and it waits for nothing.
SettingsFollow ==
    /\ settingsService.up
    /\ settingsCalls = <<>> /\ settingsNews = <<>>
    /\ settingsBounds.timeouts = 0
    =>  LET told == Changed(settingsService.values, settingsService.revision,
                            settingsService.runtime)
        IN /\ settingsClient.pendingOperations = 0
           /\ settingsClient.available <=>
                  settingsService.fits /\ ~Rewinds(settingsClient, told)
           /\ settingsClient.available => Merged(settingsClient, told) = settingsClient

ShellSettingsHold == ShownWasOffered /\ SettingsFollow

=============================================================================
