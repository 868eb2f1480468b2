------------------------- MODULE CompositorClient -------------------------
(***************************************************************************)
(* The settings application's client of the compositor service, and the    *)
(* bus between the two.  The client shows a snapshot with the revision and *)
(* the catalogs it belongs to, saves an edit of it in a chain of calls     *)
(* (replace, read back, apply), previews displays, and starts over         *)
(* whenever the service announces a change or is replaced on the bus.      *)
(*                                                                         *)
(* Calls, replies and signals keep their order, as on one connection.  A   *)
(* call the client has given up is still executed.  The generations of the *)
(* code, which make a handler drop a reply that is not of the present      *)
(* owner or refresh, are modelled by forgetting such calls at once: the    *)
(* service still executes those that write.                                *)
(***************************************************************************)
EXTENDS Naturals, Sequences

CONSTANTS
    MaxOperation,   \* bound: operations and refreshes the user begins
    MaxDisturbance, \* bound: changes by others, lapsed previews, crashes and
                    \* reads that fail
    None

VARIABLES
    service,        \* the running service and what it stores
    requests,       \* calls on their way to the service
    inbox,          \* replies and signals on their way to the client
    client,
    operations,     \* begun so far, which numbers what they store
    disturbances    \* so far

bus == <<requests, inbox>>
begun == <<operations, disturbances>>
vars == <<service, bus, client, begun>>

-----------------------------------------------------------------------------
(* What is stored is known by its author and a number. *)

Mine(operation) == <<"mine", operation>>
Another(author) == <<author, service.revision + 1>>

\* What the client shows between its answer to a preview and the next read.
Ending == 0

\* The properties a service publishes.
Published(s) ==
    [available |-> s.available,
     revision |-> IF s.available THEN s.revision ELSE 0,
     digest |-> s.digest, managed |-> s.managed,
     applied |-> s.applied, applyState |-> s.applyState,
     activation |-> s.activation,
     preview |-> IF s.preview = None THEN None ELSE s.preview.id]

\* Faulty variant of Hydration: a new revision alone is not read.
HydrationWithoutRevision(p) == <<p.available, p.digest, p.preview>>

\* A change of these makes a client read everything again.
Hydration(p) == <<p.available, p.revision, p.digest, p.preview>>

Current(p) == p.applyState = "current" /\ p.activation = "none"
Idle(p) == p.managed /\ p.preview = None

ReadCalls ==
    {"GetAll", "GetSnapshot", "GetOptionCatalog", "GetActionCatalog",
     "GetConnectedDisplays", "GetPendingDisplayConfirmation"}

Read(kind) == [kind |-> kind, awaited |-> TRUE]

\* What is left of a queue: the messages at these places, in their order.
At(queue, places) ==
    LET upTo[n \in 0..Len(queue)] ==
            IF n = 0 THEN <<>>
            ELSE IF n \in places THEN Append(upTo[n - 1], queue[n])
            ELSE upTo[n - 1]
    IN  upTo[Len(queue)]

IsRead(m) == m.kind \in ReadCalls
IsSignal(m) == m.kind \in {"PropertiesChanged", "NameOwnerChanged"}

\* The reads of a refresh that is no longer the latest are forgotten.
Superseded(queue) == At(queue, {i \in DOMAIN queue : ~IsRead(queue[i])})

\* So are the calls of an operation that was given up or lost its owner.
GivenUp(queue) ==
    [i \in DOMAIN queue |->
        IF IsRead(queue[i]) THEN queue[i]
        ELSE [queue[i] EXCEPT !.awaited = FALSE]]
Signals(queue) == At(queue, {i \in DOMAIN queue : IsSignal(queue[i])})
ReadsAndSignals(queue) ==
    At(queue, {i \in DOMAIN queue : IsSignal(queue[i]) \/ IsRead(queue[i])})

-----------------------------------------------------------------------------
(* What the client derives from its state. *)

ReadyToWrite(c) == c.available /\ c.operation = None

\* optionGroupAvailable
Editable(c) ==
    /\ ReadyToWrite(c)
    /\ c.optionReady /\ c.actionReady /\ c.complete
    /\ Idle(c.properties) /\ Current(c.properties)
    /\ c.properties.applied = c.snapshot.revision

RetryApplyAvailable(c) ==
    /\ ReadyToWrite(c) /\ Idle(c.properties)
    /\ c.properties.applyState \in {"retained", "failed"}
    /\ c.properties.applied # c.snapshot.revision
    /\ c.properties.activation = "reload"

RecoveryAvailable(c) ==
    /\ ReadyToWrite(c) /\ Idle(c.properties)
    /\ c.properties.applied \notin {0, c.snapshot.revision}
    /\ c.properties.applyState \in {"retained", "failed"}

\* updateAllOptionGroupProjections
Projected(c) ==
    [c EXCEPT !.complete =
        /\ c.optionReady /\ c.actionReady
        /\ c.option = c.digest /\ c.action = c.digest
        /\ c.snapshot.digest = c.digest]

Unavailable(c) == [c EXCEPT !.available = FALSE]

NothingReady(c) ==
    [c EXCEPT !.available = FALSE, !.optionReady = FALSE,
              !.actionReady = FALSE, !.complete = FALSE,
              !.displaysReady = FALSE, !.unread = FALSE]

\* A published preview the client does not know ends its ownership.
KeepsOwnership(c, p) == p.preview = c.properties.preview

ApplyProperties(c, p) ==
    LET next ==
        [c EXCEPT !.properties = p, !.digest = p.digest,
                  !.token = IF KeepsOwnership(c, p) THEN @ ELSE None]
    IN  IF p.digest = c.digest THEN next
        ELSE [next EXCEPT !.option = None, !.optionReady = FALSE,
                          !.action = None, !.actionReady = FALSE,
                          !.complete = FALSE]

\* The end of an operation, which a refresh always follows.
Finished(c) == [c EXCEPT !.operation = None]

-----------------------------------------------------------------------------
(* Steps of the client. *)

\* The client becomes c, takes the first message off the inbox and sends.
Continue(c, calls) ==
    /\ client' = c
    /\ inbox' = Tail(inbox)
    /\ requests' = requests \o calls
    /\ UNCHANGED <<service, begun>>

\* refresh(), after a message has been taken off the inbox.
Refreshed(c, rest) ==
    /\ client' = NothingReady(c)
    /\ inbox' = Superseded(rest)
    /\ requests' = Append(Superseded(requests), Read("GetAll"))

Refresh(c) ==
    /\ IF c.operation # None
       THEN client' = c /\ inbox' = Tail(inbox) /\ UNCHANGED requests
       ELSE Refreshed(c, Tail(inbox))
    /\ UNCHANGED <<service, begun>>

\* An operation ends and tells the user how.
Ends(c, outcome) == Refresh([Finished(c) EXCEPT !.told = outcome])

Message(kind) == inbox # <<>> /\ Head(inbox).kind = kind

PropertiesChanged ==
    /\ Message("PropertiesChanged")
    /\ LET next == ApplyProperties(client, Head(inbox).properties)
       IN  IF Head(inbox).hydration THEN Refresh(next)
           ELSE Continue(next, <<>>)

\* Everything read from the former owner is dropped.
ServiceOwnerChanged ==
    /\ Message("NameOwnerChanged")
    /\ LET forgotten ==
               [NothingReady(Finished(client)) EXCEPT
                   !.option = None, !.action = None, !.token = None,
                   !.properties.preview = None,
                   !.told = None]
           rest == Signals(Tail(inbox))
           calls == Superseded(GivenUp(requests))
       IN  /\ client' = forgotten
           /\ inbox' = rest
           /\ requests' = IF Head(inbox).up THEN Append(calls, Read("GetAll"))
                          ELSE calls
    /\ UNCHANGED <<service, begun>>

\* What is left when a read ends with an error or without an answer: nothing
\* of what it would have brought, and nobody asks again.
WithoutOptions(c) ==
    [c EXCEPT !.option = None, !.optionReady = FALSE, !.complete = FALSE]
WithoutActions(c) ==
    [c EXCEPT !.action = None, !.actionReady = FALSE, !.complete = FALSE]
WithoutDisplays(c) == [c EXCEPT !.displaysReady = FALSE]

Without(c, kind) ==
    CASE kind \in {"GetAll", "GetSnapshot"} -> Unavailable(c)
      [] kind = "GetOptionCatalog" -> WithoutOptions(c)
      [] kind = "GetActionCatalog" -> WithoutActions(c)
      [] kind \in {"GetConnectedDisplays", "GetPendingDisplayConfirmation"} ->
             WithoutDisplays(c)

HydrateProperties ==
    /\ Message("GetAll")
    /\ LET next == ApplyProperties(client, Head(inbox).properties)
       IN  IF next.properties.available
           THEN Continue(next, <<Read("GetSnapshot")>>)
           ELSE Continue(Unavailable(next), <<>>)

MissingCatalogs(c) ==
    (IF c.option = c.digest THEN <<>> ELSE <<Read("GetOptionCatalog")>>)
    \o (IF c.action = c.digest THEN <<>> ELSE <<Read("GetActionCatalog")>>)

HydrateSnapshot ==
    /\ Message("GetSnapshot")
    /\ LET snapshot == Head(inbox).snapshot
           p == client.properties
           shown == [client EXCEPT !.snapshot = snapshot, !.digest = snapshot.digest,
                                   !.complete = FALSE, !.available = TRUE]
       IN  IF snapshot.revision # p.revision \/ snapshot.digest # p.digest
           THEN Continue(Unavailable(client), <<>>)
           ELSE Continue(
                    Projected([shown EXCEPT
                        !.optionReady = (shown.option = shown.digest),
                        !.actionReady = (shown.action = shown.digest)]),
                    Append(MissingCatalogs(shown),
                           Read("GetConnectedDisplays")))

\* A catalog whose bytes do not have the digest of the snapshot is refused.
HydrateOptionCatalog ==
    /\ Message("GetOptionCatalog")
    /\ Continue(
           IF Head(inbox).digest = client.digest
           THEN Projected([client EXCEPT !.option = client.digest,
                                         !.optionReady = TRUE])
           ELSE WithoutOptions(client),
           <<>>)

HydrateActionCatalog ==
    /\ Message("GetActionCatalog")
    /\ Continue(
           IF Head(inbox).digest = client.digest
           THEN Projected([client EXCEPT !.action = client.digest,
                                         !.actionReady = TRUE])
           ELSE WithoutActions(client),
           <<>>)

HydrateDisplays ==
    /\ Message("GetConnectedDisplays")
    /\ LET next == [client EXCEPT !.displaysReady = TRUE]
       IN  IF client.properties.preview \notin {None, Ending}
              /\ client.token = None
           THEN Continue(next, <<Read("GetPendingDisplayConfirmation")>>)
           ELSE Continue([next EXCEPT !.available = TRUE], <<>>)

\* The service gives its token to the client that began the preview only.
HydratePending ==
    /\ Message("GetPendingDisplayConfirmation")
    /\ LET token == Head(inbox).token
       IN  Continue(
               IF token \in {None, client.properties.preview}
               THEN [client EXCEPT !.token = token, !.available = TRUE]
               ELSE WithoutDisplays(client),
               <<>>)

-----------------------------------------------------------------------------
(* Requests of the user. *)

\* A call of an operation carries what the client showed when it was sent.
Operation(kind, c) ==
    [kind |-> kind, awaited |-> TRUE, digest |-> c.digest,
     revision |-> c.snapshot.revision, shown |-> c.snapshot.content]

Begin(operation, call) ==
    /\ client' = [client EXCEPT !.operation = operation, !.told = None]
    /\ requests' = Append(requests, call)
    /\ operations < MaxOperation /\ operations' = operations + 1
    /\ UNCHANGED <<service, inbox, disturbances>>

Mutation(kind) == Begin([step |-> kind], Operation(kind, client))

AdoptManagedConfiguration ==
    /\ ReadyToWrite(client) /\ ~client.properties.managed
    /\ Mutation("Adopt")

ApplyConfiguration ==
    /\ ReadyToWrite(client) /\ Idle(client.properties)
    /\ Mutation("Apply")

RecoverConfiguration ==
    /\ RecoveryAvailable(client)
    /\ Mutation("Recover")

PreviewDisplayConfiguration ==
    /\ ReadyToWrite(client) /\ Idle(client.properties)
    /\ client.displaysReady /\ Current(client.properties)
    /\ client.properties.applied = client.snapshot.revision
    /\ Mutation("Preview")

\* Keeping and reverting need the token only, so a refresh may be under way.
AnswerDisplayConfirmation(kind) ==
    /\ client.operation = None
    /\ client.token # None /\ client.token = client.properties.preview
    /\ Begin([step |-> kind],
             [kind |-> kind, awaited |-> TRUE, token |-> client.token])

\* Faulty variant of Retried: the second attempt is made at the revision the
\* service has announced meanwhile.
RetriedAtTheLatest(call) ==
    [call EXCEPT !.revision = client.properties.revision]

\* The same call once more.
Retried(call) == call

Replacement(step) ==
    [kind |-> "Replace", awaited |-> TRUE, digest |-> step.digest,
     revision |-> step.expected, shown |-> step.base, content |-> step.content]

\* saveAppearance and the other groups: an edit of the snapshot that is shown.
SaveOptionGroup ==
    /\ Editable(client)
    /\ LET step == [step |-> "Replace", retry |-> FALSE,
                    expected |-> client.snapshot.revision,
                    digest |-> client.digest, content |-> Mine(operations + 1),
                    base |-> client.snapshot.content]
       IN  Begin(step, Replacement(step))

Application(step) ==
    [kind |-> "SavedApply", awaited |-> TRUE, digest |-> step.digest,
     revision |-> step.expected, shown |-> step.content]

RetryApply ==
    /\ RetryApplyAvailable(client)
    /\ LET step == [step |-> "SavedApply", retry |-> FALSE,
                    expected |-> client.snapshot.revision,
                    digest |-> client.digest,
                    content |-> client.snapshot.content]
       IN  Begin(step, Application(step))

\* The pages of the settings have a button for it; while an operation is under
\* way it is put off to the end of that, which refreshes anyway.
RefreshAsked ==
    /\ client.operation = None
    /\ Refreshed(client, inbox)
    /\ operations < MaxOperation /\ operations' = operations + 1
    /\ UNCHANGED <<service, disturbances>>

-----------------------------------------------------------------------------
(* Replies to an operation. *)

Told(outcome) == [outcome |-> outcome]
Saved(outcome) ==
    [outcome |-> outcome, content |-> client.operation.content]

\* beginMutation
MutationReply ==
    /\ \E kind \in {"Adopt", "Apply", "Recover", "Preview"} : Message(kind)
    /\ IF Head(inbox).ok /\ Head(inbox).kind = "Preview"
       THEN Ends([client EXCEPT !.token = Head(inbox).token,
                                !.properties.preview = Head(inbox).token],
                 Told("Done"))
       ELSE Ends(client, Told(IF Head(inbox).ok THEN "Done" ELSE "Failed"))

AnswerReply ==
    /\ \E kind \in {"Confirm", "Revert"} : Message(kind)
    /\ IF Head(inbox).ok
       THEN Ends([client EXCEPT !.token = None,
                                !.properties.preview = Ending],
                 Told("Done"))
       ELSE Ends(client, Told("Failed"))

Verify(c) == [c EXCEPT !.operation.step = "VerifyProperties"]
VerifyCall == [kind |-> "VerifyProperties", awaited |-> TRUE]

ReplaceReply ==
    /\ Message("Replace")
    /\ IF ~Head(inbox).ok THEN Ends(client, Saved("Refused"))
       ELSE IF Head(inbox).revision # client.operation.expected + 1
       THEN Ends(client, Saved("Unconfirmed"))
       ELSE Continue(Verify(client), <<VerifyCall>>)

VerifyPropertiesReply ==
    /\ Message("VerifyProperties")
    /\ LET p == Head(inbox).properties
           next == ApplyProperties(client, p)
       IN  IF p.revision # client.operation.expected + 1
              \/ p.digest # client.operation.digest
              \/ ~p.available \/ ~Idle(p)
           THEN Ends(next, Saved("Unconfirmed"))
           ELSE Continue([next EXCEPT !.operation.step = "VerifySnapshot"],
                         <<[kind |-> "VerifySnapshot", awaited |-> TRUE]>>)

IsTheCandidate(snapshot, step) ==
    /\ snapshot.revision = step.expected + 1
    /\ snapshot.digest = step.digest
    /\ snapshot.content = step.content

VerifySnapshotReply ==
    /\ Message("VerifySnapshot")
    /\ LET snapshot == Head(inbox).snapshot
           p == client.properties
           next == Projected([client EXCEPT !.snapshot = snapshot,
                                            !.digest = snapshot.digest])
           apply == [step |-> "SavedApply", retry |-> FALSE,
                     expected |-> snapshot.revision,
                     digest |-> snapshot.digest,
                     content |-> client.operation.content]
       IN  IF ~IsTheCandidate(snapshot, client.operation)
           THEN Ends(client, Saved("Unconfirmed"))
           ELSE IF Current(p) /\ p.applied = snapshot.revision
           THEN Ends(next, Saved("Applied"))
           ELSE IF p.activation # "reload"
                   \/ p.applyState \notin {"retained", "failed"}
           THEN Ends(next, Saved("ActivationRequired"))
           ELSE Continue([next EXCEPT !.operation = apply],
                         <<Application(apply)>>)

AppliedAsAsked(p, step) ==
    /\ p.revision = step.expected /\ p.digest = step.digest
    /\ p.applied = step.expected /\ Current(p)
    /\ p.available

ApplyReply ==
    /\ Message("SavedApply")
    /\ Ends(client, Saved(IF Head(inbox).ok THEN "Applied" ELSE "NotApplied"))

ReconcileReply ==
    /\ Message("ReconcileProperties")
    /\ LET p == Head(inbox).properties
       IN  Ends(ApplyProperties(client, p),
                Saved(IF AppliedAsAsked(p, client.operation)
                      THEN "Applied" ELSE "ApplyUnconfirmed"))

-----------------------------------------------------------------------------
(* A call times out: its reply will not be taken, the call stays queued. *)

GiveUp(c, calls) ==
    /\ client' = c
    /\ inbox' = ReadsAndSignals(inbox)
    /\ requests' = GivenUp(requests) \o calls
    /\ UNCHANGED <<service, begun>>

GiveUpAndRefresh(c, outcome) ==
    /\ client' = NothingReady([Finished(c) EXCEPT !.told = outcome])
    /\ inbox' = Signals(inbox)
    /\ requests' = Append(Superseded(GivenUp(requests)), Read("GetAll"))
    /\ UNCHANGED <<service, begun>>

Awaiting(step) == client.operation # None /\ client.operation.step = step

\* Faulty variant of ReplaceTimesOut: no answer is taken for a refusal.
ReplaceTimesOutAsRefused ==
    /\ Awaiting("Replace")
    /\ GiveUpAndRefresh(client, Saved("Refused"))

\* One retry of the same call; then the outcome is read back.
ReplaceTimesOut ==
    /\ Awaiting("Replace")
    /\ IF client.operation.retry THEN GiveUp(Verify(client), <<VerifyCall>>)
       ELSE GiveUp([client EXCEPT !.operation.retry = TRUE],
                   <<Retried(Replacement(client.operation))>>)

ApplyTimesOut ==
    /\ Awaiting("SavedApply")
    /\ IF AppliedAsAsked(client.properties, client.operation)
       THEN GiveUpAndRefresh(client, Saved("Applied"))
       ELSE IF client.operation.retry
       THEN GiveUp([client EXCEPT !.operation.step = "ReconcileProperties"],
                   <<[kind |-> "ReconcileProperties", awaited |-> TRUE]>>)
       ELSE GiveUp([client EXCEPT !.operation.retry = TRUE],
                   <<Application(client.operation)>>)

OperationTimesOut ==
    \/ /\ \E step \in {"VerifyProperties", "VerifySnapshot"} : Awaiting(step)
       /\ GiveUpAndRefresh(client, Saved("Unconfirmed"))
    \/ /\ Awaiting("ReconcileProperties")
       /\ GiveUpAndRefresh(client, Saved("ApplyUnconfirmed"))
    \/ /\ \E step \in {"Adopt", "Apply", "Recover", "Confirm", "Revert"} :
              Awaiting(step)
       /\ GiveUpAndRefresh(client, Told("Failed"))
    \/ /\ Awaiting("Preview")
       /\ GiveUpAndRefresh([client EXCEPT !.token = None], Told("Failed"))

\* A read that was not answered in time, because the service was at work on
\* something else, or was answered with an error.
ReadFails ==
    /\ \/ \E i \in DOMAIN requests :
              /\ IsRead(requests[i])
              /\ client' = [Without(client, requests[i].kind) EXCEPT !.unread = TRUE]
              /\ requests' = At(requests, DOMAIN requests \ {i})
              /\ UNCHANGED inbox
       \/ \E i \in DOMAIN inbox :
              /\ IsRead(inbox[i])
              /\ client' = [Without(client, inbox[i].kind) EXCEPT !.unread = TRUE]
              /\ inbox' = At(inbox, DOMAIN inbox \ {i})
              /\ UNCHANGED requests
    /\ disturbances < MaxDisturbance /\ disturbances' = disturbances + 1
    /\ UNCHANGED <<service, operations>>

-----------------------------------------------------------------------------
(* The service executes one call at a time and announces what it changed    *)
(* before it answers.                                                       *)

Announced(next) ==
    LET old == Published(service)
        new == Published(next)
    IN  IF old = new THEN <<>>
        ELSE <<[kind |-> "PropertiesChanged", properties |-> new,
                hydration |-> Hydration(old) # Hydration(new)]>>

Disturbed ==
    /\ disturbances < MaxDisturbance
    /\ disturbances' = disturbances + 1
    /\ UNCHANGED <<client, operations>>

Becomes(next) ==
    /\ service' = next
    /\ inbox' = inbox \o Announced(next)
    /\ Disturbed /\ UNCHANGED requests

Call == Head(requests)
Asked(kinds) == service.up /\ requests # <<>> /\ Call.kind \in kinds

\* The service becomes next and answers.
Answers(next, reply) ==
    /\ service' = next
    /\ requests' = Tail(requests)
    /\ inbox' = inbox \o Announced(next)
                \o (IF Call.awaited THEN <<reply>> ELSE <<>>)
    /\ UNCHANGED <<client, begun>>

Refuses == Answers(service, [kind |-> Call.kind, ok |-> FALSE])

GetProperties ==
    /\ Asked({"GetAll", "VerifyProperties", "ReconcileProperties"})
    /\ Answers(service, [kind |-> Call.kind, properties |-> Published(service)])

GetSnapshot ==
    /\ Asked({"GetSnapshot", "VerifySnapshot"})
    /\ Answers(service,
               [kind |-> Call.kind,
                snapshot |-> [revision |-> Published(service).revision,
                              content |-> service.content,
                              digest |-> service.digest]])

GetCatalog ==
    /\ Asked({"GetOptionCatalog", "GetActionCatalog"})
    /\ Answers(service, [kind |-> Call.kind, digest |-> service.digest])

GetConnectedDisplays ==
    /\ Asked({"GetConnectedDisplays"})
    /\ Answers(service, [kind |-> Call.kind])

GetPendingDisplayConfirmation ==
    /\ Asked({"GetPendingDisplayConfirmation"})
    /\ Answers(service,
               [kind |-> Call.kind,
                token |-> IF service.preview # None /\ service.preview.mine
                          THEN service.preview.id ELSE None])

\* checkMutationAuthority and checkNoDisplayConfirmation
Authorized ==
    /\ service.available /\ service.preview = None
    /\ Call.revision = service.revision /\ Call.digest = service.digest

Stores(content) ==
    [service EXCEPT !.revision = @ + 1, !.content = content]

Runs(s) ==
    [s EXCEPT !.applied = s.revision, !.applyState = "current",
              !.activation = "none", !.managed = TRUE,
              !.ran = @ \cup {s.content}]

\* Stored configurations are retained until they are applied.
Retains(s, activation) ==
    [s EXCEPT !.applyState = IF s.managed THEN "retained" ELSE @,
              !.activation = activation]

\* A retry of what is stored succeeds; the store may fail.
ReplaceSnapshot ==
    /\ Asked({"Replace"})
    /\ IF /\ service.available /\ Call.revision + 1 = service.revision
          /\ Call.digest = service.digest /\ Call.content = service.content
       THEN Answers(service, [kind |-> Call.kind, ok |-> TRUE,
                              revision |-> service.revision])
       ELSE \/ Refuses
            \/ /\ Authorized
               /\ \E activation \in {"reload", "restart"} :
                      Answers(Retains(Stores(Call.content), activation),
                              [kind |-> Call.kind, ok |-> TRUE,
                               revision |-> service.revision + 1])

Accepted(next) == Answers(next, [kind |-> Call.kind, ok |-> TRUE])

\* The activation may fail, and a restart cannot be satisfied.
Apply ==
    /\ Asked({"Apply", "SavedApply"})
    /\ IF ~(Authorized /\ service.managed) \/ service.activation = "restart"
       THEN Refuses
       ELSE IF service.activation = "none" THEN Accepted(service)
       ELSE \/ Accepted(Runs(service))
            \/ Answers([service EXCEPT !.applyState = "failed"],
                       [kind |-> Call.kind, ok |-> FALSE])

Adopt ==
    /\ Asked({"Adopt"})
    /\ \/ Refuses
       \/ /\ Authorized /\ ~service.managed
          /\ service.activation = "reload"
          /\ Accepted(Runs(service))

Recover ==
    /\ Asked({"Recover"})
    /\ \/ Refuses
       \/ /\ Authorized /\ service.managed
          /\ Accepted(Runs(Stores(Another("recovered"))))

Previews(mine) ==
    [service EXCEPT !.previews = @ + 1,
                    !.preview = [id |-> service.previews + 1, mine |-> mine]]

MayPreview == service.available /\ service.managed /\ service.preview = None

PreviewDisplays ==
    /\ Asked({"Preview"})
    /\ \/ Refuses
       \/ /\ Authorized /\ MayPreview
          /\ Answers(Previews(TRUE), [kind |-> Call.kind, ok |-> TRUE,
                                      token |-> service.previews + 1])

HoldsToken ==
    /\ service.preview # None /\ service.preview.mine
    /\ service.preview.id = Call.token

Confirm ==
    /\ Asked({"Confirm"})
    /\ \/ Refuses
       \/ /\ HoldsToken
          /\ Accepted([Runs(Stores(Another("display"))) EXCEPT
                          !.preview = None])

Revert ==
    /\ Asked({"Revert"})
    /\ IF HoldsToken THEN Accepted([service EXCEPT !.preview = None])
       ELSE Refuses

-----------------------------------------------------------------------------
(* Everybody else. *)

\* Another client, or the shared visual settings, store and apply.
AnotherReplaces ==
    /\ service.up /\ service.available /\ service.preview = None
    /\ Becomes(Retains(Stores(Another("theirs")), "reload"))

AnotherApplies ==
    /\ service.up /\ service.available /\ service.preview = None
    /\ service.managed /\ service.activation = "reload"
    /\ Becomes(Runs(service))

AnotherPreviews == service.up /\ MayPreview /\ Becomes(Previews(FALSE))

\* The deadline passes, or the owner of the preview leaves.
PreviewLapses ==
    /\ service.up /\ service.preview # None
    /\ Becomes([service EXCEPT !.preview = None])

\* A store that fails after it published makes the authority withdraw.
Withdraws ==
    /\ service.up /\ service.available /\ service.preview = None
    /\ Becomes([service EXCEPT !.available = FALSE])

OwnerChanges(up) == [kind |-> "NameOwnerChanged", up |-> up]

\* The calls the process had not answered are lost; its preview is reverted.
Crash ==
    /\ service.up
    /\ service' = [service EXCEPT !.up = FALSE, !.preview = None]
    /\ requests' = <<>>
    /\ inbox' = Append(inbox, OwnerChanges(FALSE))
    /\ Disturbed

\* The next instance may be of another release, with other catalogs.
Restart ==
    /\ ~service.up
    /\ \E digest \in {service.digest, service.digest + 1} :
           service' = [service EXCEPT !.up = TRUE, !.available = TRUE,
                                      !.digest = digest]
    /\ inbox' = Append(inbox, OwnerChanges(TRUE))
    /\ UNCHANGED <<requests, client, begun>>

-----------------------------------------------------------------------------
Unread ==
    [available |-> FALSE, revision |-> 0, digest |-> 0, managed |-> FALSE,
     applied |-> 0, applyState |-> "unavailable", activation |-> "none", preview |-> None]

Init ==
    /\ \E managed \in BOOLEAN :
           service = [up |-> TRUE, available |-> TRUE, revision |-> 1,
                      content |-> <<"initial", 1>>, digest |-> 1,
                      managed |-> managed,
                      applied |-> IF managed THEN 1 ELSE 0,
                      applyState |-> IF managed THEN "current" ELSE "inactive",
                      activation |-> IF managed THEN "none" ELSE "reload",
                      preview |-> None, previews |-> 0,
                      ran |-> IF managed THEN {<<"initial", 1>>} ELSE {}]
    /\ requests = <<Read("GetAll")>>
    /\ inbox = <<>>
    /\ client = [available |-> FALSE, optionReady |-> FALSE,
                 actionReady |-> FALSE, complete |-> FALSE,
                 displaysReady |-> FALSE, option |-> None, action |-> None,
                 properties |-> Unread, digest |-> 0,
                 snapshot |-> [revision |-> 0, content |-> <<"initial", 0>>,
                               digest |-> 0],
                 token |-> None, operation |-> None, told |-> None,
                 unread |-> FALSE]  \* history: a read of this refresh failed
    /\ operations = 0 /\ disturbances = 0

Client ==
    \/ PropertiesChanged \/ ServiceOwnerChanged
    \/ HydrateProperties \/ HydrateSnapshot \/ HydrateOptionCatalog
    \/ HydrateActionCatalog \/ HydrateDisplays \/ HydratePending
    \/ MutationReply \/ AnswerReply
    \/ ReplaceReply \/ VerifyPropertiesReply \/ VerifySnapshotReply
    \/ ApplyReply \/ ReconcileReply

Service ==
    \/ GetProperties \/ GetSnapshot \/ GetCatalog
    \/ GetConnectedDisplays \/ GetPendingDisplayConfirmation
    \/ ReplaceSnapshot \/ Apply \/ Adopt \/ Recover
    \/ PreviewDisplays \/ Confirm \/ Revert

User ==
    \/ AdoptManagedConfiguration \/ ApplyConfiguration
    \/ RecoverConfiguration \/ PreviewDisplayConfiguration
    \/ \E kind \in {"Confirm", "Revert"} : AnswerDisplayConfirmation(kind)
    \/ SaveOptionGroup \/ RetryApply \/ RefreshAsked

TimesOut == ReplaceTimesOut \/ ApplyTimesOut \/ OperationTimesOut \/ ReadFails

Others ==
    \/ AnotherReplaces \/ AnotherApplies \/ AnotherPreviews
    \/ PreviewLapses \/ Withdraws \/ Crash

Next == Client \/ Service \/ User \/ TimesOut \/ Others \/ Restart

Spec == Init /\ [][Next]_vars

\* Both event loops run and systemd restarts the service; the bounds make the
\* user and the others leave it alone after some time.
Certain == {"client", "service", "restart"}

CertainStep(name) ==
    CASE name = "client" -> Client
      [] name = "service" -> Service
      [] name = "restart" -> Restart

LiveSpec ==
    /\ Spec
    /\ \A name \in Certain : WF_vars(CertainStep(name))

-----------------------------------------------------------------------------
(* Properties *)

Steps ==
    {"Adopt", "Apply", "Recover", "Preview", "Confirm", "Revert", "Replace",
     "VerifyProperties", "VerifySnapshot", "SavedApply", "ReconcileProperties"}

Authors == {"initial", "mine", "theirs", "recovered", "display"}

Outcomes ==
    {"Done", "Failed", "Refused", "Unconfirmed", "ActivationRequired",
     "Applied", "NotApplied", "ApplyUnconfirmed"}

TypeOK ==
    /\ {service.up, service.available, service.managed, client.available,
        client.optionReady, client.actionReady, client.complete,
        client.displaysReady, client.unread} \subseteq BOOLEAN
    /\ service.preview # None => service.preview.id \in 1..service.previews
    /\ client.operation # None => client.operation.step \in Steps
    /\ client.told # None => client.told.outcome \in Outcomes
    /\ \A i \in DOMAIN requests : requests[i].kind \in ReadCalls \cup Steps
    /\ operations \in 0..MaxOperation
    /\ disturbances \in 0..MaxDisturbance

\* Whatever the service stores, runs or previews for this client starts from
\* exactly what the client showed: no retry, verification or late execution
\* overwrites or activates a configuration the user has not seen.
ActsOnWhatWasShown ==
    [][/\ requests # <<>> /\ requests' = Tail(requests)
       /\ Call.kind \in {"Replace", "SavedApply", "Apply", "Adopt",
                          "Recover", "Preview"}
       /\ service' # service /\ service'.up
       => Call.shown = service.content]_vars

\* The service the client has seen has neither withdrawn nor been replaced.
StillServes ==
    /\ service.up /\ service.available
    /\ \A i \in DOMAIN inbox : inbox[i].kind # "NameOwnerChanged"

\* What the user is told of a save is true, although calls time out and are
\* executed late: one that is refused is not what the service stores, one that
\* is applied has run.
ToldIsTrue ==
    /\ TypeOK
    /\ client.told # None =>
        /\ client.told.outcome = "Refused" /\ StillServes =>
               service.content # client.told.content
        /\ client.told.outcome = "Applied" =>
               client.told.content \in service.ran

\* The client shows what the service stores, can edit it if it runs, and holds
\* the token of its own preview; in particular every operation has ended.
Resting == client.operation = None /\ inbox = <<>> /\ requests = <<>>
ShowsSnapshot ==
    /\ client.properties = Published(service)
    /\ client.snapshot.revision = service.revision
    /\ client.snapshot.content = service.content

Converged ==
    /\ Resting
    /\ client.properties = Published(service)
    /\ IF service.available
       THEN client.available /\ client.complete /\ ShowsSnapshot
       ELSE ~client.available
    /\ service.preview # None =>
           (client.token = service.preview.id <=> service.preview.mine)

\* A read of the latest refresh failed, which is visible: the client is not
\* available, or it shows what is stored without what it could not read.
LeftWithout ==
    /\ Resting /\ client.unread
    /\ client.available =>
           ShowsSnapshot /\ ~(client.complete /\ client.displaysReady)

\* Once the user and the others leave the service alone, the client comes to
\* rest with what the service has, unless a read of its latest refresh failed,
\* by an error or the 15 seconds a read may take: nothing asks again then but
\* the user, and until then nothing is offered that was not read (refresh,
\* fetchSnapshot, finishHydration).
ClientConverges == <>[](Converged \/ LeftWithout)

=============================================================================
