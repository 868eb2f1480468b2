----------------------- MODULE ComponentManagerClient -----------------------
(***************************************************************************)
(* The settings' client of ComponentManager1 and the manager as far as the *)
(* interface shows it (UserPackageStore and InspectionSessions have the    *)
(* rest): the catalog is read in several calls that all name its digest,   *)
(* and a package file is inspected, reviewed and installed.                *)
(*                                                                         *)
(* Catalogs are as in CatalogReads; the archive of a package is its        *)
(* content.  Messages of one sender arrive in their order.                 *)
(***************************************************************************)
EXTENDS Naturals, SequencesExt, CatalogReads

CONSTANTS
    Archive,            \* contents of the user's package, named by their digest
    MaxInspections,     \* bound on inspections
    MaxManagerEvents,   \* bound on other clients' changes and on restarts
    MaxManagerTimeouts  \* bound on calls that are given up

VARIABLES
    packageManager,
    packageCalls,       \* calls under way
    packageNews,        \* replies and signals under way
    packageClient,
    packageBounds,      \* events so far, by kind
    \* history
    reviews,            \* contents shown for review, with the catalog they were shown against
    unreviewed          \* something was installed that was not

vars == <<packageManager, packageCalls, packageNews, packageClient, packageBounds,
          reviews, unreviewed>>

Token == 1..MaxInspections

-----------------------------------------------------------------------------
(* The manager.                                                            *)

Active(manager) == {t \in Token : manager.sessions[t] # None}

Ended(manager, t) == [manager EXCEPT !.sessions[t] = None]

\* acceptUserCatalog, publishCatalogDigestChanged.
acceptUserCatalog(manager, catalog) ==
    IF catalog = manager.catalog THEN manager
    ELSE [manager EXCEPT !.catalog = catalog, !.sent = Append(@, [kind |-> "changed"])]

Answers(manager, value) == [manager |-> manager, ok |-> TRUE, value |-> value]
Fails(manager) == [manager |-> manager, ok |-> FALSE, value |-> None]

BeginPackageInspection(manager, call, works) ==
    IF ~works \/ manager.begun = MaxInspections THEN Fails(manager)
    ELSE Answers([manager EXCEPT !.begun = @ + 1,
                     !.sessions[manager.begun + 1] =
                         [content |-> call.content, complete |-> FALSE]],
                 manager.begun + 1)

CancelPackageInspection(manager, call) ==
    IF call.token \in Active(manager) THEN Answers(Ended(manager, call.token), None)
    ELSE Fails(manager)

InstallInspectedPackage(manager, call, works) ==
    IF call.catalog # manager.catalog \/ call.token \notin Active(manager)
        THEN Fails(manager)
    ELSE LET session == manager.sessions[call.token] IN
         IF ~session.complete \/ session.content # call.content THEN Fails(manager)
         ELSE IF ~works THEN Fails(Ended(manager, call.token))
         ELSE Answers(acceptUserCatalog(Ended(manager, call.token), {session.content}), None)

RemovePackage(manager, call, works) ==
    IF call.catalog # manager.catalog \/ {call.content} # manager.catalog \/ ~works
    THEN Fails(manager) ELSE Answers(acceptUserCatalog(manager, {}), None)

Handled(manager, call, works) ==
    CASE ~manager.up -> Fails(manager)
      [] manager.up /\ call.method \in Reads ->
             LET answer == Served(manager.catalog, call.read) IN
             IF answer = None THEN Fails(manager) ELSE Answers(manager, answer)
      [] manager.up /\ call.method = "BeginPackageInspection" ->
             BeginPackageInspection(manager, call, works)
      [] manager.up /\ call.method = "CancelPackageInspection" ->
             CancelPackageInspection(manager, call)
      [] manager.up /\ call.method = "InstallInspectedPackage" ->
             InstallInspectedPackage(manager, call, works)
      [] manager.up /\ call.method = "RemovePackage" -> RemovePackage(manager, call, works)

-----------------------------------------------------------------------------
(* The client.  Each operator takes it, with the calls it has sent and the *)
(* methods whose answers it no longer awaits, to what it becomes.          *)

Begin == {"BeginPackageInspection"}
Operations == {"InstallInspectedPackage", "RemovePackage"}

\* A cancellation is sent and forgotten.
Awaited == Reads \cup Begin \cup Operations

Call(method) ==
    [method |-> method, awaited |-> method \in Awaited, lost |-> FALSE, read |-> None,
     token |-> None, content |-> None, catalog |-> None]

ReadCall(read) == [Call(read.method) EXCEPT !.read = read]

Sends(c, call) == [c EXCEPT !.out = Append(@, call)]

Outdated(calls, methods) ==
    SelectSeq([i \in DOMAIN calls |->
                   [calls[i] EXCEPT !.awaited = @ /\ calls[i].method \notin methods]],
              LAMBDA call : call.awaited \/ call.method \notin Reads)

Outdates(c, methods) ==
    [c EXCEPT !.stale = @ \cup methods, !.out = Outdated(@, methods)]

\* ++packageGeneration_
NextPackageOperation(c) == Outdates(c, Begin \cup Operations)

NoInspection(c) ==
    [c EXCEPT !.review = None, !.token = None, !.reviewedAgainst = None]

Cancels(c, token) == Sends(c, [Call("CancelPackageInspection") EXCEPT !.token = token])

refresh(c) ==
    Sends(Outdates([c EXCEPT !.retry = FALSE, !.available = FALSE, !.busy = TRUE], Reads),
          ReadCall(ReadOf("ListComponents", None, FALSE, {})))

fail(c) == [c EXCEPT !.busy = FALSE, !.available = FALSE, !.retry = TRUE]

accept(c, catalog) ==
    [c EXCEPT !.catalog = catalog, !.busy = FALSE, !.available = TRUE]

fetchNext(c, read, ok, answer) ==
    IF ~ok THEN fail(c)
    ELSE LET next == Following(read, answer) IN
         IF next # None THEN Sends(c, ReadCall(next))
         ELSE IF Derived(read, answer) THEN accept(c, read.catalog)
         ELSE fail(c)

inspectPackage(c, content) ==
    LET rid == IF c.token = None THEN c ELSE Cancels(c, c.token)
    IN Sends([NextPackageOperation(NoInspection(rid)) EXCEPT !.inspecting = TRUE],
             [Call("BeginPackageInspection") EXCEPT !.content = content])

\* An answer that is no longer awaited is an inspection to be cancelled.
Begun(c, call, ok, token) ==
    IF ~call.awaited THEN (IF ok THEN Cancels(c, token) ELSE c)
    ELSE IF ok THEN [c EXCEPT !.token = token] ELSE [c EXCEPT !.inspecting = FALSE]

cancelInspection(c) ==
    LET next == NextPackageOperation(c)
        told == IF c.token = None THEN next ELSE Cancels(next, c.token)
    IN [NoInspection(told) EXCEPT !.inspecting = FALSE]

packageInspectionFinished(c, token, ok, content) ==
    IF token # c.token THEN c
    ELSE IF ~ok THEN [NoInspection(c) EXCEPT !.inspecting = FALSE]
    ELSE [c EXCEPT !.inspecting = FALSE, !.review = content, !.reviewedAgainst = c.catalog]

\* Faulty variant of installInspectedPackage: against the latest catalog.
InstalledAgainstLatest(c) ==
    Sends([NextPackageOperation(c) EXCEPT !.operating = TRUE],
          [Call("InstallInspectedPackage") EXCEPT
               !.token = c.token, !.content = c.review, !.catalog = c.catalog])

installInspectedPackage(c) ==
    Sends([NextPackageOperation(c) EXCEPT !.operating = TRUE],
          [Call("InstallInspectedPackage") EXCEPT
               !.token = c.token, !.content = c.review, !.catalog = c.reviewedAgainst])

Installed(c, call, ok) ==
    LET over == NoInspection([c EXCEPT !.operating = FALSE])
    IN IF ok THEN refresh(over) ELSE Cancels(over, call.token)

removeComponent(c, content) ==
    Sends([NextPackageOperation(c) EXCEPT !.operating = TRUE],
          [Call("RemovePackage") EXCEPT !.content = content, !.catalog = c.catalog])

Removed(c, ok) ==
    LET over == [c EXCEPT !.operating = FALSE] IN IF ok THEN refresh(over) ELSE over

serviceOwnerChanged(c, owned) ==
    LET lost == NoInspection(NextPackageOperation(Outdates(
                    [c EXCEPT !.retry = FALSE, !.busy = FALSE, !.available = FALSE,
                              !.inspecting = FALSE, !.operating = FALSE], Reads)))
    IN IF owned THEN refresh(lost) ELSE [lost EXCEPT !.retry = TRUE]

Replied(c, call, ok, value) ==
    CASE call.method \in Reads -> fetchNext(c, call.read, ok, value)
      [] call.method = "BeginPackageInspection" -> Begun(c, call, ok, value)
      [] call.method = "InstallInspectedPackage" -> Installed(c, call, ok)
      [] call.method = "RemovePackage" -> Removed(c, ok)

Received(c, message) ==
    CASE message.kind = "reply" -> Replied(c, message.call, message.ok, message.value)
      [] message.kind = "changed" -> refresh(c)
      [] message.kind = "owner" -> serviceOwnerChanged(c, message.owned)
      [] message.kind = "finished" ->
             packageInspectionFinished(c, message.token, message.ok, message.content)

-----------------------------------------------------------------------------
Init ==
    /\ packageManager = [up |-> TRUE, catalog |-> {}, begun |-> 0,
                         sessions |-> [t \in Token |-> None], sent |-> <<>>]
    /\ packageClient = [available |-> FALSE, busy |-> TRUE, catalog |-> None,
                        retry |-> FALSE, token |-> None, review |-> None,
                        reviewedAgainst |-> None, inspecting |-> FALSE,
                        operating |-> FALSE, out |-> <<>>, stale |-> {}]
    /\ packageCalls = <<ReadCall(ReadOf("ListComponents", None, FALSE, {}))>>
    /\ packageNews = <<>>
    /\ packageBounds = [events |-> 0, timeouts |-> 0]
    /\ reviews = {}
    /\ unreviewed = FALSE

Counted(bound, max) ==
    /\ packageBounds[bound] < max
    /\ packageBounds' = [packageBounds EXCEPT ![bound] = @ + 1]

ManagerStep(manager, answers) == \E m \in {manager} :
    /\ packageManager' = [m EXCEPT !.sent = <<>>]
    /\ packageNews' = packageNews \o m.sent \o answers

\* A reply that begins an inspection is looked at whether it is awaited or not.
Disowned(news, methods) ==
    LET Kept(message) ==
            \/ message.kind # "reply"
            \/ message.call.method \notin methods \ Begin
        kept == SelectSeq(news, Kept)
    IN [i \in DOMAIN kept |->
            IF kept[i].kind = "reply"
            THEN [kept[i] EXCEPT !.call.awaited = @ /\ kept[i].call.method \notin methods]
            ELSE kept[i]]

ClientStep(next, news) == \E c \in {next} :
    /\ packageClient' = [c EXCEPT !.out = <<>>, !.stale = {}]
    /\ packageCalls' = Outdated(packageCalls, c.stale) \o c.out
    /\ packageNews' = Disowned(news, c.stale)

Reply(call, ok, value) ==
    IF ~call.lost /\ (call.awaited \/ call.method \in Begin)
    THEN <<[kind |-> "reply", call |-> call, ok |-> ok, value |-> value]>> ELSE <<>>

CallHandled(works) ==
    /\ packageCalls # <<>>
    /\ packageCalls' = Tail(packageCalls)
    /\ LET call == Head(packageCalls) IN
       \E answer \in {Handled(packageManager, call, works)} :
           /\ ManagerStep(answer.manager, Reply(call, answer.ok, answer.value))
           /\ unreviewed' = (\/ unreviewed
                             \/ /\ call.method = "InstallInspectedPackage" /\ answer.ok
                                /\ <<call.content, packageManager.catalog>> \notin reviews)
    /\ UNCHANGED <<packageClient, packageBounds, reviews>>

\* The inspection of a session ends, or a session that is not taken expires.
InspectionFinished(t, ok) ==
    /\ t \in Active(packageManager)
    /\ packageManager.sessions[t].complete => ~ok
    /\ packageManager' =
           IF ok THEN [packageManager EXCEPT !.sessions[t].complete = TRUE]
           ELSE Ended(packageManager, t)
    /\ packageNews' = Append(packageNews,
           [kind |-> "finished", token |-> t, ok |-> ok,
            content |-> packageManager.sessions[t].content])
    /\ UNCHANGED <<packageCalls, packageClient, packageBounds, reviews, unreviewed>>

\* Another client installs or removes the package.
OtherChanges(catalog) ==
    /\ packageManager.up /\ catalog # packageManager.catalog
    /\ Counted("events", MaxManagerEvents)
    /\ ManagerStep(acceptUserCatalog(packageManager, catalog), <<>>)
    /\ UNCHANGED <<packageCalls, packageClient, reviews, unreviewed>>

ManagerCrash ==
    /\ packageManager.up
    /\ Counted("events", MaxManagerEvents)
    /\ packageManager' = [packageManager EXCEPT !.up = FALSE,
                              !.sessions = [t \in Token |-> None]]
    /\ packageNews' = packageNews
           \o FoldSeq(LAMBDA call, answers : Reply(call, FALSE, None) \o answers,
                      <<>>, packageCalls)
           \o <<[kind |-> "owner", owned |-> FALSE]>>
    /\ packageCalls' = <<>>
    /\ UNCHANGED <<packageClient, reviews, unreviewed>>

ManagerStart ==
    /\ ~packageManager.up
    /\ packageManager' = [packageManager EXCEPT !.up = TRUE]
    /\ packageNews' = Append(packageNews, [kind |-> "owner", owned |-> TRUE])
    /\ UNCHANGED <<packageCalls, packageClient, packageBounds, reviews, unreviewed>>

MessageReceived ==
    /\ packageNews # <<>>
    /\ \E c \in {Received(packageClient, Head(packageNews))} :
          /\ ClientStep(c, Tail(packageNews))
          /\ reviews' = IF c.review = None THEN reviews
                        ELSE reviews \cup {<<c.review, c.reviewedAgainst>>}
    /\ UNCHANGED <<packageManager, packageBounds, unreviewed>>

\* A call is given up; its answer, if it comes, is lost.
CallTimedOut(method) ==
    /\ Counted("timeouts", MaxManagerTimeouts)
    /\ \E i \in DOMAIN packageCalls :
          /\ packageCalls[i].method = method /\ packageCalls[i].awaited
          /\ \E c \in {Replied(Outdates(packageClient, {method}), packageCalls[i],
                               FALSE, None)} :
                /\ packageClient' = [c EXCEPT !.out = <<>>, !.stale = {}]
                /\ packageCalls' =
                       Outdated([packageCalls EXCEPT ![i].lost = TRUE], c.stale) \o c.out
                /\ packageNews' = Disowned(packageNews, c.stale)
    /\ UNCHANGED <<packageManager, reviews, unreviewed>>

User(next) ==
    /\ ClientStep(next, packageNews)
    /\ UNCHANGED <<packageManager, packageBounds, reviews, unreviewed>>

RetryTimeout == packageClient.retry /\ User(refresh(packageClient))

UserInspects(content) ==
    /\ ~packageClient.inspecting /\ ~packageClient.operating
    /\ packageClient.review = None
    /\ User(inspectPackage(packageClient, content))

\* The dialog that shows the review lets the user cancel or install.
UserCancels ==
    /\ packageClient.review # None /\ ~packageClient.operating
    /\ User(cancelInspection(packageClient))

UserInstalls ==
    /\ packageClient.review # None /\ packageClient.reviewedAgainst # None
    /\ ~packageClient.inspecting /\ ~packageClient.operating
    /\ User(installInspectedPackage(packageClient))

UserRemoves(content) ==
    /\ packageClient.catalog = {content}
    /\ ~packageClient.inspecting /\ ~packageClient.operating
    /\ packageClient.review = None
    /\ User(removeComponent(packageClient, content))

Next ==
    \/ \E works \in BOOLEAN : CallHandled(works)
    \/ \E t \in Token, ok \in BOOLEAN : InspectionFinished(t, ok)
    \/ \E catalog \in {{}} \cup {{content} : content \in Archive} : OtherChanges(catalog)
    \/ ManagerCrash
    \/ ManagerStart
    \/ MessageReceived
    \/ \E method \in Awaited : CallTimedOut(method)
    \/ RetryTimeout
    \/ \E content \in Archive : UserInspects(content)
    \/ UserCancels
    \/ UserInstalls
    \/ \E content \in Archive : UserRemoves(content)

Spec == Init /\ [][Next]_vars

-----------------------------------------------------------------------------
AtRest ==
    /\ packageManager.up
    /\ packageCalls = <<>> /\ packageNews = <<>>

(***************************************************************************)
(* With nothing under way and no retry to come the client shows the        *)
(* manager's catalog, waits for nothing that will not be answered, and     *)
(* offers a review only of an inspection that can still be installed;      *)
(* unless a call was given up, no inspection is left that nobody will      *)
(* cancel or install.                                                      *)
(***************************************************************************)
CatalogFollowed ==
    AtRest /\ ~packageClient.retry =>
        /\ packageClient.available /\ ~packageClient.busy
        /\ packageClient.catalog = packageManager.catalog

InspectionsAccounted ==
    AtRest =>
        /\ ~packageClient.operating
        /\ packageClient.token # None => packageClient.token \in Active(packageManager)
        /\ packageClient.inspecting => packageClient.token # None
        /\ packageBounds.timeouts = 0 =>
               Active(packageManager) \subseteq {packageClient.token}

ManagerClientHolds == ~unreviewed /\ CatalogFollowed /\ InspectionsAccounted

=============================================================================
