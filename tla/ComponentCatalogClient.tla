----------------------- MODULE ComponentCatalogClient -----------------------
(***************************************************************************)
(* configd's client of ComponentManager1, which gives the component        *)
(* configuration the catalog it is validated against (ComponentConfigClient*)
(* has that service), and the manager as far as it shows its catalog.      *)
(***************************************************************************)
EXTENDS Naturals, SequencesExt, CatalogReads

CONSTANTS
    Archive,            \* contents of the user's package, named by their digest
    MaxCatalogEvents,   \* bound on changes of the catalog and restarts
    MaxCatalogTimeouts  \* bound on calls that are given up

VARIABLES
    catalogManager,
    catalogCalls,       \* calls under way
    catalogNews,        \* replies and signals under way
    catalogClient,
    catalogBounds

vars == <<catalogManager, catalogCalls, catalogNews, catalogClient, catalogBounds>>

\* A refresh supersedes the reads before it: their answers are not awaited.
refresh(c) ==
    [c EXCEPT !.retry = FALSE, !.outdated = TRUE,
              !.out = <<ReadOf("ListComponents", None, FALSE, {})>>]

Unavailable(c) == [c EXCEPT !.available = FALSE]

fail(c) == [Unavailable(c) EXCEPT !.retry = TRUE]

accept(c, catalog) == [c EXCEPT !.available = TRUE, !.catalog = catalog]

fetchNext(c, read, answer) ==
    IF answer = None THEN fail(c)
    ELSE LET next == Following(read, answer) IN
         IF next # None THEN [c EXCEPT !.out = <<next>>]
         ELSE IF Derived(read, answer) THEN accept(c, read.catalog)
         ELSE fail(c)

propertiesChanged(c) == refresh(Unavailable(c))

serviceOwnerChanged(c, owned) ==
    LET lost == [Unavailable(c) EXCEPT !.retry = FALSE, !.outdated = TRUE]
    IN IF owned THEN refresh(lost) ELSE lost

Received(c, message) ==
    CASE message.kind = "reply" -> fetchNext(c, message.read, message.answer)
      [] message.kind = "changed" -> propertiesChanged(c)
      [] message.kind = "owner" -> serviceOwnerChanged(c, message.owned)

-----------------------------------------------------------------------------
Init ==
    /\ catalogManager = [up |-> TRUE, catalog |-> {}]
    /\ catalogClient = [available |-> FALSE, catalog |-> None, retry |-> FALSE,
                        outdated |-> FALSE, out |-> <<>>]
    /\ catalogCalls = <<ReadOf("ListComponents", None, FALSE, {})>>
    /\ catalogNews = <<>>
    /\ catalogBounds = [events |-> 0, timeouts |-> 0]

Counted(bound, max) ==
    /\ catalogBounds[bound] < max
    /\ catalogBounds' = [catalogBounds EXCEPT ![bound] = @ + 1]

ClientStep(next, calls, news) == \E c \in {next} :
    /\ catalogClient' = [c EXCEPT !.out = <<>>, !.outdated = FALSE]
    /\ catalogCalls' = (IF c.outdated THEN <<>> ELSE calls) \o c.out
    /\ catalogNews' = SelectSeq(news, LAMBDA message : ~c.outdated \/ message.kind # "reply")

Reply(read, answer) == [kind |-> "reply", read |-> read, answer |-> answer]

CallHandled ==
    /\ catalogCalls # <<>>
    /\ catalogCalls' = Tail(catalogCalls)
    /\ catalogNews' = Append(catalogNews, Reply(Head(catalogCalls),
           IF catalogManager.up THEN Served(catalogManager.catalog, Head(catalogCalls))
           ELSE None))
    /\ UNCHANGED <<catalogManager, catalogClient, catalogBounds>>

\* A package is installed, replaced or removed.
CatalogChanged(catalog) ==
    /\ catalogManager.up /\ catalog # catalogManager.catalog
    /\ Counted("events", MaxCatalogEvents)
    /\ catalogManager' = [catalogManager EXCEPT !.catalog = catalog]
    /\ catalogNews' = Append(catalogNews, [kind |-> "changed"])
    /\ UNCHANGED <<catalogCalls, catalogClient>>

ManagerCrash ==
    /\ catalogManager.up
    /\ Counted("events", MaxCatalogEvents)
    /\ catalogManager' = [catalogManager EXCEPT !.up = FALSE]
    /\ catalogNews' = catalogNews
           \o [i \in DOMAIN catalogCalls |-> Reply(catalogCalls[i], None)]
           \o <<[kind |-> "owner", owned |-> FALSE]>>
    /\ catalogCalls' = <<>>
    /\ UNCHANGED catalogClient

\* Another manager may find other packages.
ManagerStart(catalog) ==
    /\ ~catalogManager.up
    /\ catalogManager' = [up |-> TRUE, catalog |-> catalog]
    /\ catalogNews' = Append(catalogNews, [kind |-> "owner", owned |-> TRUE])
    /\ UNCHANGED <<catalogCalls, catalogClient, catalogBounds>>

MessageReceived ==
    /\ catalogNews # <<>>
    /\ ClientStep(Received(catalogClient, Head(catalogNews)), catalogCalls, Tail(catalogNews))
    /\ UNCHANGED <<catalogManager, catalogBounds>>

CallTimedOut ==
    /\ catalogCalls # <<>>
    /\ Counted("timeouts", MaxCatalogTimeouts)
    /\ ClientStep(fail(catalogClient), Tail(catalogCalls), catalogNews)
    /\ UNCHANGED catalogManager

RetryTimeout ==
    /\ catalogClient.retry
    /\ ClientStep(refresh(catalogClient), catalogCalls, catalogNews)
    /\ UNCHANGED <<catalogManager, catalogBounds>>

Catalogs == {{}} \cup {{content} : content \in Archive}

Next ==
    \/ CallHandled
    \/ \E catalog \in Catalogs : CatalogChanged(catalog) \/ ManagerStart(catalog)
    \/ ManagerCrash
    \/ MessageReceived
    \/ CallTimedOut
    \/ RetryTimeout

Spec == Init /\ [][Next]_vars

-----------------------------------------------------------------------------
(***************************************************************************)
(* The configuration is validated against the manager's catalog: what the  *)
(* client holds as available is what the manager has, all of it read under *)
(* one digest, whatever changed between the calls; and it is available     *)
(* when nothing is left to read.                                           *)
(***************************************************************************)
CatalogIsCurrent ==
    /\ catalogNews = <<>> /\ catalogClient.available =>
           catalogManager.up /\ catalogClient.catalog = catalogManager.catalog
    /\ catalogManager.up /\ catalogNews = <<>> /\ catalogCalls = <<>> /\ ~catalogClient.retry =>
           catalogClient.available

=============================================================================
