---------------------------- MODULE CatalogReads ----------------------------
(***************************************************************************)
(* How the clients of ComponentManager1 read its catalog: a list of the    *)
(* components with the digest of all, then each of them, then the runtime  *)
(* of those that have one, each call naming the digest of the list.        *)
(*                                                                         *)
(* There is one system component and at most one user package, which has a *)
(* runtime.  A catalog is the set of user contents in it, and its own      *)
(* digest.                                                                 *)
(***************************************************************************)
EXTENDS Sequences

CONSTANT None

Reads == {"ListComponents", "GetComponent", "GetDeclarativeRuntime"}

ReadOf(method, catalog, user, contents) ==
    [method |-> method, catalog |-> catalog, user |-> user, contents |-> contents]

\* The answer of a manager with this catalog, or None for an error.
GetComponent(catalog, read) ==
    IF read.catalog # catalog \/ (read.user /\ catalog = {}) THEN None ELSE catalog

GetDeclarativeRuntime(catalog, read) ==
    IF read.catalog # catalog \/ read.contents # catalog THEN None ELSE read.contents

Served(catalog, read) ==
    CASE read.method = "ListComponents" -> catalog
      [] read.method = "GetComponent" -> GetComponent(catalog, read)
      [] read.method = "GetDeclarativeRuntime" -> GetDeclarativeRuntime(catalog, read)

\* What is read after this answer, or None when the catalog is whole.  The
\* system component comes first.
Following(read, answer) ==
    CASE read.method = "ListComponents" -> ReadOf("GetComponent", answer, FALSE, {})
      [] read.method = "GetComponent" /\ read.user ->
             ReadOf("GetDeclarativeRuntime", read.catalog, TRUE, answer)
      [] read.method = "GetComponent" /\ ~read.user /\ read.catalog # {} ->
             ReadOf("GetComponent", read.catalog, TRUE, {})
      [] read.method = "GetComponent" /\ ~read.user /\ read.catalog = {} -> None
      [] read.method = "GetDeclarativeRuntime" -> None

\* What was read has the digest that was listed.
Derived(read, answer) ==
    read.method = "GetDeclarativeRuntime" => answer = read.catalog

=============================================================================
