-------------------------- MODULE PackageCatalog --------------------------
(***************************************************************************)
(* What the component manager promises about the installed user packages:  *)
(* each request changes one component, in one step, and takes away none    *)
(* that another depends on; a request answered with success is in effect,  *)
(* one answered with failure has changed nothing, and one whose answer is  *)
(* lost did all of its work or none.                                       *)
(***************************************************************************)
CONSTANTS
    Component,
    Package,        \* [id, version, digest] records
    Needs,          \* Package -> the components it depends on
    None

VARIABLES
    installed,      \* Component -> Package or None
    request,        \* the request under way
    before,         \* the installed packages when it was accepted
    answer          \* how the last request ended

vars == <<installed, request, before, answer>>

Request == [kind: {"install", "remove"}, package: Package]
Wanted(r) == IF r.kind = "install" THEN r.package ELSE None

\* Nothing that is installed depends on the component.
Unneeded(c) ==
    \A d \in Component \ {c} :
        installed[d] # None => c \notin Needs[installed[d]]

Ask(r) ==
    /\ request = None
    /\ r.kind = "remove" => installed[r.package.id] = r.package
    /\ request' = r
    /\ before' = installed
    /\ answer' = "none"
    /\ UNCHANGED installed

Apply ==
    /\ request # None
    /\ request.kind = "remove" => Unneeded(request.package.id)
    /\ installed' = [installed EXCEPT ![request.package.id] = Wanted(request)]
    /\ UNCHANGED <<request, before, answer>>

\* A removal that cannot be completed puts the package back.
TakeBack ==
    /\ request # None
    /\ request.kind = "remove"
    /\ installed' = before
    /\ UNCHANGED <<request, before, answer>>

End(result) ==
    /\ request' = None
    /\ before' = None
    /\ answer' = result
    /\ UNCHANGED installed

Succeed ==
    /\ request # None
    /\ installed[request.package.id] = Wanted(request)
    /\ End("success")

Fail ==
    /\ request # None
    /\ installed = before
    /\ End("failure")

Crash == End("lost")

Init ==
    /\ installed = [c \in Component |-> None]
    /\ request = None
    /\ before = None
    /\ answer = "lost"

Next ==
    \/ \E r \in Request : Ask(r)
    \/ Apply
    \/ TakeBack
    \/ Succeed
    \/ Fail
    \/ Crash

Spec == Init /\ [][Next]_vars
=============================================================================
